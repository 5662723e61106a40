----------------------------- MODULE EdgeProofs -----------------------------
(* Theorems about what surrounds the payments: TokenClosing, RedisKeys,      *)
(* Authentication, Webhooks and Wallet, for any number of tokens, users,     *)
(* requests, processes, events and accounts.                                 *)
EXTENDS MCEdge, SumTheorems, TLAPS

-----------------------------------------------------------------------------
(* TokenClosing: a token outside shared belongs to one session at a time,    *)
(* and has had nothing refunded while it is open.                            *)
AnyRow == [available : Int, locked : Int, credits : Int, debits : Int]

ClosingTypes ==
  /\ tokenIs \in [Tokens -> {"open", "revoked", "expired"}] /\ overdue \in SUBSET Tokens
  /\ row \in AnyRow /\ paidBack \in [Tokens -> Int]
  /\ toClose \in [Closers -> SUBSET Tokens] /\ done \in [Closers -> SUBSET Tokens]
  /\ rowHeld \in [Closers -> AnyRow] /\ paying \in [Closers -> [Tokens -> Int]]

Has(s, t) == t \in toClose[s] \cup done[s]

OwnersApart ==
  \A s \in Closers, t \in Tokens \ shared :
    Has(s, t) => tokenIs[t] = "open" /\ \A q \in Closers \ {s} : ~Has(q, t)

PaysUnused ==
  \A s \in Closers, t \in Tokens :
    paying[s][t] <= Unused(t) /\ (t \notin done[s] => paying[s][t] = 0)

ClosingIInv == ClosingTypes /\ OwnersApart /\ PaysUnused /\ TwiceRefundedOnlyByOverlap

LEMMA UnusedFacts == \A t \in Tokens : Unused(t) \in Nat
BY ClosingAssumption DEF Unused

\* A row made of two others has integer columns.
LEMMA MergedFacts ==
  ASSUME NEW a \in AnyRow, NEW c \in Int, NEW d \in Int
  PROVE  Merged(a, [credits |-> c, debits |-> d]) \in AnyRow
BY DEF Merged, AnyRow

\* A refund moves no more than was asked for.
LEMMA RefundFacts ==
  ASSUME NEW a \in AnyRow, NEW n \in Nat
  PROVE  /\ Refunded(a, n) \in AnyRow
         /\ RefundAmount(a, n) \in Int /\ RefundAmount(a, n) <= n
<1>1. /\ a.available \in Int /\ a.locked \in Int /\ a.credits \in Int /\ a.debits \in Int
  BY DEF AnyRow
<1>2. RefundAmount(a, n) \in Int /\ RefundAmount(a, n) <= n
  BY <1>1 DEF RefundAmount
<1> QED  BY <1>1, <1>2 DEF Refunded, Moved, AnyRow

LEMMA CommittedRowFacts ==
  ASSUME ClosingTypes, NEW s \in Closers PROVE CommittedRow(s) \in AnyRow
<1>1. rowHeld[s] \in AnyRow /\ row \in AnyRow
  BY DEF ClosingTypes
<1>2. /\ row.credits + rowHeld[s].credits \in Int
      /\ row.debits + rowHeld[s].debits \in Int
  BY <1>1 DEF AnyRow
<1> QED  BY <1>1, <1>2, MergedFacts DEF CommittedRow

\* A step that neither commits nor refunds, and leaves or shares tokens only.
LEMMA BeginClosingFacts ==
  ASSUME ClosingIInv, NEW s \in Closers, NEW how, NEW tokens,
         tokens \subseteq {t \in Tokens : tokenIs[t] = "open"},
         BeginClosing(s, how, tokens)
  PROVE  ClosingIInv'
<1>1. /\ UNCHANGED <<tokenIs, overdue, row, paidBack, done, rowHeld, paying>>
      /\ toClose' = [toClose EXCEPT ![s] = tokens]
      /\ shared' = shared \cup (tokens \cap UNION {toClose[q] \cup done[q] : q \in Closers \ {s}})
  BY DEF BeginClosing
<1>2. ClosingTypes'
  BY <1>1 DEF ClosingIInv, ClosingTypes
<1>3. OwnersApart'
  <2> SUFFICES ASSUME NEW q \in Closers, NEW t \in Tokens, t \notin shared', Has(q, t)'
               PROVE  (tokenIs[t] = "open" /\ \A p \in Closers \ {q} : ~Has(p, t))'
    BY DEF OwnersApart
  <2>1. t \notin shared /\ (t \in tokens => \A p \in Closers \ {s} : ~Has(p, t))
    BY <1>1 DEF Has
  <2>2. \A p \in Closers \ {s} : Has(p, t)' = Has(p, t)
    BY <1>1 DEF Has, ClosingIInv, ClosingTypes
  <2>3. Has(s, t)' => t \in tokens \/ Has(s, t)
    BY <1>1 DEF Has, ClosingIInv, ClosingTypes
  <2>4. CASE t \in tokens
    BY <1>1, <2>1, <2>2, <2>4
  <2>5. CASE t \notin tokens
    <3>1. Has(q, t)
      BY <2>2, <2>3, <2>5
    <3> QED  BY <1>1, <2>1, <2>2, <2>3, <2>5, <3>1 DEF ClosingIInv, OwnersApart
  <2> QED  BY <2>4, <2>5
<1>4. PaysUnused' /\ TwiceRefundedOnlyByOverlap'
  BY <1>1 DEF ClosingIInv, PaysUnused, TwiceRefundedOnlyByOverlap, Unused
<1> QED  BY <1>2, <1>3, <1>4 DEF ClosingIInv

\* Handling a token: it moves from what the session has to do to what it has done.
LEMMA CloseTokenFacts ==
  ASSUME ClosingIInv, NEW s \in Closers, NEW t \in Tokens, CloseToken(s, t)
  PROVE  ClosingIInv'
<1>1. /\ UNCHANGED <<tokenIs, overdue, row, paidBack, shared>> /\ t \in toClose[s]
      /\ toClose' = [toClose EXCEPT ![s] = toClose[s] \ {t}]
      /\ done' = [done EXCEPT ![s] = done[s] \cup {t}]
  BY DEF CloseToken, books
<1>2. PICK r \in AnyRow, n \in Int :
        /\ n <= Unused(t)
        /\ rowHeld' = [rowHeld EXCEPT ![s] = r]
        /\ paying' = [paying EXCEPT ![s] = [paying[s] EXCEPT ![t] = n]]
  <2>1. CASE Unused(t) > 0
    <3>1. /\ Refunded(rowHeld[s], Unused(t)) \in AnyRow
          /\ RefundAmount(rowHeld[s], Unused(t)) \in Int
          /\ RefundAmount(rowHeld[s], Unused(t)) <= Unused(t)
      BY UnusedFacts, RefundFacts DEF ClosingIInv, ClosingTypes
    <3>2. /\ rowHeld' = [rowHeld EXCEPT ![s] = Refunded(rowHeld[s], Unused(t))]
          /\ paying' = [paying EXCEPT ![s] =
               [paying[s] EXCEPT ![t] = RefundAmount(rowHeld[s], Unused(t))]]
      BY <2>1 DEF CloseToken
    <3> QED  BY <3>1, <3>2
  <2>2. CASE ~(Unused(t) > 0)
    <3>1. rowHeld' = rowHeld /\ paying' = paying
      BY <2>2 DEF CloseToken
    <3>2. /\ rowHeld' = [rowHeld EXCEPT ![s] = rowHeld[s]]
          /\ paying' = [paying EXCEPT ![s] = [paying[s] EXCEPT ![t] = paying[s][t]]]
      BY <3>1 DEF ClosingIInv, ClosingTypes
    <3>3. rowHeld[s] \in AnyRow /\ paying[s][t] \in Int /\ paying[s][t] <= Unused(t)
      BY DEF ClosingIInv, ClosingTypes, PaysUnused
    <3> QED  BY <3>2, <3>3
  <2> QED  BY <2>1, <2>2
<1>3. ClosingTypes'
  <2>1. /\ toClose' \in [Closers -> SUBSET Tokens] /\ done' \in [Closers -> SUBSET Tokens]
    BY <1>1 DEF ClosingIInv, ClosingTypes
  <2>2. [paying[s] EXCEPT ![t] = n] \in [Tokens -> Int]
    BY DEF ClosingIInv, ClosingTypes
  <2> QED  BY <1>1, <1>2, <2>1, <2>2 DEF ClosingIInv, ClosingTypes
<1>4. OwnersApart'
  <2>1. \A q \in Closers, u \in Tokens : Has(q, u)' = Has(q, u)
    BY <1>1 DEF Has, ClosingIInv, ClosingTypes
  <2> QED  BY <1>1, <2>1 DEF ClosingIInv, OwnersApart
<1>5. PaysUnused'
  <2> SUFFICES ASSUME NEW q \in Closers, NEW u \in Tokens
               PROVE  (paying[q][u] <= Unused(u) /\ (u \notin done[q] => paying[q][u] = 0))'
    BY DEF PaysUnused
  <2>1. CASE q = s /\ u = t
    <3>1. paying'[q][u] = n /\ u \in done'[q]
      BY <1>1, <1>2, <2>1 DEF ClosingIInv, ClosingTypes
    <3> QED  BY <1>2, <2>1, <3>1 DEF Unused
  <2>2. CASE ~(q = s /\ u = t)
    <3>1. paying'[q][u] = paying[q][u] /\ (u \in done'[q] <=> u \in done[q])
      BY <1>1, <1>2, <2>2 DEF ClosingIInv, ClosingTypes
    <3> QED  BY <3>1 DEF ClosingIInv, PaysUnused, Unused
  <2> QED  BY <2>1, <2>2
<1>6. TwiceRefundedOnlyByOverlap'
  BY <1>1 DEF ClosingIInv, TwiceRefundedOnlyByOverlap, Unused
<1> QED  BY <1>3, <1>4, <1>5, <1>6 DEF ClosingIInv

\* A session that ends has nothing any more.
LEMMA EndClosingFacts ==
  ASSUME ClosingTypes, NEW s \in Closers, EndClosing(s)
  PROVE  /\ toClose' \in [Closers -> SUBSET Tokens] /\ done' \in [Closers -> SUBSET Tokens]
         /\ rowHeld' \in [Closers -> AnyRow] /\ paying' \in [Closers -> [Tokens -> Int]]
         /\ \A q \in Closers, t \in Tokens :
              /\ Has(q, t)' <=> q # s /\ Has(q, t)
              /\ paying'[q][t] = IF q = s THEN 0 ELSE paying[q][t]
              /\ t \in done'[q] <=> q # s /\ t \in done[q]
<1>1. /\ toClose' = [toClose EXCEPT ![s] = {}] /\ done' = [done EXCEPT ![s] = {}]
      /\ rowHeld' = [rowHeld EXCEPT ![s] = EmptyAccount]
      /\ paying' = [paying EXCEPT ![s] = Nothing]
  BY DEF EndClosing
<1>2. EmptyAccount \in AnyRow /\ Nothing \in [Tokens -> Int]
  BY DEF EmptyAccount, AnyRow, Nothing
<1>3. \A t \in Tokens : Nothing[t] = 0
  BY DEF Nothing
<1> QED  BY <1>1, <1>2, <1>3 DEF ClosingTypes, Has

LEMMA CommitClosingFacts ==
  ASSUME ClosingIInv, NEW s \in Closers, CommitClosing(s)
  PROVE  ClosingIInv'
<1>1. /\ tokenIs' = [t \in Tokens |-> IF t \notin done[s] THEN tokenIs[t]
                                      ELSE IF closing[s] = "revoke" THEN "revoked" ELSE "expired"]
      /\ row' = CommittedRow(s)
      /\ paidBack' = [t \in Tokens |-> paidBack[t] + paying[s][t]]
      /\ EndClosing(s) /\ UNCHANGED <<overdue, shared>> /\ toClose[s] = {}
  BY DEF CommitClosing
<1>2. ClosingTypes'
  <2>1. tokenIs' \in [Tokens -> {"open", "revoked", "expired"}] /\ paidBack' \in [Tokens -> Int]
    BY <1>1 DEF ClosingIInv, ClosingTypes
  <2>2. row' \in AnyRow
    BY <1>1, CommittedRowFacts DEF ClosingIInv
  <2> QED  BY <1>1, <2>1, <2>2, EndClosingFacts DEF ClosingIInv, ClosingTypes
<1>3. OwnersApart'
  <2> SUFFICES ASSUME NEW q \in Closers, NEW t \in Tokens, t \notin shared', Has(q, t)'
               PROVE  (tokenIs[t] = "open" /\ \A p \in Closers \ {q} : ~Has(p, t))'
    BY DEF OwnersApart
  <2>1. q # s /\ Has(q, t) /\ t \notin shared
    BY <1>1, EndClosingFacts DEF ClosingIInv
  <2>2. tokenIs[t] = "open" /\ \A p \in Closers \ {q} : ~Has(p, t)
    BY <2>1 DEF ClosingIInv, OwnersApart
  <2>3. t \notin done[s]
    BY <2>1, <2>2 DEF Has
  <2>4. \A p \in Closers \ {q} : ~Has(p, t)'
    BY <1>1, <2>2, EndClosingFacts DEF ClosingIInv
  <2> QED  BY <1>1, <2>2, <2>3, <2>4
<1>4. PaysUnused'
  <2> SUFFICES ASSUME NEW q \in Closers, NEW t \in Tokens
               PROVE  (paying[q][t] <= Unused(t) /\ (t \notin done[q] => paying[q][t] = 0))'
    BY DEF PaysUnused
  <2>1. /\ paying'[q][t] = IF q = s THEN 0 ELSE paying[q][t]
        /\ t \in done'[q] <=> q # s /\ t \in done[q]
    BY <1>1, EndClosingFacts DEF ClosingIInv
  <2>2. /\ Unused(t) \in Nat /\ Unused(t)' = Unused(t) /\ paying[q][t] <= Unused(t)
        /\ t \notin done[q] => paying[q][t] = 0
    BY UnusedFacts DEF ClosingIInv, PaysUnused, Unused
  <2> QED  BY <2>1, <2>2
<1>5. TwiceRefundedOnlyByOverlap'
  <2> SUFFICES ASSUME NEW t \in Tokens, t \notin shared'
               PROVE  (paidBack[t] <= IF tokenIs[t] = "open" THEN 0 ELSE Unused(t))'
    BY DEF TwiceRefundedOnlyByOverlap
  <2>1. /\ t \notin shared /\ paidBack[t] \in Int /\ paying[s][t] \in Int /\ Unused(t) \in Nat
        /\ paidBack[t] <= IF tokenIs[t] = "open" THEN 0 ELSE Unused(t)
        /\ paying[s][t] <= Unused(t) /\ (t \notin done[s] => paying[s][t] = 0)
        /\ paidBack'[t] = paidBack[t] + paying[s][t] /\ Unused(t)' = Unused(t)
    BY <1>1, UnusedFacts
       DEF ClosingIInv, ClosingTypes, PaysUnused, TwiceRefundedOnlyByOverlap, Unused
  <2>2. CASE t \in done[s]
    <3>1. tokenIs[t] = "open" /\ tokenIs'[t] # "open"
      BY <1>1, <2>1, <2>2 DEF ClosingIInv, OwnersApart, Has
    <3> QED  BY <2>1, <3>1
  <2>3. CASE t \notin done[s]
    <3>1. tokenIs'[t] = tokenIs[t]
      BY <1>1, <2>3
    <3> QED  BY <2>1, <2>3, <3>1
  <2> QED  BY <2>2, <2>3
<1> QED  BY <1>2, <1>3, <1>4, <1>5 DEF ClosingIInv

LEMMA ClosingLostFacts ==
  ASSUME ClosingIInv, NEW s \in Closers, ClosingLost(s)
  PROVE  ClosingIInv'
<1>1. EndClosing(s) /\ UNCHANGED <<tokenIs, overdue, row, paidBack, shared>>
  BY DEF ClosingLost, books
<1>2. ClosingTypes'
  BY <1>1, EndClosingFacts DEF ClosingIInv, ClosingTypes
<1>3. OwnersApart'
  BY <1>1, EndClosingFacts DEF ClosingIInv, OwnersApart
<1>4. PaysUnused'
  <2> SUFFICES ASSUME NEW q \in Closers, NEW t \in Tokens
               PROVE  (paying[q][t] <= Unused(t) /\ (t \notin done[q] => paying[q][t] = 0))'
    BY DEF PaysUnused
  <2>1. /\ paying'[q][t] = IF q = s THEN 0 ELSE paying[q][t]
        /\ t \in done'[q] <=> q # s /\ t \in done[q]
    BY <1>1, EndClosingFacts DEF ClosingIInv
  <2>2. /\ Unused(t) \in Nat /\ Unused(t)' = Unused(t) /\ paying[q][t] <= Unused(t)
        /\ t \notin done[q] => paying[q][t] = 0
    BY UnusedFacts DEF ClosingIInv, PaysUnused, Unused
  <2> QED  BY <2>1, <2>2
<1>5. TwiceRefundedOnlyByOverlap'
  BY <1>1 DEF ClosingIInv, TwiceRefundedOnlyByOverlap, Unused
<1> QED  BY <1>2, <1>3, <1>4, <1>5 DEF ClosingIInv

LEMMA ReadRowFacts ==
  ASSUME ClosingIInv, NEW s \in Closers, ReadRow(s)
  PROVE  ClosingIInv'
<1>1. /\ rowHeld' = [rowHeld EXCEPT ![s] = Merged(row, EmptyAccount)]
      /\ UNCHANGED <<tokenIs, overdue, row, paidBack, shared, toClose, done, paying>>
  BY DEF ReadRow, books
<1>2. Merged(row, EmptyAccount) \in AnyRow
  BY DEF ClosingIInv, ClosingTypes, Merged, EmptyAccount, AnyRow
<1> QED
  BY <1>1, <1>2 DEF ClosingIInv, ClosingTypes, OwnersApart, Has, PaysUnused,
                    TwiceRefundedOnlyByOverlap, Unused

LEMMA ClosingNextFacts ==
  ASSUME ClosingIInv, [ClosingNext]_closingVars
  PROVE  ClosingIInv'
<1>1. ASSUME NEW t \in Tokens, BecomesOverdue(t) PROVE ClosingIInv'
  BY <1>1 DEF BecomesOverdue, closers, ClosingIInv, ClosingTypes, OwnersApart, Has,
              PaysUnused, TwiceRefundedOnlyByOverlap, Unused
<1>2. ASSUME NEW s \in Closers, ExpireAll(s) PROVE ClosingIInv'
  <2>1. Due \subseteq {t \in Tokens : tokenIs[t] = "open"}
    BY DEF Due, ClosingIInv, ClosingTypes
  <2> QED  BY <1>2, <2>1, BeginClosingFacts DEF ExpireAll
<1>3. ASSUME NEW s \in Closers, NEW t \in Tokens, Revoke(s, t) PROVE ClosingIInv'
  BY <1>3, BeginClosingFacts DEF Revoke
<1>4. CASE UNCHANGED closingVars
  BY <1>4 DEF closingVars, books, closers, ClosingIInv, ClosingTypes, OwnersApart, Has,
              PaysUnused, TwiceRefundedOnlyByOverlap, Unused
<1> QED
  BY <1>1, <1>2, <1>3, <1>4, ReadRowFacts, CloseTokenFacts, CommitClosingFacts,
     ClosingLostFacts
  DEF ClosingNext

LEMMA ClosingInitFacts == ClosingInit => ClosingIInv
<1> SUFFICES ASSUME ClosingInit PROVE ClosingIInv
  OBVIOUS
<1>1. EmptyAccount \in AnyRow /\ Nothing \in [Tokens -> Int] /\ \A t \in Tokens : Nothing[t] = 0
  BY DEF EmptyAccount, AnyRow, Nothing
<1>2. row \in AnyRow
  <2>1. Total \in Nat
    BY ClosingAssumption, SumNat DEF Total
  <2> QED  BY <2>1 DEF ClosingInit, AnyRow
<1>3. ClosingTypes
  BY <1>1, <1>2 DEF ClosingInit, ClosingTypes
<1>4. PaysUnused /\ TwiceRefundedOnlyByOverlap
  BY <1>1, UnusedFacts DEF ClosingInit, PaysUnused, TwiceRefundedOnlyByOverlap
<1>5. OwnersApart
  BY DEF ClosingInit, OwnersApart, Has
<1> QED  BY <1>3, <1>4, <1>5 DEF ClosingIInv

\* The invariant of the closing sessions.
THEOREM ClosingInvariance == ClosingSpec => []ClosingIInv
BY ClosingInitFacts, ClosingNextFacts, PTL DEF ClosingSpec

\* A token is refunded twice only if two sessions had read it as open at once, for
\* any tokens and any number of sessions.
THEOREM ClosingTwiceRefundedOnlyByOverlap == ClosingSpec => []TwiceRefundedOnlyByOverlap
<1>1. ClosingIInv => TwiceRefundedOnlyByOverlap
  BY DEF ClosingIInv
<1> QED  BY <1>1, ClosingInvariance, PTL

-----------------------------------------------------------------------------
(* RedisKeys: a cached token dies no earlier than its key, because the       *)
(* margin covers the time from the answer to the cache.                      *)
KeysTypes ==
  /\ cached \in BOOLEAN /\ stated \in BOOLEAN /\ ttl \in Nat /\ left \in Nat
  /\ callerAt \in [Callers -> {"idle", "asking", "answered"}]
  /\ waited \in [Callers -> 0..AnswerTime]
  /\ answer \in [Callers -> [left : Nat, stated : BOOLEAN, remaining : Nat]]
  /\ hits \in Nat /\ window \in Nat
  /\ visitorAt \in [Visitors -> {"idle", "first"}] /\ diedHere \in BOOLEAN

AnswersFresh ==
  \A c \in Callers :
    callerAt[c] = "answered" /\ answer[c].stated =>
      answer[c].remaining <= Least \/ answer[c].remaining <= answer[c].left + waited[c]

KeyWithinLife == cached /\ stated /\ ttl > 0 => ttl <= left

KeysIInv == KeysTypes /\ AnswersFresh /\ KeyWithinLife /\ CounterExpires

LEMMA LessFacts ==
  \A n \in Nat : Less(n) \in Nat /\ n <= Less(n) + 1 /\ (n > 0 => Less(n) = n - 1)
BY DEF Less

LEMMA EndsFacts ==
  ASSUME KeysTypes, AnswersFresh, NEW c \in Callers, Ends(c)
  PROVE  /\ callerAt' \in [Callers -> {"idle", "asking", "answered"}]
         /\ waited' \in [Callers -> 0..AnswerTime]
         /\ answer' \in [Callers -> [left : Nat, stated : BOOLEAN, remaining : Nat]]
         /\ AnswersFresh'
<1>1. NoAnswer \in [left : Nat, stated : BOOLEAN, remaining : Nat] /\ 0 \in 0..AnswerTime
  BY RedisKeysAssumption DEF NoAnswer
<1>2. /\ callerAt' = [callerAt EXCEPT ![c] = "idle"] /\ waited' = [waited EXCEPT ![c] = 0]
      /\ answer' = [answer EXCEPT ![c] = NoAnswer]
  BY DEF Ends
<1>3. AnswersFresh'
  <2> SUFFICES ASSUME NEW d \in Callers, callerAt'[d] = "answered", answer'[d].stated
               PROVE  (answer[d].remaining <= Least
                       \/ answer[d].remaining <= answer[d].left + waited[d])'
    BY DEF AnswersFresh
  <2>1. d # c
    BY <1>2 DEF KeysTypes
  <2>2. callerAt[d] = "answered" /\ answer'[d] = answer[d] /\ waited'[d] = waited[d]
    BY <1>2, <2>1 DEF KeysTypes
  <2> QED  BY <2>2 DEF AnswersFresh
<1> QED  BY <1>1, <1>2, <1>3 DEF KeysTypes

\* The key is given a TTL within the time Nomba still accepts the token.
LEMMA CacheFacts ==
  ASSUME KeysIInv, NEW c \in Callers, CacheToken(c)
  PROVE  KeysIInv'
<1> DEFINE a == answer[c]
<1>1. /\ callerAt[c] = "answered" /\ SafeTtl(a.remaining) >= 0
      /\ cached' = TRUE /\ ttl' = SafeTtl(a.remaining) /\ left' = a.left /\ stated' = a.stated
      /\ Ends(c) /\ UNCHANGED <<hits, window, visitorAt, diedHere>>
  BY DEF CacheToken, limitVars
<1>2. /\ a.left \in Nat /\ a.stated \in BOOLEAN /\ a.remaining \in Nat
      /\ waited[c] \in 0..AnswerTime
      /\ Margin \in Nat /\ Cap \in Nat /\ Least \in Nat /\ AnswerTime \in Nat
  BY RedisKeysAssumption DEF KeysIInv, KeysTypes
<1>3. a.stated => a.remaining <= Least \/ a.remaining <= a.left + waited[c]
  BY <1>1 DEF KeysIInv, AnswersFresh
<1> HIDE DEF a
<1>4. ttl' \in Nat /\ (stated' /\ ttl' > 0 => ttl' <= left')
  BY <1>1, <1>2, <1>3, RedisKeysAssumption DEF SafeTtl
<1>5. KeysTypes' /\ AnswersFresh'
  BY <1>1, <1>2, <1>4, EndsFacts DEF KeysIInv, KeysTypes
<1>6. CounterExpires'
  BY <1>1 DEF KeysIInv, CounterExpires
<1> QED  BY <1>4, <1>5, <1>6 DEF KeysIInv, KeyWithinLife

LEMMA NoTokenFacts ==
  ASSUME KeysIInv, NEW c \in Callers, TtlRefused(c) \/ NoTokenFor(c)
  PROVE  KeysIInv'
<1>1. Ends(c) /\ UNCHANGED <<cached, ttl, left, stated, hits, window, visitorAt, diedHere>>
  BY DEF TtlRefused, NoTokenFor, limitVars
<1> QED
  BY <1>1, EndsFacts DEF KeysIInv, KeysTypes, KeyWithinLife, CounterExpires

\* Asking: the key may be deleted, and nobody has an answer who had none.
LEMMA AskFacts ==
  ASSUME KeysIInv, NEW c \in Callers, AskToken(c) \/ RefreshToken(c)
  PROVE  KeysIInv'
<1>1. /\ callerAt' = [callerAt EXCEPT ![c] = "asking"]
      /\ UNCHANGED <<waited, answer, hits, window, visitorAt, diedHere>>
      /\ \/ UNCHANGED <<cached, ttl, left, stated>>
         \/ cached' = FALSE /\ ttl' = 0 /\ left' = 0 /\ stated' = FALSE
  BY DEF AskToken, RefreshToken, NoToken, limitVars
<1>2. KeyWithinLife' /\ CounterExpires'
  BY <1>1 DEF KeysIInv, KeyWithinLife, CounterExpires
<1>5. KeysTypes'
  <2>1. callerAt' \in [Callers -> {"idle", "asking", "answered"}]
    BY <1>1 DEF KeysIInv, KeysTypes
  <2>2. cached' \in BOOLEAN /\ stated' \in BOOLEAN
    BY <1>1, Zenon DEF KeysIInv, KeysTypes
  <2>3. ttl' \in Nat /\ left' \in Nat
    BY <1>1 DEF KeysIInv, KeysTypes
  <2> QED  BY <1>1, <2>1, <2>2, <2>3 DEF KeysIInv, KeysTypes
<1>3. \A d \in Callers : callerAt'[d] = "answered" => callerAt[d] = "answered"
  BY <1>1 DEF KeysIInv, KeysTypes
<1>4. AnswersFresh'
  BY <1>1, <1>3 DEF KeysIInv, AnswersFresh
<1> QED  BY <1>2, <1>4, <1>5 DEF KeysIInv

LEMMA IssueTokenFacts ==
  ASSUME KeysIInv, NEW c \in Callers, NEW life \in Lifetimes, NEW said \in BOOLEAN,
         IssueToken(c, life, said)
  PROVE  KeysIInv'
<1> DEFINE a == [left |-> life, stated |-> said, remaining |-> ExpiresIn(life, said)]
<1>1. /\ callerAt' = [callerAt EXCEPT ![c] = "answered"] /\ answer' = [answer EXCEPT ![c] = a]
      /\ UNCHANGED <<cached, ttl, left, stated, waited, hits, window, visitorAt, diedHere>>
  BY DEF IssueToken, limitVars
<1>2. /\ life \in Nat /\ ExpiresIn(life, said) \in Nat /\ Least \in Nat
      /\ said => ExpiresIn(life, said) <= Least \/ ExpiresIn(life, said) = life
  BY RedisKeysAssumption DEF ExpiresIn
<1>3. /\ a \in [left : Nat, stated : BOOLEAN, remaining : Nat]
      /\ a.stated => a.remaining <= Least \/ a.remaining <= a.left
  BY <1>2
<1> HIDE DEF a
<1>4. KeysTypes' /\ KeyWithinLife' /\ CounterExpires'
  BY <1>1, <1>3 DEF KeysIInv, KeysTypes, KeyWithinLife, CounterExpires
<1>5. AnswersFresh'
  <2> SUFFICES ASSUME NEW d \in Callers, callerAt'[d] = "answered", answer'[d].stated
               PROVE  (answer[d].remaining <= Least
                       \/ answer[d].remaining <= answer[d].left + waited[d])'
    BY DEF AnswersFresh
  <2>1. CASE d = c
    <3>1. answer'[d] = a /\ waited'[d] \in Nat
      BY <1>1, <2>1, RedisKeysAssumption DEF KeysIInv, KeysTypes
    <3>2. a.left \in Nat /\ a.remaining \in Nat /\ Least \in Nat
      BY <1>2, <1>3
    <3> QED  BY <1>3, <3>1, <3>2
  <2>2. CASE d # c
    <3>1. callerAt[d] = "answered" /\ answer'[d] = answer[d] /\ waited' = waited
      BY <1>1, <2>2 DEF KeysIInv, KeysTypes
    <3> QED  BY <3>1 DEF KeysIInv, AnswersFresh
  <2> QED  BY <2>1, <2>2
<1> QED  BY <1>4, <1>5 DEF KeysIInv

\* A unit of time is taken off what is left, and added to what was waited.
LEMMA TokenTickFacts ==
  ASSUME KeysIInv, TokenTick
  PROVE  KeysIInv'
<1>1. /\ \A c \in Callers : callerAt[c] = "answered" => waited[c] < AnswerTime
      /\ waited' = [c \in Callers |-> IF callerAt[c] = "answered" THEN waited[c] + 1 ELSE 0]
      /\ answer' = [c \in Callers |-> [answer[c] EXCEPT !.left = Less(answer[c].left)]]
      /\ UNCHANGED <<callerAt, hits, window, visitorAt, diedHere>>
      /\ \/ cached' = FALSE /\ ttl' = 0 /\ left' = 0 /\ stated' = FALSE
         \/ ttl # 1 /\ ttl' = Less(ttl) /\ left' = Less(left) /\ UNCHANGED <<cached, stated>>
  BY DEF TokenTick, NoToken, limitVars
<1>2. \A c \in Callers :
        /\ waited[c] \in 0..AnswerTime /\ answer[c].left \in Nat
        /\ answer[c].remaining \in Nat /\ answer[c].stated \in BOOLEAN
        /\ Less(answer[c].left) \in Nat /\ answer[c].left <= Less(answer[c].left) + 1
  BY LessFacts DEF KeysIInv, KeysTypes
<1>3. \A c \in Callers :
        /\ answer'[c] \in [left : Nat, stated : BOOLEAN, remaining : Nat]
        /\ answer'[c].left = Less(answer[c].left)
        /\ answer'[c].remaining = answer[c].remaining /\ answer'[c].stated = answer[c].stated
  BY <1>1, <1>2 DEF KeysIInv, KeysTypes
<1>4. waited' \in [Callers -> 0..AnswerTime]
  BY <1>1, <1>2, RedisKeysAssumption
<1>5. answer' \in [Callers -> [left : Nat, stated : BOOLEAN, remaining : Nat]]
  BY <1>1, <1>3
<1>6. ttl \in Nat /\ left \in Nat /\ Less(ttl) \in Nat /\ Less(left) \in Nat
  BY LessFacts DEF KeysIInv, KeysTypes
<1>7. KeysTypes'
  <2>1. cached' \in BOOLEAN /\ stated' \in BOOLEAN
    BY <1>1, Zenon DEF KeysIInv, KeysTypes
  <2>2. ttl' \in Nat /\ left' \in Nat
    BY <1>1, <1>6
  <2> QED  BY <1>1, <1>4, <1>5, <2>1, <2>2 DEF KeysIInv, KeysTypes
<1>8. KeyWithinLife' /\ CounterExpires'
  BY <1>1, <1>6 DEF KeysIInv, KeyWithinLife, CounterExpires, Less
<1>9. AnswersFresh'
  <2> SUFFICES ASSUME NEW d \in Callers, callerAt'[d] = "answered", answer'[d].stated
               PROVE  (answer[d].remaining <= Least
                       \/ answer[d].remaining <= answer[d].left + waited[d])'
    BY DEF AnswersFresh
  <2>1. /\ callerAt[d] = "answered" /\ waited'[d] = waited[d] + 1
        /\ answer[d].stated
    BY <1>1, <1>3
  <2>2. answer[d].remaining <= Least \/ answer[d].remaining <= answer[d].left + waited[d]
    BY <2>1 DEF KeysIInv, AnswersFresh
  <2> QED  BY <1>2, <1>3, <2>1, <2>2, RedisKeysAssumption
<1> QED  BY <1>7, <1>8, <1>9 DEF KeysIInv

\* The steps of the counter.
LEMMA CountFacts ==
  ASSUME KeysIInv, NEW v \in Visitors,
         CountRequest(v) \/ StartWindow(v) \/ VisitorLost(v)
  PROVE  KeysIInv'
<1>1. UNCHANGED <<cached, ttl, left, stated, callerAt, waited, answer>>
  BY DEF CountRequest, StartWindow, VisitorLost, tokenVars
<1>2. AnswersFresh' /\ KeyWithinLife'
  BY <1>1 DEF KeysIInv, AnswersFresh, KeyWithinLife
<1>3. ASSUME CountRequest(v) PROVE KeysTypes' /\ CounterExpires'
  <2>1. /\ hits' = Counted /\ UNCHANGED <<window, diedHere>> /\ visitorAt[v] = "idle"
        /\ visitorAt' = [visitorAt EXCEPT ![v] = IF Counted = 1 THEN "first" ELSE "idle"]
    BY <1>3 DEF CountRequest
  <2>2. Counted \in Nat /\ (Counted # 1 => hits > 0)
    BY RedisKeysAssumption DEF KeysIInv, KeysTypes, Counted
  <2>3. KeysTypes'
    BY <1>1, <2>1, <2>2 DEF KeysIInv, KeysTypes
  <2>4. CASE Counted = 1
    <3>1. visitorAt'[v] = "first"
      BY <2>1, <2>4 DEF KeysIInv, KeysTypes
    <3> QED  BY <2>3, <3>1 DEF CounterExpires
  <2>5. CASE Counted # 1
    <3>1. \A u \in Visitors : visitorAt'[u] = visitorAt[u]
      BY <2>1, <2>5 DEF KeysIInv, KeysTypes
    <3> QED  BY <2>1, <2>2, <2>3, <2>5, <3>1 DEF KeysIInv, CounterExpires
  <2> QED  BY <2>4, <2>5
<1>4. ASSUME StartWindow(v) PROVE KeysTypes' /\ CounterExpires'
  BY <1>1, <1>4, RedisKeysAssumption
  DEF StartWindow, SetsWindow, KeysIInv, KeysTypes, CounterExpires
<1>5. ASSUME VisitorLost(v) PROVE KeysTypes' /\ CounterExpires'
  BY <1>1, <1>5 DEF VisitorLost, KeysIInv, KeysTypes, CounterExpires
<1> QED  BY <1>2, <1>3, <1>4, <1>5 DEF KeysIInv

LEMMA LimitTickFacts ==
  ASSUME KeysIInv, LimitTick
  PROVE  KeysIInv'
<1>1. /\ window > 0 /\ window' = window - 1 /\ hits' = IF window = 1 THEN 0 ELSE hits
      /\ UNCHANGED <<cached, ttl, left, stated, callerAt, waited, answer, visitorAt, diedHere>>
  BY DEF LimitTick, tokenVars
<1> QED
  BY <1>1 DEF KeysIInv, KeysTypes, AnswersFresh, KeyWithinLife, CounterExpires

LEMMA KeysNextFacts ==
  ASSUME KeysIInv, [KeysNext]_keyVars
  PROVE  KeysIInv'
<1>1. CASE UNCHANGED keyVars
  BY <1>1 DEF keyVars, tokenVars, limitVars, KeysIInv, KeysTypes, AnswersFresh,
              KeyWithinLife, CounterExpires
<1> QED
  BY <1>1, AskFacts, IssueTokenFacts, CacheFacts, NoTokenFacts, TokenTickFacts, CountFacts,
     LimitTickFacts
  DEF KeysNext

LEMMA KeysInitFacts == KeysInit => KeysIInv
<1>1. NoAnswer \in [left : Nat, stated : BOOLEAN, remaining : Nat] /\ 0 \in 0..AnswerTime
  BY RedisKeysAssumption DEF NoAnswer
<1>2. ASSUME KeysInit
      PROVE  KeysTypes
  <2>1. cached \in BOOLEAN /\ stated \in BOOLEAN /\ diedHere \in BOOLEAN
    BY <1>2, Zenon DEF KeysInit
  <2> QED  BY <1>1, <1>2, <2>1 DEF KeysInit, KeysTypes
<1>3. KeysInit => AnswersFresh /\ KeyWithinLife /\ CounterExpires
  BY DEF KeysInit, AnswersFresh, KeyWithinLife, CounterExpires
<1> QED  BY <1>2, <1>3 DEF KeysIInv

\* The invariant of the two keys.
THEOREM KeysInvariance == KeysSpec => []KeysIInv
BY KeysInitFacts, KeysNextFacts, PTL DEF KeysSpec

\* A cached token that Nomba no longer accepts had no stated expiry or has no TTL, and
\* a counter without an expiry is the work of a lost process, for any settings whose
\* margin covers the time to the cache.
THEOREM KeysKeysExpire == KeysSpec => []KeysExpire
<1>1. KeysIInv => KeysExpire
  BY DEF KeysIInv, KeysTypes, KeyWithinLife, KeysExpire, CachedTokenAlive
<1> QED  BY <1>1, KeysInvariance, PTL

-----------------------------------------------------------------------------
(* Authentication: the requests, and what of their store they rest on.       *)
SlotTypes ==
  /\ step \in [Requests -> Steps] /\ task \in [Requests -> Tasks]
  /\ who \in [Requests -> Registrants] /\ code \in [Requests -> Codes \cup {NoCode}]
  /\ matched \in [Requests -> Nat] /\ wrote \in [Requests -> BOOLEAN]

Keys == [code : Codes \cup {NoCode}, nth : Nat]

StoreTypes ==
  /\ status \in [Registrants -> {"absent", "pending_verification", "active"}]
  /\ otp \in [Registrants -> Keys] /\ lastSent \in Nat
  /\ told \in SUBSET Registrants
  /\ logins \in [Sendings -> [Requests -> Nat]]

SameSlot(v) ==
  /\ step'[v] = step[v] /\ task'[v] = task[v] /\ who'[v] = who[v]
  /\ code'[v] = code[v] /\ matched'[v] = matched[v] /\ wrote'[v] = wrote[v]

Others(r) == \A v \in Requests \ {r} : SameSlot(v)

LEMMA ClosesSlot ==
  ASSUME SlotTypes, NEW r \in Requests, Closes(r)
  PROVE  /\ SlotTypes' /\ Others(r)
         /\ step'[r] = "idle" /\ task'[r] = "register" /\ wrote'[r] = FALSE
<1>1. AnyUser \in Registrants
  BY AuthAssumption DEF AnyUser
<1>2. /\ step' = [step EXCEPT ![r] = "idle"] /\ task' = [task EXCEPT ![r] = "register"]
      /\ who' = [who EXCEPT ![r] = AnyUser] /\ code' = [code EXCEPT ![r] = NoCode]
      /\ matched' = [matched EXCEPT ![r] = 0]
  BY DEF Closes
<1>3. /\ wrote' \in [Requests -> BOOLEAN] /\ wrote'[r] = FALSE
      /\ \A v \in Requests \ {r} : wrote'[v] = wrote[v]
  BY DEF Closes, SlotTypes
<1>4. /\ step' \in [Requests -> Steps] /\ task' \in [Requests -> Tasks]
      /\ who' \in [Requests -> Registrants] /\ code' \in [Requests -> Codes \cup {NoCode}]
      /\ matched' \in [Requests -> Nat]
      /\ step'[r] = "idle" /\ task'[r] = "register"
      /\ \A v \in Requests \ {r} : /\ step'[v] = step[v] /\ task'[v] = task[v]
                                   /\ who'[v] = who[v] /\ code'[v] = code[v]
                                   /\ matched'[v] = matched[v]
  BY <1>1, <1>2 DEF SlotTypes, Steps, Tasks
<1> QED  BY <1>3, <1>4 DEF SlotTypes, Others, SameSlot

LEMMA ToSlot ==
  ASSUME SlotTypes, NEW r \in Requests, NEW p \in Steps, To(r, p),
         UNCHANGED <<task, who, code>>,
         NEW b \in BOOLEAN, wrote' = [wrote EXCEPT ![r] = b],
         NEW n \in Nat, matched' = [matched EXCEPT ![r] = n]
  PROVE  SlotTypes' /\ Others(r) /\ step'[r] = p /\ wrote'[r] = b /\ matched'[r] = n
<1>1. /\ wrote' \in [Requests -> BOOLEAN] /\ wrote'[r] = b
      /\ \A v \in Requests \ {r} : wrote'[v] = wrote[v]
  BY DEF SlotTypes
<1>2. /\ step' \in [Requests -> Steps] /\ step'[r] = p
      /\ \A v \in Requests \ {r} : step'[v] = step[v]
  BY DEF SlotTypes, To
<1>3. /\ matched' \in [Requests -> Nat] /\ matched'[r] = n
      /\ \A v \in Requests \ {r} : matched'[v] = matched[v]
  BY DEF SlotTypes
<1> QED  BY <1>1, <1>2, <1>3 DEF SlotTypes, Others, SameSlot

LEMMA SameWrote ==
  ASSUME SlotTypes, NEW r \in Requests, wrote' = wrote
  PROVE  wrote[r] \in BOOLEAN /\ wrote' = [wrote EXCEPT ![r] = wrote[r]]
BY DEF SlotTypes

LEMMA SameMatched ==
  ASSUME SlotTypes, NEW r \in Requests, matched' = matched
  PROVE  matched[r] \in Nat /\ matched' = [matched EXCEPT ![r] = matched[r]]
BY DEF SlotTypes

LEMMA ArrivesSlot ==
  ASSUME SlotTypes, NEW r \in Requests, NEW what \in Tasks, NEW u \in Registrants,
         NEW c \in Codes \cup {NoCode}, Arrives(r, what, "begun", u, c)
  PROVE  /\ SlotTypes' /\ Others(r) /\ step[r] = "idle" /\ step'[r] = "begun"
         /\ task'[r] = what /\ who'[r] = u /\ wrote'[r] = wrote[r]
<1>1. /\ step' = [step EXCEPT ![r] = "begun"] /\ task' = [task EXCEPT ![r] = what]
      /\ who' = [who EXCEPT ![r] = u] /\ code' = [code EXCEPT ![r] = c]
      /\ wrote' = wrote /\ matched' = matched /\ step[r] = "idle"
  BY DEF Arrives, To
<1>2. /\ step' \in [Requests -> Steps] /\ task' \in [Requests -> Tasks]
      /\ who' \in [Requests -> Registrants] /\ code' \in [Requests -> Codes \cup {NoCode}]
      /\ step'[r] = "begun" /\ task'[r] = what /\ who'[r] = u
      /\ \A v \in Requests \ {r} : /\ step'[v] = step[v] /\ task'[v] = task[v]
                                   /\ who'[v] = who[v] /\ code'[v] = code[v]
  BY <1>1 DEF SlotTypes, Steps
<1> QED  BY <1>1, <1>2 DEF SlotTypes, Others, SameSlot

-----------------------------------------------------------------------------
(* One-time codes: what is in Redis for two users never came with one        *)
(* sending, and a sending that a login has blanked, or that was used, is not *)
(* to be had any more.  The codes themselves may be all the same.            *)
SendingsApart ==
  \A u \in Registrants :
    /\ otp[u].nth <= lastSent /\ (otp[u].code # NoCode => otp[u].nth # 0)
    /\ \A w \in Registrants \ {u} : otp[u].nth # 0 => otp[w].nth # otp[u].nth

Entered(v) == task[v] = "login" /\ step[v] \in {"matched", "active"}
Blanking(v) == task[v] = "login" /\ step[v] = "blanked"

Unspent(v) == /\ matched[v] \in 1..lastSent
              /\ matched[v] \in Sendings => logins[matched[v]][v] = 0

EnteredAlone ==
  \A v \in Requests :
    Entered(v) => /\ Unspent(v)
                  /\ \A u \in Registrants \ {who[v]} : otp[u].nth # matched[v]

BlankedGone ==
  \A v \in Requests :
    Blanking(v) => Unspent(v) /\ \A u \in Registrants : otp[u].nth # matched[v]

UsedGone ==
  \A n \in Sendings, v \in Requests :
    logins[n][v] > 0 => n \in 1..lastSent /\ \A u \in Registrants : otp[u].nth # n

LoginInv == SendingsApart /\ EnteredAlone /\ BlankedGone /\ UsedGone /\ OneLoginPerRequest

OtpMoves ==
  \/ UNCHANGED <<otp, lastSent>>
  \/ \E u \in Registrants : SendCode(u)
  \/ lastSent' = lastSent /\ \E u \in Registrants : otp' = [otp EXCEPT ![u] = Blank]

\* Codes are sent anew or blanked, and what came with a sending never comes back.
LEMMA OtpFacts ==
  ASSUME StoreTypes, SendingsApart, OtpMoves
  PROVE  /\ otp' \in [Registrants -> Keys] /\ lastSent' \in Nat /\ lastSent <= lastSent'
         /\ SendingsApart'
         /\ \A u \in Registrants : otp'[u].nth \in 1..lastSent => otp'[u].nth = otp[u].nth
<1>1. CASE UNCHANGED <<otp, lastSent>>
  BY <1>1 DEF StoreTypes, SendingsApart
<1>2. ASSUME NEW u \in Registrants, SendCode(u)
      PROVE  /\ otp' \in [Registrants -> Keys] /\ lastSent' \in Nat /\ lastSent <= lastSent'
             /\ SendingsApart'
             /\ \A w \in Registrants : otp'[w].nth \in 1..lastSent => otp'[w].nth = otp[w].nth
  <2>1. PICK c \in Codes : otp' = [otp EXCEPT ![u] = [code |-> c, nth |-> lastSent + 1]]
    BY <1>2 DEF SendCode
  <2>2. lastSent' = lastSent + 1 /\ lastSent \in Nat
    BY <1>2 DEF SendCode, StoreTypes
  <2>3. /\ otp' \in [Registrants -> Keys] /\ otp'[u].nth = lastSent + 1
        /\ \A w \in Registrants \ {u} : otp'[w] = otp[w]
        /\ \A w \in Registrants : otp[w].nth \in Nat /\ otp[w].nth <= lastSent
    <3>1. [code |-> c, nth |-> lastSent + 1] \in Keys
      BY <2>2 DEF Keys
    <3>2. \A w \in Registrants : otp[w].nth \in Nat
      BY DEF StoreTypes, Keys
    <3> QED  BY <2>1, <3>1, <3>2 DEF StoreTypes, SendingsApart
  <2>4. SendingsApart'
    <3> SUFFICES ASSUME NEW v \in Registrants, NEW w \in Registrants \ {v}
                 PROVE  otp'[v].nth # 0 => otp'[w].nth # otp'[v].nth
      BY <2>2, <2>3 DEF SendingsApart
    <3>1. otp[v].nth # 0 => otp[w].nth # otp[v].nth
      BY DEF SendingsApart
    <3> QED  BY <2>2, <2>3, <3>1
  <2> QED  BY <2>2, <2>3, <2>4
<1>3. ASSUME lastSent' = lastSent, NEW u \in Registrants, otp' = [otp EXCEPT ![u] = Blank]
      PROVE  /\ otp' \in [Registrants -> Keys] /\ lastSent' \in Nat /\ lastSent <= lastSent'
             /\ SendingsApart'
             /\ \A w \in Registrants : otp'[w].nth \in 1..lastSent => otp'[w].nth = otp[w].nth
  <2>1. Blank \in Keys /\ Blank.nth = 0 /\ Blank.code = NoCode
    BY DEF Blank, Keys
  <2>2. /\ otp' \in [Registrants -> Keys] /\ otp'[u] = Blank
        /\ \A w \in Registrants \ {u} : otp'[w] = otp[w]
    BY <1>3, <2>1 DEF StoreTypes
  <2> HIDE DEF Blank
  <2>3. lastSent \in Nat /\ \A w \in Registrants : otp'[w].nth = otp[w].nth \/ otp'[w].nth = 0
    BY <2>1, <2>2 DEF StoreTypes
  <2>4. SendingsApart'
    BY <1>3, <2>1, <2>2, <2>3 DEF SendingsApart
  <2> QED  BY <1>3, <2>2, <2>3, <2>4
<1> QED  BY <1>1, <1>2, <1>3 DEF OtpMoves

\* What a request may do without answering a login.
LoginLocal(v) ==
  \/ SameSlot(v)
  \/ /\ Entered(v)' => /\ who'[v] = who[v]
                       /\ \/ Entered(v) /\ matched'[v] = matched[v]
                          \/ Matches(v) /\ matched'[v] = otp[who[v]].nth
     /\ Blanking(v)' => /\ matched'[v] = matched[v]
                        /\ Blanking(v) \/ (Entered(v) /\ otp'[who[v]].nth = 0)

LEMMA MatchedUnspent ==
  ASSUME StoreTypes, SlotTypes, LoginInv, NEW v \in Requests, Matches(v),
         NEW n, n = otp[who[v]].nth
  PROVE  /\ n \in 1..lastSent /\ (n \in Sendings => logins[n][v] = 0)
         /\ \A u \in Registrants \ {who[v]} : otp[u].nth # n
<1>1. /\ who[v] \in Registrants /\ n \in Nat /\ n # 0
      /\ n <= lastSent /\ lastSent \in Nat
      /\ \A u \in Registrants \ {who[v]} : otp[u].nth # n
  BY DEF Matches, StoreTypes, Keys, SlotTypes, LoginInv, SendingsApart
<1>2. n \in Sendings => logins[n][v] = 0
  BY <1>1 DEF LoginInv, UsedGone, StoreTypes
<1> QED  BY <1>1, <1>2

LEMMA LoginKept ==
  ASSUME StoreTypes, SlotTypes, SlotTypes', LoginInv, OtpMoves, logins' = logins,
         \A v \in Requests : LoginLocal(v)
  PROVE  LoginInv'
<1>1. /\ otp' \in [Registrants -> Keys] /\ lastSent' \in Nat /\ lastSent <= lastSent'
      /\ SendingsApart' /\ lastSent \in Nat
      /\ \A u \in Registrants : otp'[u].nth \in 1..lastSent => otp'[u].nth = otp[u].nth
  BY OtpFacts DEF LoginInv, StoreTypes
<1>2. ASSUME NEW v \in Requests, Unspent(v), matched'[v] = matched[v] PROVE Unspent(v)'
  BY <1>1, <1>2 DEF Unspent
<1>3. EnteredAlone'
  <2> SUFFICES ASSUME NEW v \in Requests, Entered(v)'
               PROVE  /\ Unspent(v)'
                      /\ \A u \in Registrants \ {who'[v]} : otp'[u].nth # matched'[v]
    BY DEF EnteredAlone
  <2>1. /\ who'[v] = who[v]
        /\ \/ Entered(v) /\ matched'[v] = matched[v]
           \/ Matches(v) /\ matched'[v] = otp[who[v]].nth
    BY DEF LoginLocal, SameSlot, Entered
  <2>2. CASE Entered(v) /\ matched'[v] = matched[v]
    <3>1. Unspent(v) /\ \A u \in Registrants \ {who[v]} : otp[u].nth # matched[v]
      BY <2>2 DEF LoginInv, EnteredAlone
    <3> QED  BY <1>1, <1>2, <2>1, <2>2, <3>1 DEF Unspent
  <2>3. CASE Matches(v) /\ matched'[v] = otp[who[v]].nth
    <3>1. /\ matched'[v] \in 1..lastSent
          /\ matched'[v] \in Sendings => logins[matched'[v]][v] = 0
          /\ \A u \in Registrants \ {who[v]} : otp[u].nth # matched'[v]
      BY <2>3, MatchedUnspent
    <3>2. \A u \in Registrants \ {who'[v]} : otp'[u].nth # matched'[v]
      BY <1>1, <2>1, <3>1
    <3>3. matched'[v] \in 1..lastSent'
      BY <1>1, <3>1
    <3>4. Unspent(v)'
      BY <3>1, <3>3 DEF Unspent, Sendings
    <3> QED  BY <3>2, <3>4
  <2> QED  BY <2>1, <2>2, <2>3
<1>4. BlankedGone'
  <2> SUFFICES ASSUME NEW v \in Requests, Blanking(v)'
               PROVE  Unspent(v)' /\ \A u \in Registrants : otp'[u].nth # matched'[v]
    BY DEF BlankedGone
  <2>1. /\ matched'[v] = matched[v]
        /\ Blanking(v) \/ (Entered(v) /\ otp'[who[v]].nth = 0)
    <3>1. CASE SameSlot(v)
      BY <3>1 DEF SameSlot, Blanking
    <3>2. CASE ~SameSlot(v)
      BY <3>2 DEF LoginLocal
    <3> QED  BY <3>1, <3>2
  <2>2. CASE Blanking(v)
    <3>1. Unspent(v) /\ \A u \in Registrants : otp[u].nth # matched[v]
      BY <2>2 DEF LoginInv, BlankedGone
    <3> QED  BY <1>1, <1>2, <2>1, <3>1 DEF Unspent
  <2>3. CASE Entered(v) /\ otp'[who[v]].nth = 0
    <3>1. Unspent(v) /\ \A u \in Registrants \ {who[v]} : otp[u].nth # matched[v]
      BY <2>3 DEF LoginInv, EnteredAlone
    <3> QED  BY <1>1, <1>2, <2>1, <2>3, <3>1 DEF Unspent
  <2> QED  BY <2>1, <2>2, <2>3
<1>5. UsedGone'
  <2> SUFFICES ASSUME NEW n \in Sendings, NEW v \in Requests, logins[n][v] > 0
               PROVE  n \in 1..lastSent' /\ \A u \in Registrants : otp'[u].nth # n
    BY DEF UsedGone, Sendings
  <2>1. n \in 1..lastSent /\ \A u \in Registrants : otp[u].nth # n
    BY DEF LoginInv, UsedGone
  <2> QED  BY <1>1, <2>1
<1>6. OneLoginPerRequest'
  BY DEF LoginInv, OneLoginPerRequest, Sendings
<1> QED  BY <1>1, <1>3, <1>4, <1>5, <1>6 DEF LoginInv

\* The answer to a login: its sending was blanked, and is used from now on.
LEMMA AnswerTokensFacts ==
  ASSUME StoreTypes, SlotTypes, LoginInv, NEW r \in Requests, AnswerTokens(r)
  PROVE  LoginInv' /\ logins' \in [Sendings -> [Requests -> Nat]]
<1>1. /\ task[r] = "login" /\ step[r] = "blanked"
      /\ step' = [step EXCEPT ![r] = "answered"] /\ UNCHANGED <<otp, lastSent, task, who, matched>>
      /\ logins' = [logins EXCEPT ![matched[r]] =
                      [logins[matched[r]] EXCEPT ![r] = logins[matched[r]][r] + 1]]
  BY DEF AnswerTokens, At, To
<1>2. Unspent(r) /\ \A u \in Registrants : otp[u].nth # matched[r]
  BY <1>1 DEF LoginInv, BlankedGone, Blanking
<1>3. /\ logins' \in [Sendings -> [Requests -> Nat]]
      /\ matched[r] \in Sendings => logins'[matched[r]][r] = 1
      /\ \A n \in Sendings, v \in Requests :
           ~(n = matched[r] /\ v = r) => logins'[n][v] = logins[n][v]
  <2> DEFINE n == matched[r]
  <2>1. logins' = [logins EXCEPT ![n] = [logins[n] EXCEPT ![r] = logins[n][r] + 1]]
    BY <1>1
  <2>2. n \in Sendings => logins[n][r] = 0
    BY <1>2 DEF Unspent
  <2> HIDE DEF n
  <2>3. CASE n \in Sendings
    <3>1. logins[n] \in [Requests -> Nat] /\ logins \in [Sendings -> [Requests -> Nat]]
      BY <2>3 DEF StoreTypes
    <3>2. [logins[n] EXCEPT ![r] = logins[n][r] + 1] \in [Requests -> Nat]
      BY <3>1
    <3>3. logins'[n] = [logins[n] EXCEPT ![r] = logins[n][r] + 1]
      BY <2>1, <2>3, <3>1
    <3>4. logins' \in [Sendings -> [Requests -> Nat]] /\ logins'[n][r] = 1
      BY <2>1, <2>2, <2>3, <3>1, <3>2, <3>3
    <3>5. \A d \in Sendings, v \in Requests :
            ~(d = n /\ v = r) => logins'[d][v] = logins[d][v]
      BY <2>1, <3>1, <3>3
    <3> QED  BY <3>4, <3>5 DEF n
  <2>4. CASE n \notin Sendings
    <3>1. logins' = logins
      BY <2>1, <2>4 DEF StoreTypes
    <3> QED  BY <2>4, <3>1 DEF StoreTypes, n
  <2> QED  BY <2>3, <2>4
<1>4. SendingsApart' /\ UsedGone' /\ OneLoginPerRequest'
  <2>1. SendingsApart'
    BY <1>1 DEF LoginInv, SendingsApart
  <2>2. UsedGone'
    BY <1>1, <1>2, <1>3 DEF LoginInv, UsedGone, Unspent
  <2>3. OneLoginPerRequest'
    BY <1>2, <1>3 DEF LoginInv, OneLoginPerRequest, Unspent
  <2> QED  BY <2>1, <2>2, <2>3
<1>5. \A v \in Requests : (Entered(v)' \/ Blanking(v)') => v # r /\ step'[v] = step[v]
  BY <1>1 DEF Entered, Blanking, SlotTypes
<1>6. EnteredAlone'
  BY <1>1, <1>3, <1>5 DEF LoginInv, EnteredAlone, Entered, Unspent
<1>7. BlankedGone'
  BY <1>1, <1>3, <1>5 DEF LoginInv, BlankedGone, Blanking, Unspent
<1> QED  BY <1>3, <1>4, <1>6, <1>7 DEF LoginInv

-----------------------------------------------------------------------------
(* The status: a registration is alone with a user who has no row, an UPDATE *)
(* that met a row met one that stays, and one that met none is excused.      *)
Registering(v) == task[v] = "register" /\ step[v] # "idle"
Unwritten(v) == task[v] = "verify" /\ step[v] \in {"updated", "answered"} /\ ~wrote[v]
Answering(v) == task[v] = "verify" /\ step[v] = "answered"

RegistersAlone ==
  \A v \in Requests :
    Registering(v) => /\ status[who[v]] = "absent"
                      /\ \A q \in Requests : Registering(q) /\ who[q] = who[v] => q = v

WroteRow ==
  \A v \in Requests :
    wrote[v] => step[v] # "idle" /\ (task[v] = "verify" => status[who[v]] # "absent")

UnwrittenExcused == \A v \in Requests : Unwritten(v) => who[v] \in excused

ToldIsActive ==
  \A u \in told : \/ status[u] = "active" \/ u \in excused
                  \/ \E v \in Requests : Answering(v) /\ who[v] = u

StatusInv == RegistersAlone /\ WroteRow /\ UnwrittenExcused /\ ToldIsActive

\* What a request may do without changing a status.
StatusLocal(v) ==
  \/ SameSlot(v)
  \/ /\ Registering(v)' => Registering(v) /\ who'[v] = who[v]
     /\ wrote'[v] => step'[v] # "idle" /\ (task'[v] = "verify" => status[who'[v]] # "absent")
     /\ Unwritten(v)' => who'[v] \in excused'
     /\ Answering(v) => who[v] \in excused' \/ (Answering(v)' /\ who'[v] = who[v])

LEMMA StatusKept ==
  ASSUME StatusInv, status' = status, excused \subseteq excused',
         \A u \in told' : u \in told \/ \E v \in Requests : Answering(v)' /\ who'[v] = u,
         \A v \in Requests : StatusLocal(v)
  PROVE  StatusInv'
<1>1. RegistersAlone'
  <2>1. \A v \in Requests : Registering(v)' => Registering(v) /\ who'[v] = who[v]
    BY DEF StatusLocal, SameSlot, Registering
  <2> QED  BY <2>1 DEF StatusInv, RegistersAlone
<1>2. WroteRow'
  BY DEF StatusInv, WroteRow, StatusLocal, SameSlot
<1>3. UnwrittenExcused'
  <2>1. \A v \in Requests : Unwritten(v)' => \/ Unwritten(v) /\ who'[v] = who[v]
                                             \/ who'[v] \in excused'
    BY DEF StatusLocal, SameSlot, Unwritten
  <2> QED  BY <2>1 DEF StatusInv, UnwrittenExcused
<1>4. ToldIsActive'
  <2>1. \A v \in Requests :
          Answering(v) => who[v] \in excused' \/ (Answering(v)' /\ who'[v] = who[v])
    BY DEF StatusLocal, SameSlot, Answering
  <2> QED  BY <2>1 DEF StatusInv, ToldIsActive
<1> QED  BY <1>1, <1>2, <1>3, <1>4 DEF StatusInv

-----------------------------------------------------------------------------
AuthIInv == SlotTypes /\ StoreTypes /\ LoginInv /\ StatusInv

\* A request that ends without a commit: it raised, or it was lost.
LEMMA EndsUncommitted ==
  ASSUME AuthIInv, NEW r \in Requests, Closes(r),
         UNCHANGED <<status, otp, lastSent, told, logins>>,
         excused \subseteq excused', Answering(r) => who[r] \in excused'
  PROVE  AuthIInv'
<1>1. /\ SlotTypes' /\ Others(r)
      /\ step'[r] = "idle" /\ task'[r] = "register" /\ wrote'[r] = FALSE
  BY ClosesSlot DEF AuthIInv
<1>2. \A v \in Requests : LoginLocal(v) /\ StatusLocal(v)
  <2> SUFFICES ASSUME NEW v \in Requests PROVE LoginLocal(v) /\ StatusLocal(v)
    OBVIOUS
  <2>1. CASE v = r
    BY <1>1, <2>1 DEF LoginLocal, StatusLocal, Entered, Blanking, Registering, Unwritten, Answering
  <2>2. CASE v # r
    BY <1>1, <2>2 DEF Others, LoginLocal, StatusLocal
  <2> QED  BY <2>1, <2>2
<1>3. LoginInv'
  BY <1>1, <1>2, LoginKept DEF AuthIInv, OtpMoves
<1>4. StatusInv'
  BY <1>2, StatusKept DEF AuthIInv
<1> QED  BY <1>1, <1>3, <1>4 DEF AuthIInv, StoreTypes

\* A request that goes on, and answers no login.
LEMMA GoesOn ==
  ASSUME AuthIInv, NEW r \in Requests, NEW p \in Steps, To(r, p),
         UNCHANGED <<status, logins, task, who, code>>,
         NEW b \in BOOLEAN, wrote' = [wrote EXCEPT ![r] = b],
         NEW n \in Nat, matched' = [matched EXCEPT ![r] = n],
         OtpMoves, told' \in SUBSET Registrants, excused \subseteq excused',
         \A u \in told' : u \in told \/ (Answering(r)' /\ who[r] = u),
         step[r] # "idle", p # "idle", ~Answering(r),
         b /\ task[r] = "verify" => status[who[r]] # "absent",
         task[r] = "verify" /\ p \in {"updated", "answered"} /\ ~b => who[r] \in excused',
         task[r] = "login" /\ p \in {"matched", "active"} =>
           \/ Entered(r) /\ n = matched[r]
           \/ Matches(r) /\ n = otp[who[r]].nth,
         task[r] = "login" /\ p = "blanked" =>
           Entered(r) /\ n = matched[r] /\ otp'[who[r]].nth = 0
  PROVE  AuthIInv'
<1>1. /\ SlotTypes' /\ Others(r) /\ step'[r] = p /\ wrote'[r] = b
      /\ task'[r] = task[r] /\ who'[r] = who[r] /\ matched'[r] = n
  BY ToSlot DEF AuthIInv
<1>2. LoginLocal(r)
  BY <1>1 DEF LoginLocal, Entered, Blanking
<1>3. StatusLocal(r)
  BY <1>1 DEF StatusLocal, Registering, Unwritten, Answering
<1>4. \A v \in Requests : LoginLocal(v) /\ StatusLocal(v)
  BY <1>1, <1>2, <1>3 DEF Others, LoginLocal, StatusLocal
<1>5. LoginInv'
  BY <1>1, <1>4, LoginKept DEF AuthIInv
<1>6. StatusInv'
  BY <1>1, <1>4, StatusKept DEF AuthIInv
<1>7. StoreTypes'
  BY OtpFacts DEF AuthIInv, StoreTypes, LoginInv
<1> QED  BY <1>1, <1>5, <1>6, <1>7 DEF AuthIInv

\* The steps of a request, up to its response.
LEMMA RaisesFacts ==
  ASSUME AuthIInv, NEW r \in Requests,
         DuplicatePhone(r) \/ AccountFails(r) \/ WrongCode(r) \/ NotActive(r)
  PROVE  AuthIInv'
<1>1. Closes(r) /\ UNCHANGED <<status, otp, lastSent, told, excused, logins>>
  BY DEF DuplicatePhone, AccountFails, WrongCode, NotActive, Raises, authStore
<1>2. ~Answering(r)
  BY DEF DuplicatePhone, AccountFails, WrongCode, NotActive, At, Answering
<1> QED  BY <1>1, <1>2, EndsUncommitted

LEMMA RequestLostFacts ==
  ASSUME AuthIInv, NEW r \in Requests, RequestLost(r)
  PROVE  AuthIInv'
<1>1. Closes(r) /\ UNCHANGED <<status, otp, lastSent, told, logins>>
  BY DEF RequestLost
<1>2. excused \subseteq excused' /\ (Answering(r) => who[r] \in excused')
  BY DEF RequestLost, At, Answering
<1> QED  BY <1>1, <1>2, EndsUncommitted

LEMMA InsertUserFacts ==
  ASSUME AuthIInv, NEW r \in Requests, InsertUser(r)
  PROVE  AuthIInv'
<1>1. /\ task[r] = "register" /\ step[r] = "begun" /\ To(r, "inserted")
      /\ wrote' = [wrote EXCEPT ![r] = TRUE]
      /\ UNCHANGED <<status, otp, lastSent, told, excused, logins, task, who, code, matched>>
  BY DEF InsertUser, At, authStore
<1>2. matched[r] \in Nat /\ matched' = [matched EXCEPT ![r] = matched[r]]
  BY <1>1, SameMatched DEF AuthIInv
<1> QED
  BY <1>1, <1>2, GoesOn DEF AuthIInv, StoreTypes, OtpMoves, Steps, Answering

\* Going on with neither a write nor an answer.
LEMMA QuietFacts ==
  ASSUME AuthIInv, NEW r \in Requests, OpenAccount(r) \/ Match(r) \/ FindActive(r)
  PROVE  AuthIInv'
<1>1. PICK p \in {"opened", "matched", "active"}, n \in Nat :
        /\ To(r, p) /\ step[r] # "idle" /\ ~Answering(r)
        /\ matched' = [matched EXCEPT ![r] = n]
        /\ task[r] = "login" /\ p \in {"matched", "active"} =>
             \/ Entered(r) /\ n = matched[r]
             \/ Matches(r) /\ n = otp[who[r]].nth
  <2>1. CASE OpenAccount(r) \/ FindActive(r)
    <3>1. matched[r] \in Nat /\ matched' = [matched EXCEPT ![r] = matched[r]]
      BY <2>1, SameMatched DEF OpenAccount, FindActive, Same, AuthIInv
    <3>2. \E p \in {"opened", "matched", "active"} :
            /\ To(r, p) /\ step[r] # "idle" /\ ~Answering(r)
            /\ task[r] = "login" => Entered(r)
      BY <2>1 DEF OpenAccount, FindActive, At, Answering, Entered
    <3> QED  BY <3>1, <3>2
  <2>2. CASE Match(r)
    <3>1. otp[who[r]].nth \in Nat
      BY DEF AuthIInv, SlotTypes, StoreTypes, Keys
    <3> QED  BY <2>2, <3>1 DEF Match, Answering
  <2> QED  BY <2>1, <2>2
<1>2. UNCHANGED <<status, otp, lastSent, told, excused, logins, task, who, code, wrote>>
  BY DEF OpenAccount, Match, FindActive, Same, authStore
<1>3. wrote[r] \in BOOLEAN /\ wrote' = [wrote EXCEPT ![r] = wrote[r]]
  BY <1>2, SameWrote DEF AuthIInv
<1>4. wrote[r] /\ task[r] = "verify" => status[who[r]] # "absent"
  BY DEF AuthIInv, StatusInv, WroteRow
<1>5. p \in Steps /\ p \notin {"idle", "updated", "answered", "blanked"}
  BY DEF Steps
<1> QED
  BY <1>1, <1>2, <1>3, <1>4, <1>5, GoesOn DEF AuthIInv, StoreTypes, OtpMoves

LEMMA SendFirstCodeFacts ==
  ASSUME AuthIInv, NEW r \in Requests, SendFirstCode(r)
  PROVE  AuthIInv'
<1>1. /\ task[r] = "register" /\ step[r] = "opened" /\ To(r, "answered") /\ SendCode(who[r])
      /\ UNCHANGED <<status, told, excused, logins, task, who, code, matched, wrote>>
  BY DEF SendFirstCode, At, Same
<1>2. /\ wrote[r] \in BOOLEAN /\ wrote' = [wrote EXCEPT ![r] = wrote[r]] /\ who[r] \in Registrants
      /\ matched[r] \in Nat /\ matched' = [matched EXCEPT ![r] = matched[r]]
  BY <1>1, SameWrote, SameMatched DEF AuthIInv, SlotTypes
<1> QED
  BY <1>1, <1>2, GoesOn DEF AuthIInv, StoreTypes, OtpMoves, Steps, Answering

LEMMA UpdateStatusFacts ==
  ASSUME AuthIInv, NEW r \in Requests, UpdateStatus(r)
  PROVE  AuthIInv'
<1> DEFINE b == status[who[r]] # "absent"
<1>1. /\ task[r] = "verify" /\ step[r] = "matched" /\ To(r, "updated")
      /\ wrote' = [wrote EXCEPT ![r] = b]
      /\ UNCHANGED <<status, otp, lastSent, told, logins, task, who, code, matched>>
  BY DEF UpdateStatus, At
<1>2. excused \subseteq excused' /\ (~b => who[r] \in excused') /\ b \in BOOLEAN
  BY DEF UpdateStatus
<1>3. matched[r] \in Nat /\ matched' = [matched EXCEPT ![r] = matched[r]]
  BY <1>1, SameMatched DEF AuthIInv
<1> QED
  BY <1>1, <1>2, <1>3, GoesOn DEF AuthIInv, StoreTypes, OtpMoves, Steps, Answering

LEMMA AnswerVerifiedFacts ==
  ASSUME AuthIInv, NEW r \in Requests, AnswerVerified(r)
  PROVE  AuthIInv'
<1>1. /\ task[r] = "verify" /\ step[r] = "updated" /\ To(r, "answered")
      /\ otp' = [otp EXCEPT ![who[r]] = Blank] /\ told' = told \cup {who[r]}
      /\ UNCHANGED <<status, lastSent, excused, logins, task, who, code, matched, wrote>>
  BY DEF AnswerVerified, MayAnswer, Blanked, Same
<1>2. /\ wrote[r] \in BOOLEAN /\ wrote' = [wrote EXCEPT ![r] = wrote[r]] /\ who[r] \in Registrants
      /\ matched[r] \in Nat /\ matched' = [matched EXCEPT ![r] = matched[r]]
  BY <1>1, SameWrote, SameMatched DEF AuthIInv, SlotTypes
<1>3. /\ wrote[r] => status[who[r]] # "absent"
      /\ ~wrote[r] => who[r] \in excused
  BY <1>1 DEF AuthIInv, StatusInv, WroteRow, UnwrittenExcused, Unwritten
<1>4. Answering(r)'
  BY <1>1 DEF AuthIInv, SlotTypes, To, Answering
<1>5. told' \in SUBSET Registrants
  BY <1>1, <1>2 DEF AuthIInv, StoreTypes
<1> QED
  BY <1>1, <1>2, <1>3, <1>4, <1>5, GoesOn DEF OtpMoves, Steps, Answering

LEMMA BlankCodeFacts ==
  ASSUME AuthIInv, NEW r \in Requests, BlankCode(r)
  PROVE  AuthIInv'
<1>1. /\ task[r] = "login" /\ step[r] = "active" /\ To(r, "blanked")
      /\ otp' = [otp EXCEPT ![who[r]] = Blank]
      /\ UNCHANGED <<status, lastSent, told, excused, logins, task, who, code, matched, wrote>>
  BY DEF BlankCode, At, Blanked, Same
<1>2. /\ wrote[r] \in BOOLEAN /\ wrote' = [wrote EXCEPT ![r] = wrote[r]] /\ who[r] \in Registrants
      /\ matched[r] \in Nat /\ matched' = [matched EXCEPT ![r] = matched[r]]
  BY <1>1, SameWrote, SameMatched DEF AuthIInv, SlotTypes
<1>3. otp'[who[r]].nth = 0
  BY <1>1, <1>2 DEF AuthIInv, StoreTypes, Blank
<1> QED
  BY <1>1, <1>2, <1>3, GoesOn DEF AuthIInv, StoreTypes, OtpMoves, Steps, Answering, Entered

LEMMA TokensAnswered ==
  ASSUME AuthIInv, NEW r \in Requests, AnswerTokens(r)
  PROVE  AuthIInv'
<1> DEFINE b == who[r] \notin web
<1>1. /\ task[r] = "login" /\ step[r] = "blanked" /\ To(r, "answered")
      /\ wrote' = [wrote EXCEPT ![r] = b] /\ b \in BOOLEAN
      /\ UNCHANGED <<status, otp, lastSent, told, excused, task, who, code, matched>>
  BY DEF AnswerTokens, At
<1>2. /\ SlotTypes' /\ Others(r) /\ step'[r] = "answered" /\ wrote'[r] = b
  <2>1. matched[r] \in Nat /\ matched' = [matched EXCEPT ![r] = matched[r]]
    BY <1>1, SameMatched DEF AuthIInv
  <2> QED  BY <1>1, <2>1, ToSlot DEF AuthIInv, Steps
<1>3. StatusLocal(r)
  BY <1>1, <1>2 DEF StatusLocal, Registering, Unwritten, Answering
<1>4. StatusInv'
  BY <1>1, <1>2, <1>3, StatusKept DEF AuthIInv, Others, StatusLocal
<1>5. LoginInv' /\ StoreTypes'
  BY <1>1, AnswerTokensFacts DEF AuthIInv, StoreTypes
<1> QED  BY <1>2, <1>4, <1>5 DEF AuthIInv

-----------------------------------------------------------------------------
\* The commits.
LEMMA CommitSlots ==
  ASSUME AuthIInv, NEW r \in Requests, Closes(r), UNCHANGED <<otp, lastSent, logins>>
  PROVE  SlotTypes' /\ LoginInv'
<1>1. SlotTypes' /\ Others(r) /\ task'[r] = "register"
  BY ClosesSlot DEF AuthIInv
<1>2. LoginLocal(r)
  BY <1>1 DEF LoginLocal, Entered, Blanking
<1> QED  BY <1>1, <1>2, LoginKept DEF AuthIInv, OtpMoves, Others, LoginLocal

LEMMA CommitUserFacts ==
  ASSUME AuthIInv, NEW r \in Requests, CommitUser(r)
  PROVE  AuthIInv'
<1>1. /\ Registering(r) /\ Closes(r)
      /\ status' = [status EXCEPT ![who[r]] = "pending_verification"]
      /\ UNCHANGED <<otp, lastSent, told, excused, logins>>
  BY DEF CommitUser, At, Registering
<1>2. /\ SlotTypes' /\ LoginInv' /\ Others(r)
      /\ step'[r] = "idle" /\ task'[r] = "register" /\ wrote'[r] = FALSE
  BY <1>1, CommitSlots, ClosesSlot DEF AuthIInv
<1>3. /\ who[r] \in Registrants /\ status[who[r]] = "absent"
      /\ status' \in [Registrants -> {"absent", "pending_verification", "active"}]
      /\ \A u \in Registrants \ {who[r]} : status'[u] = status[u]
      /\ status'[who[r]] = "pending_verification"
  BY <1>1 DEF AuthIInv, SlotTypes, StoreTypes, StatusInv, RegistersAlone
<1>4. RegistersAlone'
  <2> SUFFICES ASSUME NEW v \in Requests, Registering(v)'
               PROVE  /\ status'[who'[v]] = "absent"
                      /\ \A q \in Requests : Registering(q)' /\ who'[q] = who'[v] => q = v
    BY DEF RegistersAlone
  <2>1. \A q \in Requests : Registering(q)' => /\ q # r /\ Registering(q) /\ who'[q] = who[q]
                                               /\ who[q] \in Registrants
    BY <1>2 DEF Registering, Others, SameSlot, AuthIInv, SlotTypes
  <2>2. who[v] # who[r] /\ status[who[v]] = "absent"
    BY <1>1, <2>1 DEF AuthIInv, StatusInv, RegistersAlone
  <2> QED  BY <1>3, <2>1, <2>2 DEF AuthIInv, StatusInv, RegistersAlone
<1>5. WroteRow'
  <2> SUFFICES ASSUME NEW v \in Requests, wrote'[v]
               PROVE  step'[v] # "idle" /\ (task'[v] = "verify" => status'[who'[v]] # "absent")
    BY DEF WroteRow
  <2>1. v # r /\ SameSlot(v) /\ who[v] \in Registrants
    BY <1>2 DEF Others, AuthIInv, SlotTypes
  <2>2. step[v] # "idle" /\ (task[v] = "verify" => status[who[v]] # "absent")
    BY <2>1 DEF SameSlot, AuthIInv, StatusInv, WroteRow
  <2> QED  BY <1>3, <2>1, <2>2 DEF SameSlot
<1>6. UnwrittenExcused'
  BY <1>1, <1>2 DEF AuthIInv, StatusInv, UnwrittenExcused, Unwritten, Others, SameSlot
<1>7. ToldIsActive'
  <2> SUFFICES ASSUME NEW u \in told
               PROVE  \/ status'[u] = "active" \/ u \in excused
                      \/ \E v \in Requests : Answering(v)' /\ who'[v] = u
    BY <1>1 DEF ToldIsActive
  <2>1. \/ status[u] = "active" \/ u \in excused
        \/ \E v \in Requests : Answering(v) /\ who[v] = u
    BY DEF AuthIInv, StatusInv, ToldIsActive
  <2>2. status[u] = "active" => status'[u] = "active"
    BY <1>3 DEF AuthIInv, StoreTypes
  <2>3. \A v \in Requests : Answering(v) => Answering(v)' /\ who'[v] = who[v]
    BY <1>1, <1>2 DEF Answering, Registering, Others, SameSlot
  <2> QED  BY <2>1, <2>2, <2>3
<1> QED
  BY <1>1, <1>2, <1>3, <1>4, <1>5, <1>6, <1>7 DEF AuthIInv, StoreTypes, StatusInv

LEMMA CommitVerifiedFacts ==
  ASSUME AuthIInv, NEW r \in Requests, CommitVerified(r)
  PROVE  AuthIInv'
<1>1. /\ Answering(r) /\ Closes(r) /\ UNCHANGED <<otp, lastSent, told, excused, logins>>
      /\ status' = IF wrote[r] THEN [status EXCEPT ![who[r]] = "active"] ELSE status
  BY DEF CommitVerified, At, Answering
<1>2. CASE ~wrote[r]
  <2>1. status' = status /\ who[r] \in excused
    BY <1>1, <1>2 DEF AuthIInv, StatusInv, UnwrittenExcused, Unwritten, Answering
  <2> QED  BY <1>1, <2>1, EndsUncommitted
<1>3. CASE wrote[r]
  <2>1. /\ SlotTypes' /\ LoginInv' /\ Others(r)
        /\ step'[r] = "idle" /\ task'[r] = "register" /\ wrote'[r] = FALSE
    BY <1>1, CommitSlots, ClosesSlot DEF AuthIInv
  <2>2. /\ who[r] \in Registrants /\ status[who[r]] # "absent"
        /\ status' \in [Registrants -> {"absent", "pending_verification", "active"}]
        /\ \A u \in Registrants \ {who[r]} : status'[u] = status[u]
        /\ status'[who[r]] = "active"
    BY <1>1, <1>3 DEF AuthIInv, SlotTypes, StoreTypes, StatusInv, WroteRow, Answering
  <2>3. \A u \in Registrants : status'[u] = "absent" <=> status[u] = "absent"
    BY <2>2
  <2>4. RegistersAlone'
    <3> SUFFICES ASSUME NEW v \in Requests, Registering(v)'
                 PROVE  /\ status'[who'[v]] = "absent"
                        /\ \A q \in Requests : Registering(q)' /\ who'[q] = who'[v] => q = v
      BY DEF RegistersAlone
    <3>1. \A q \in Requests : Registering(q)' => /\ Registering(q) /\ who'[q] = who[q]
                                                 /\ who[q] \in Registrants
      BY <2>1 DEF Registering, Others, SameSlot, AuthIInv, SlotTypes
    <3> QED  BY <2>3, <3>1 DEF AuthIInv, StatusInv, RegistersAlone
  <2>5. WroteRow'
    <3> SUFFICES ASSUME NEW v \in Requests, wrote'[v]
                 PROVE  step'[v] # "idle" /\ (task'[v] = "verify" => status'[who'[v]] # "absent")
      BY DEF WroteRow
    <3>1. v # r /\ SameSlot(v) /\ who[v] \in Registrants
      BY <2>1 DEF Others, AuthIInv, SlotTypes
    <3>2. step[v] # "idle" /\ (task[v] = "verify" => status[who[v]] # "absent")
      BY <3>1 DEF SameSlot, AuthIInv, StatusInv, WroteRow
    <3> QED  BY <2>3, <3>1, <3>2 DEF SameSlot
  <2>6. UnwrittenExcused'
    BY <1>1, <2>1 DEF AuthIInv, StatusInv, UnwrittenExcused, Unwritten, Others, SameSlot
  <2>7. ToldIsActive'
    <3> SUFFICES ASSUME NEW u \in told
                 PROVE  \/ status'[u] = "active" \/ u \in excused
                        \/ \E v \in Requests : Answering(v)' /\ who'[v] = u
      BY <1>1 DEF ToldIsActive
    <3>1. \/ status[u] = "active" \/ u \in excused
          \/ \E v \in Requests : Answering(v) /\ who[v] = u
      BY DEF AuthIInv, StatusInv, ToldIsActive
    <3>2. u \in Registrants /\ (status[u] = "active" => status'[u] = "active")
      BY <2>2 DEF AuthIInv, StoreTypes
    <3>3. \A v \in Requests \ {r} : Answering(v) => Answering(v)' /\ who'[v] = who[v]
      BY <2>1 DEF Answering, Others, SameSlot
    <3>4. u = who[r] => status'[u] = "active"
      BY <2>2
    <3> QED  BY <3>1, <3>2, <3>3, <3>4
  <2> QED
    BY <1>1, <2>1, <2>2, <2>4, <2>5, <2>6, <2>7 DEF AuthIInv, StoreTypes, StatusInv
<1> QED  BY <1>2, <1>3

LEMMA CommitLoginFacts ==
  ASSUME AuthIInv, NEW r \in Requests, CommitLogin(r)
  PROVE  AuthIInv'
<1>1. Closes(r) /\ UNCHANGED <<status, otp, lastSent, told, excused, logins>> /\ ~Answering(r)
  BY DEF CommitLogin, At, Answering
<1> QED  BY <1>1, EndsUncommitted

-----------------------------------------------------------------------------
\* A request begins, and is the only registration of its user.
LEMMA ArrivesFacts ==
  ASSUME AuthIInv, NEW r \in Requests, NEW what \in Tasks, NEW u \in Registrants,
         NEW c \in Codes \cup {NoCode}, Arrives(r, what, "begun", u, c),
         what = "register" => /\ status[u] = "absent"
                              /\ \A q \in Requests : step[q] = "idle" \/ who[q] # u
  PROVE  AuthIInv'
<1>1. /\ SlotTypes' /\ Others(r) /\ step[r] = "idle" /\ step'[r] = "begun"
      /\ task'[r] = what /\ who'[r] = u /\ wrote'[r] = wrote[r]
  BY ArrivesSlot DEF AuthIInv
<1>2. UNCHANGED <<status, otp, lastSent, told, excused, logins>>
  BY DEF Arrives, authStore
<1>3. LoginInv'
  <2>1. LoginLocal(r)
    BY <1>1 DEF LoginLocal, Entered, Blanking
  <2> QED  BY <1>1, <1>2, <2>1, LoginKept DEF AuthIInv, OtpMoves, Others, LoginLocal
<1>4. RegistersAlone'
  <2> SUFFICES ASSUME NEW v \in Requests, Registering(v)'
               PROVE  /\ status[who'[v]] = "absent"
                      /\ \A q \in Requests : Registering(q)' /\ who'[q] = who'[v] => q = v
    BY <1>2 DEF RegistersAlone
  <2>1. \A q \in Requests \ {r} : Registering(q)' => /\ Registering(q) /\ who'[q] = who[q]
                                                     /\ step[q] # "idle"
    BY <1>1 DEF Registering, Others, SameSlot
  <2>2. CASE v = r
    BY <1>1, <2>1, <2>2 DEF Registering
  <2>3. CASE v # r
    <3>1. Registering(r)' => who'[v] # who'[r]
      BY <1>1, <2>1, <2>3 DEF Registering
    <3> QED  BY <2>1, <2>3, <3>1 DEF AuthIInv, StatusInv, RegistersAlone
  <2> QED  BY <2>2, <2>3
<1>5. WroteRow'
  <2> SUFFICES ASSUME NEW v \in Requests, wrote'[v]
               PROVE  step'[v] # "idle" /\ (task'[v] = "verify" => status[who'[v]] # "absent")
    BY <1>2 DEF WroteRow
  <2>1. v # r
    BY <1>1 DEF AuthIInv, StatusInv, WroteRow
  <2> QED  BY <1>1, <2>1 DEF Others, SameSlot, AuthIInv, StatusInv, WroteRow
<1>6. UnwrittenExcused'
  BY <1>1, <1>2 DEF AuthIInv, StatusInv, UnwrittenExcused, Unwritten, Others, SameSlot
<1>7. ToldIsActive'
  <2>1. \A v \in Requests : Answering(v) => Answering(v)' /\ who'[v] = who[v]
    BY <1>1 DEF Answering, Others, SameSlot
  <2> QED  BY <1>2, <2>1 DEF AuthIInv, StatusInv, ToldIsActive
<1> QED
  BY <1>1, <1>2, <1>3, <1>4, <1>5, <1>6, <1>7 DEF AuthIInv, StoreTypes, StatusInv

\* Codes are sent or expire while the requests stand still.
LEMMA StandingFacts ==
  ASSUME AuthIInv, OtpMoves, UNCHANGED <<status, told, excused, logins, authRequest>>
  PROVE  AuthIInv'
<1>1. \A v \in Requests : LoginLocal(v) /\ StatusLocal(v)
  BY DEF authRequest, LoginLocal, StatusLocal, SameSlot
<1>2. SlotTypes'
  BY DEF AuthIInv, SlotTypes, authRequest
<1>3. LoginInv' /\ StatusInv'
  BY <1>1, <1>2, LoginKept, StatusKept DEF AuthIInv
<1>4. StoreTypes'
  BY OtpFacts DEF AuthIInv, StoreTypes, LoginInv
<1> QED  BY <1>2, <1>3, <1>4 DEF AuthIInv

LEMMA AuthNextFacts ==
  ASSUME AuthIInv, [AuthNext]_authVars
  PROVE  AuthIInv'
<1>1. ASSUME NEW r \in Requests, RequestStep(r) PROVE AuthIInv'
  BY <1>1, RaisesFacts, RequestLostFacts, InsertUserFacts, QuietFacts, SendFirstCodeFacts,
     UpdateStatusFacts, AnswerVerifiedFacts, BlankCodeFacts, TokensAnswered, CommitUserFacts,
     CommitVerifiedFacts, CommitLoginFacts
  DEF RequestStep
<1>2. ASSUME NEW u \in Registrants, Login(u) PROVE AuthIInv'
  BY <1>2, StandingFacts DEF Login, OtpMoves
<1>3. ASSUME NEW u \in Registrants, CodeExpires(u) PROVE AuthIInv'
  BY <1>3, StandingFacts DEF CodeExpires, OtpMoves
<1>4. ASSUME UNCHANGED authVars PROVE AuthIInv'
  BY <1>4, StandingFacts DEF authVars, authStore, OtpMoves
<1>5. ASSUME NEW u \in Registrants, NEW r \in Requests, Register(r, u) PROVE AuthIInv'
  BY <1>5, ArrivesFacts DEF Register, Tasks
<1>6. ASSUME NEW u \in Registrants, NEW r \in Requests, NEW c \in Codes,
             VerifyOtp(r, u, c) \/ VerifyLogin(r, u, c)
      PROVE  AuthIInv'
  <2>1. Arrives(r, "verify", "begun", u, c) \/ Arrives(r, "login", "begun", u, c)
    BY <1>6 DEF VerifyOtp, VerifyLogin
  <2> QED  BY <2>1, ArrivesFacts DEF Tasks
<1> QED
  BY <1>1, <1>2, <1>3, <1>4, <1>5, <1>6 DEF AuthNext, RefreshTokens

LEMMA AuthInitFacts == AuthInit => AuthIInv
<1> SUFFICES ASSUME AuthInit PROVE AuthIInv
  OBVIOUS
<1>1. AnyUser \in Registrants
  BY AuthAssumption DEF AnyUser
<1>2. wrote \in [Requests -> BOOLEAN] /\ \A v \in Requests : wrote[v] = FALSE
  BY DEF AuthInit
<1>3. SlotTypes
  BY <1>1, <1>2 DEF AuthInit, SlotTypes, Steps, Tasks
<1>4. StoreTypes
  <2>1. Blank \in Keys
    BY DEF Blank, Keys
  <2> QED  BY <2>1 DEF AuthInit, StoreTypes, Sendings
<1>5. LoginInv
  BY DEF AuthInit, LoginInv, SendingsApart, Blank, EnteredAlone, Entered, BlankedGone, Blanking,
         UsedGone, OneLoginPerRequest, Sendings
<1>6. StatusInv
  BY <1>2 DEF AuthInit, StatusInv, RegistersAlone, Registering, WroteRow, UnwrittenExcused,
              Unwritten, ToldIsActive
<1> QED  BY <1>3, <1>4, <1>5, <1>6 DEF AuthIInv

\* The invariant of registrations and logins.
THEOREM AuthInvariance == AuthSpec => []AuthIInv
BY AuthInitFacts, AuthNextFacts, PTL DEF AuthSpec

\* "verified" was said of a user who is active or about to be, or whose request raced
\* the registration or was lost, for any number of users and requests.
THEOREM AuthVerifiedUnlessRaced == AuthSpec => []VerifiedUnlessRaced
<1>1. AuthIInv => VerifiedUnlessRaced
  BY DEF AuthIInv, StatusInv, ToldIsActive, VerifiedUnlessRaced, Answering, At
<1> QED  BY <1>1, AuthInvariance, PTL

\* No request slot answers two logins by one sending of a code, for any number of users
\* and requests and whatever the codes are, if only one code is ever sent too.
THEOREM AuthOneLoginPerRequest == AuthSpec => []OneLoginPerRequest
<1>1. AuthIInv => OneLoginPerRequest
  BY DEF AuthIInv, LoginInv
<1> QED  BY <1>1, AuthInvariance, PTL

-----------------------------------------------------------------------------
(* Webhooks: what is acknowledged is stored, and the table is an inbox.     *)

HookIInv == WebhooksTypeOK /\ AckedIsStored

-----------------------------------------------------------------------------
\* What is stored grows by the event that arrives, and its number is in range.
LEMMA ArriveFacts ==
  ASSUME arrived \in [Events -> 0..Cardinality(Events)], NEW e \in Events, Arrive(e)
  PROVE  /\ arrived' \in [Events -> 0..Cardinality(Events)]
         /\ Stored \subseteq Stored' /\ e \in Stored'
<1>1. IsFiniteSet(Stored) /\ Cardinality(Stored) < Cardinality(Events)
  <2>1. Stored \subseteq Events /\ Stored # Events /\ IsFiniteSet(Events)
    BY InboxAssumption DEF Arrive, Stored
  <2>2. /\ IsFiniteSet(Stored) /\ Cardinality(Stored) <= Cardinality(Events)
        /\ Cardinality(Stored) = Cardinality(Events) => Stored = Events
    BY <2>1, FS_Subset
  <2>3. Cardinality(Stored) \in Nat /\ Cardinality(Events) \in Nat
    BY <2>1, <2>2, FS_CardinalityType
  <2> QED  BY <2>1, <2>2, <2>3
<1>2. Cardinality(Stored) \in Nat /\ Cardinality(Events) \in Nat
  BY <1>1, InboxAssumption, FS_CardinalityType
<1> DEFINE n == Cardinality(Stored) + 1
<1>3. n \in 1..Cardinality(Events)
  BY <1>1, <1>2
<1>4. arrived' = [arrived EXCEPT ![e] = n]
  BY DEF Arrive
<1> HIDE DEF n
<1>5. arrived' \in [Events -> 0..Cardinality(Events)]
  BY <1>2, <1>3, <1>4
<1>6. arrived'[e] > 0 /\ \A f \in Events : f # e => arrived'[f] = arrived[f]
  BY <1>2, <1>3, <1>4
<1> QED  BY <1>5, <1>6 DEF Stored

\* Ending a request keeps the types and the other requests.
LEMMA EndHookFacts ==
  ASSUME WebhooksTypeOK, NEW h \in Handlers, EndsHook(h)
  PROVE  /\ hookAt' \in [Handlers -> {"idle", "received", "forged", "new", "inserted", "answered"}]
         /\ hookFor' \in [Handlers -> Events]
         /\ \A g \in Handlers \ {h} : hookAt'[g] = hookAt[g] /\ hookFor'[g] = hookFor[g]
BY InboxAssumption DEF WebhooksTypeOK, EndsHook

LEMMA MovesFacts ==
  ASSUME WebhooksTypeOK, NEW h \in Handlers,
         NEW p \in {"received", "forged", "new", "inserted", "answered"}, Moves(h, p)
  PROVE  /\ hookAt' \in [Handlers -> {"idle", "received", "forged", "new", "inserted", "answered"}]
         /\ hookFor' \in [Handlers -> Events]
         /\ hookAt'[h] = p
         /\ \A g \in Handlers \ {h} : hookAt'[g] = hookAt[g] /\ hookFor'[g] = hookFor[g]
BY DEF WebhooksTypeOK, Moves

LEMMA AcksFacts ==
  ASSUME WebhooksTypeOK, NEW h \in Handlers, Acks(h)
  PROVE  /\ acked' \in SUBSET Events
         /\ \A e \in acked' : e \in acked \/ e = hookFor[h]
BY DEF WebhooksTypeOK, Acks

-----------------------------------------------------------------------------
\* A step that stores nothing and answers nothing, of a request that had not
\* answered, keeps the invariant.
LEMMA HookQuietFacts ==
  ASSUME HookIInv, NEW h \in Handlers, hookAt[h] # "answered",
         UNCHANGED <<arrived, acked, dropped, misread>>,
         hookAt' \in [Handlers -> {"idle", "received", "forged", "new", "inserted", "answered"}],
         hookFor' \in [Handlers -> Events],
         \A g \in Handlers \ {h} : hookAt'[g] = hookAt[g] /\ hookFor'[g] = hookFor[g]
  PROVE  HookIInv'
BY DEF HookIInv, WebhooksTypeOK, AckedIsStored, Stored

\* A duplicate is acknowledged because its event is stored.
LEMMA DuplicateFacts ==
  ASSUME HookIInv, NEW h \in Handlers, hookAt[h] # "answered", hookFor[h] \in Stored,
         Acks(h), EndsHook(h), UNCHANGED <<arrived, dropped, misread>>
  PROVE  HookIInv'
<1>1. WebhooksTypeOK /\ AckedIsStored
  BY DEF HookIInv
<1> QED  BY <1>1, EndHookFacts, AcksFacts DEF HookIInv, WebhooksTypeOK, AckedIsStored, Stored

LEMMA HandlerStepFacts ==
  ASSUME HookIInv, NEW h \in Handlers, HandlerStep(h)
  PROVE  HookIInv'
<1>0. WebhooksTypeOK /\ AckedIsStored
  BY DEF HookIInv
<1>1. CASE \E e \in Events, p \in {"received", "forged"} : Deliver(h, e, p)
  <2>1. PICK e \in Events, p \in {"received", "forged"} : Deliver(h, e, p)
    BY <1>1
  <2>2. /\ hookAt' \in [Handlers -> {"idle", "received", "forged", "new", "inserted", "answered"}]
        /\ hookFor' \in [Handlers -> Events]
        /\ \A g \in Handlers \ {h} : hookAt'[g] = hookAt[g] /\ hookFor'[g] = hookFor[g]
    BY <1>0, <2>1 DEF Deliver, WebhooksTypeOK
  <2>3. hookAt[h] # "answered" /\ UNCHANGED <<arrived, acked, dropped, misread>>
    BY <2>1 DEF Deliver
  <2> QED  BY <2>2, <2>3, HookQuietFacts
<1>2. CASE RefuseDelivery(h)
  <2>1. hookAt[h] # "answered" /\ EndsHook(h) /\ UNCHANGED <<arrived, acked, dropped, misread>>
    BY <1>2 DEF RefuseDelivery
  <2> QED  BY <1>0, <2>1, EndHookFacts, HookQuietFacts
<1>3. CASE FindDuplicate(h)
  BY <1>3, DuplicateFacts DEF FindDuplicate, Verified
<1>4. CASE FindNew(h)
  <2>1. hookAt[h] # "answered" /\ Moves(h, "new") /\ UNCHANGED <<arrived, acked, dropped, misread>>
    BY <1>4 DEF FindNew, Verified
  <2> QED  BY <1>0, <2>1, MovesFacts, HookQuietFacts
<1>5. CASE StoreEvent(h)
  <2>1. hookAt[h] # "answered" /\ Moves(h, "inserted") /\ UNCHANGED <<arrived, acked, dropped, misread>>
    BY <1>5 DEF StoreEvent
  <2> QED  BY <1>0, <2>1, MovesFacts, HookQuietFacts
<1>6. CASE StoreConflict(h)
  BY <1>6, DuplicateFacts DEF StoreConflict, Clashes
<1>7. CASE AnswerReceived(h)
  <2>1. /\ hookAt[h] = "inserted" /\ Acks(h) /\ Moves(h, "answered")
        /\ UNCHANGED <<arrived, dropped, misread>>
    BY <1>7 DEF AnswerReceived
  <2>2. hookFor' = hookFor
    BY <2>1 DEF Moves
  <2> QED  BY <1>0, <2>1, <2>2, MovesFacts, AcksFacts
           DEF HookIInv, WebhooksTypeOK, AckedIsStored, Stored
<1>8. CASE CommitEvent(h)
  <2>1. Arrive(hookFor[h]) /\ EndsHook(h) /\ UNCHANGED <<acked, dropped, misread>>
    BY <1>8 DEF CommitEvent
  <2>2. hookFor[h] \in Events /\ arrived \in [Events -> 0..Cardinality(Events)]
    BY <1>0 DEF WebhooksTypeOK
  <2>3. /\ arrived' \in [Events -> 0..Cardinality(Events)]
        /\ Stored \subseteq Stored' /\ hookFor[h] \in Stored'
    BY <2>1, <2>2, ArriveFacts
  <2>4. WebhooksTypeOK'
    BY <1>0, <2>1, <2>3, EndHookFacts DEF WebhooksTypeOK
  <2>5. AckedIsStored'
    BY <1>0, <2>1, <2>3, EndHookFacts DEF AckedIsStored
  <2> QED  BY <2>4, <2>5 DEF HookIInv
<1>9. CASE HandlerLost(h)
  <2>1. EndsHook(h) /\ UNCHANGED <<arrived, acked, misread>>
    BY <1>9 DEF HandlerLost
  <2>2. dropped' = IF hookAt[h] = "answered" THEN dropped \cup {hookFor[h]} ELSE dropped
    BY <1>9 DEF HandlerLost
  <2>3. WebhooksTypeOK'
    BY <1>0, <2>1, <2>2, EndHookFacts DEF WebhooksTypeOK
  <2>4. AckedIsStored'
    BY <1>0, <2>1, <2>2, EndHookFacts DEF AckedIsStored, Stored
  <2> QED  BY <2>3, <2>4 DEF HookIInv
<1>10. CASE FailsAsDuplicate(h)
  <2>1. /\ hookAt[h] # "answered" /\ misread' = misread \cup {hookFor[h]}
        /\ Acks(h) /\ EndsHook(h) /\ UNCHANGED <<arrived, dropped>>
    BY <1>10 DEF FailsAsDuplicate, Verified
  <2>2. WebhooksTypeOK'
    BY <1>0, <2>1, EndHookFacts, AcksFacts DEF WebhooksTypeOK
  <2>3. AckedIsStored'
    BY <1>0, <2>1, EndHookFacts, AcksFacts DEF AckedIsStored, Stored
  <2> QED  BY <2>2, <2>3 DEF HookIInv
<1> QED  BY <1>1, <1>2, <1>3, <1>4, <1>5, <1>6, <1>7, <1>8, <1>9, <1>10 DEF HandlerStep

LEMMA WebhooksNextFacts ==
  ASSUME HookIInv, [WebhooksNext]_hookVars
  PROVE  HookIInv'
<1>1. CASE UNCHANGED hookVars
  BY <1>1 DEF HookIInv, hookVars, WebhooksTypeOK, AckedIsStored, Stored
<1>2. CASE WebhooksNext
  BY <1>2, HandlerStepFacts DEF WebhooksNext
<1> QED  BY <1>1, <1>2

LEMMA WebhooksInitFacts == WebhooksInit => HookIInv
<1> SUFFICES ASSUME WebhooksInit PROVE HookIInv
  OBVIOUS
<1>1. Cardinality(Events) \in Nat
  BY InboxAssumption, FS_CardinalityType
<1> QED  BY <1>1, InboxAssumption
         DEF WebhooksInit, InboxInit, HookIInv, WebhooksTypeOK, AckedIsStored

-----------------------------------------------------------------------------
\* Types, and that what is acknowledged is stored or excused, hold in every state.
THEOREM WebhooksInvariance == WebhooksSpec => []HookIInv
BY WebhooksInitFacts, WebhooksNextFacts, PTL DEF WebhooksSpec

\* Nomba is answered 200 only for what is stored, about to be, lost with a session that
\* had answered first, or met an error that was taken for a duplicate.
THEOREM WebhooksAckedIsStored == WebhooksSpec => []AckedIsStored
<1>1. HookIInv => AckedIsStored
  BY DEF HookIInv
<1> QED  BY <1>1, WebhooksInvariance, PTL

\* A delivery stores nothing, or the event it is of.
LEMMA HookArrivesFacts ==
  ASSUME HookIInv, [WebhooksNext]_hookVars, arrived' # arrived
  PROVE  \E e \in Events : Arrive(e)
<1>1. PICK h \in Handlers : HandlerStep(h)
  BY DEF WebhooksNext, hookVars
<1>2. Arrive(hookFor[h])
  BY <1>1 DEF HandlerStep, Deliver, RefuseDelivery, FindDuplicate, FindNew, StoreEvent,
              StoreConflict, AnswerReceived, CommitEvent, FailsAsDuplicate, HandlerLost
<1> QED  BY <1>2 DEF HookIInv, WebhooksTypeOK

\* However deliveries are repeated, reordered, forged or lost, the table is the abstract
\* inbox: each event is stored at most once and then stays.
THEOREM WebhooksImplementInbox == WebhooksSpec => InboxSpec
<1>1. WebhooksInit => InboxInit
  BY DEF WebhooksInit
<1>2. HookIInv /\ [WebhooksNext]_hookVars => [\E e \in Events : Arrive(e)]_arrived
  BY HookArrivesFacts
<1> QED  BY <1>1, <1>2, WebhooksInvariance, PTL DEF WebhooksSpec, InboxSpec

-----------------------------------------------------------------------------
(* Wallet: a worker's memory agrees with what is due, for every user whose     *)
(* deposits no other worker has loaded.                                        *)

UserOf(d) == Payee[Into[d]]
Worth(S, p) == SumFunctionOnSet(Received, {d \in S : UserOf(d) = p})

\* What a worker has marked, and what it is about to mark.
Done(w) == marks[w] \cup IF workAt[w] = "handled" THEN {Event(w)} ELSE {}

\* What a worker is done with it has credited, failed or skipped, and nothing else.
Sorted(w) ==
  /\ errors[w] \subseteq marks[w]
  /\ credits[w] \subseteq Done(w) /\ skipped[w] \subseteq Done(w)
  /\ \A d \in Done(w) \cap Deposits : d \in credits[w] <=> d \notin errors[w] \cup skipped[w]

\* What a worker has marked and credited it has loaded; what it has read of a user is
\* the balance with its own credits.
WorkerSound(w) ==
  /\ Sorted(w)
  /\ workAt[w] = "idle" => taken[w] = {}
  /\ taken[w] \subseteq Stored /\ marks[w] \subseteq taken[w]
  /\ credits[w] \subseteq taken[w]
  /\ workAt[w] \in {"found", "marked", "handled"} => Todo(w) # {}
  /\ workAt[w] \in {"found", "marked"} =>
       Event(w) \in Deposits /\ held[w][User(w)] # NotRead
  /\ \A d \in credits[w] : held[w][UserOf(d)] # NotRead
  /\ \A p \in Payees : held[w][p] # NotRead => p \in UsersOf(taken[w])
  /\ \A p \in Payees \ overlapped :
       held[w][p] # NotRead => held[w][p] = Worth(Creditable \cup credits[w], p)
  /\ \A d \in taken[w] \cap Deposits : UserOf(d) \notin overlapped => d \notin processed

UsersApart ==
  \A w \in Workers : \A q \in Workers \ {w} :
    UsersOf(taken[w]) \cap UsersOf(taken[q]) \subseteq overlapped

ArrivedType == arrived \in [Events -> 0..Cardinality(Events)]

WalletIInv ==
  /\ ArrivedType /\ WalletTypeOK
  /\ \A w \in Workers : WorkerSound(w)
  /\ UsersApart /\ CreditsLostOnlyToOverlap

LEMMA DepositFacts ==
  /\ IsFiniteSet(Events) /\ IsFiniteSet(Deposits) /\ Deposits \subseteq Events
  /\ \A d \in Deposits : Received[d] \in Nat /\ Into[d] \in Accounts /\ UserOf(d) \in Payees
BY InboxAssumption, WalletAssumption, FS_Subset DEF Deposits, UserOf

LEMMA WorthFacts ==
  ASSUME NEW S \in SUBSET Deposits, NEW p
  PROVE  Worth(S, p) \in Nat
<1> DEFINE T == {d \in S : UserOf(d) = p}
<1>1. T \subseteq Deposits
  OBVIOUS
<1>2. IsFiniteSet(T) /\ \A d \in T : Received[d] \in Nat
  BY <1>1, DepositFacts, FS_Subset
<1> HIDE DEF T
<1>3. SumFunctionOnSet(Received, T) \in Nat
  BY <1>2, SumNat
<1> QED  BY <1>3 DEF Worth, T

\* One deposit more of a user, and none for the others.
LEMMA WorthAddFacts ==
  ASSUME NEW S \in SUBSET Deposits, NEW e \in Deposits, e \notin S
  PROVE  /\ Worth(S \cup {e}, UserOf(e)) = Received[e] + Worth(S, UserOf(e))
         /\ \A p : p # UserOf(e) => Worth(S \cup {e}, p) = Worth(S, p)
<1> DEFINE u == UserOf(e)
           T == {d \in S : UserOf(d) = u}
<1>1. {d \in S \cup {e} : UserOf(d) = u} = T \cup {e} /\ e \notin T /\ T \subseteq Deposits
  OBVIOUS
<1>2. IsFiniteSet(T) /\ \A d \in T \cup {e} : Received[d] \in Int
  BY <1>1, DepositFacts, FS_Subset
<1>3. Worth(S \cup {e}, u) = SumFunctionOnSet(Received, T \cup {e})
  BY <1>1 DEF Worth
<1>4. Worth(S, u) = SumFunctionOnSet(Received, T)
  BY DEF Worth
<1>5. Worth(S \cup {e}, u) = Received[e] + Worth(S, u)
  <2> HIDE DEF T, u
  <2> QED  BY <1>1, <1>2, <1>3, <1>4, SumAdd
<1>6. ASSUME NEW p, p # u PROVE Worth(S \cup {e}, p) = Worth(S, p)
  <2>1. {d \in S \cup {e} : UserOf(d) = p} = {d \in S : UserOf(d) = p}
    BY <1>6
  <2> QED  BY <2>1 DEF Worth
<1> QED  BY <1>5, <1>6

\* The worker's current event is one it has still to handle.
LEMMA EventFacts ==
  ASSUME WalletIInv, NEW w \in Workers, Todo(w) # {}
  PROVE  Event(w) \in Todo(w) /\ Event(w) \in taken[w] /\ Event(w) \in Events
<1>1. taken[w] \in SUBSET Events
  BY DEF WalletIInv, WalletTypeOK
<1> DEFINE S == {arrived[e] : e \in Todo(w)}
<1>2. S \in SUBSET Nat /\ S # {}
  <2>1. \A e \in Events : arrived[e] \in Nat
    <3>1. Cardinality(Events) \in Nat
      BY DepositFacts, FS_CardinalityType
    <3> QED  BY <3>1 DEF WalletIInv, ArrivedType
  <2> QED  BY <1>1, <2>1 DEF Todo
<1>3. \E n \in S : \A m \in S : n <= m
  <2> HIDE DEF S
  <2> QED  BY <1>2, SmallestNat
<1>4. \E e \in Todo(w) : \A f \in Todo(w) : arrived[e] <= arrived[f]
  BY <1>3
<1>5. Event(w) \in Todo(w)
  BY <1>4 DEF Event
<1> QED  BY <1>1, <1>5 DEF Todo

SameWork(r) ==
  /\ workAt'[r] = workAt[r] /\ bulk'[r] = bulk[r] /\ taken'[r] = taken[r]
  /\ marks'[r] = marks[r] /\ errors'[r] = errors[r] /\ credits'[r] = credits[r]
  /\ skipped'[r] = skipped[r] /\ held'[r] = held[r] /\ accountTo'[r] = accountTo[r]

\* Events that arrive do not change which event a worker handles first.
LEMMA SameEventFacts ==
  ASSUME NEW r, taken'[r] = taken[r], marks'[r] = marks[r],
         \A e \in taken[r] : arrived'[e] = arrived[e]
  PROVE  Todo(r)' = Todo(r) /\ Event(r)' = Event(r) /\ User(r)' = User(r)
<1>1. Todo(r)' = Todo(r) /\ Todo(r) \subseteq taken[r]
  BY DEF Todo
<1>2. \A e : (e \in Todo(r)' /\ \A f \in Todo(r)' : arrived'[e] <= arrived'[f])
               <=> (e \in Todo(r) /\ \A f \in Todo(r) : arrived[e] <= arrived[f])
  BY <1>1
<1>3. Event(r)' = Event(r)
  BY <1>2 DEF Event
<1> QED  BY <1>1, <1>3 DEF User, TargetOf

\* A worker is not disturbed by others, as long as what is due to the users it shares
\* with nobody stays as it was.
LEMMA UndisturbedFacts ==
  ASSUME WalletIInv, NEW r \in Workers, SameWork(r),
         \A e \in Stored : arrived'[e] = arrived[e],
         Stored \subseteq Stored', overlapped \subseteq overlapped',
         \A d \in Deposits : UserOf(d) \in UsersOf(taken[r]) \ overlapped'
                               => (d \in Creditable' <=> d \in Creditable),
         \A d \in taken[r] \cap Deposits :
           d \in processed' \ processed => UserOf(d) \in overlapped'
  PROVE  WorkerSound(r)'
<1>1. WorkerSound(r)
  BY DEF WalletIInv
<1>2. Todo(r)' = Todo(r) /\ Event(r)' = Event(r) /\ User(r)' = User(r)
  BY <1>1, SameEventFacts DEF WorkerSound, SameWork
<1>3. ASSUME NEW p \in Payees \ overlapped', held'[r][p] # NotRead
      PROVE  held'[r][p] = Worth(Creditable' \cup credits'[r], p)
  <2>1. held[r][p] = Worth(Creditable \cup credits[r], p) /\ p \in UsersOf(taken[r])
    BY <1>1, <1>3 DEF WorkerSound, SameWork
  <2>2. Creditable \subseteq Deposits /\ Creditable' \subseteq Deposits
    BY DEF Creditable, Deposits
  <2>3. {d \in Creditable' \cup credits'[r] : UserOf(d) = p}
          = {d \in Creditable \cup credits[r] : UserOf(d) = p}
    BY <1>3, <2>1, <2>2 DEF SameWork
  <2> QED  BY <2>1, <2>3 DEF Worth, SameWork
<1>4. \A d \in taken'[r] \cap Deposits : UserOf(d) \notin overlapped' => d \notin processed'
  BY <1>1 DEF WorkerSound, SameWork
<1>5. Sorted(r)'
  <2>1. Done(r)' = Done(r)
    BY <1>2 DEF Done, SameWork
  <2> QED  BY <1>1, <2>1 DEF WorkerSound, Sorted, SameWork, Deposits
<1>6. /\ workAt'[r] = "idle" => taken'[r] = {}
      /\ taken'[r] \subseteq Stored' /\ marks'[r] \subseteq taken'[r]
      /\ credits'[r] \subseteq taken'[r]
      /\ workAt'[r] \in {"found", "marked", "handled"} => Todo(r)' # {}
      /\ workAt'[r] \in {"found", "marked"} =>
           Event(r)' \in Deposits /\ held'[r][User(r)'] # NotRead
      /\ \A d \in credits'[r] : held'[r][UserOf(d)] # NotRead
      /\ \A p \in Payees : held'[r][p] # NotRead => p \in UsersOf(taken'[r])
  BY <1>1, <1>2 DEF WorkerSound, SameWork
<1> QED  BY <1>3, <1>4, <1>5, <1>6 DEF WorkerSound

\* A step of one worker that commits nothing and loads nothing new.
LEMMA WorkerMovesFacts ==
  ASSUME WalletIInv, NEW w \in Workers, UNCHANGED <<arrived, store>>,
         WalletTypeOK', \A r \in Workers \ {w} : SameWork(r),
         taken'[w] \subseteq taken[w], WorkerSound(w)'
  PROVE  WalletIInv'
<1>1. UNCHANGED <<balance, processed, overlapped, Creditable>>
  BY DEF store, Creditable, Deposits
<1>2. \A r \in Workers \ {w} : WorkerSound(r)'
  BY <1>1, UndisturbedFacts DEF Stored
<1>3. UsersApart'
  <2>1. \A r \in Workers : taken'[r] \subseteq taken[r]
    BY DEF SameWork
  <2>2. \A r \in Workers : UsersOf(taken'[r]) \subseteq UsersOf(taken[r])
    BY <2>1 DEF UsersOf
  <2> QED  BY <1>1, <2>2 DEF WalletIInv, UsersApart
<1> QED  BY <1>1, <1>2, <1>3 DEF WalletIInv, ArrivedType, CreditsLostOnlyToOverlap

\* Ending a task keeps the types and the other workers, and leaves nothing behind.
LEMMA EndsWorkFacts ==
  ASSUME WalletTypeOK, NEW w \in Workers, EndsWork(w)
  PROVE  /\ workAt' \in [Workers -> {"idle", "next", "found", "marked", "handled"}]
         /\ bulk' \in [Workers -> BOOLEAN]
         /\ taken' \in [Workers -> SUBSET Events] /\ marks' \in [Workers -> SUBSET Events]
         /\ errors' \in [Workers -> SUBSET Events]
         /\ credits' \in [Workers -> SUBSET Deposits]
         /\ skipped' \in [Workers -> SUBSET Deposits]
         /\ held' \in [Workers -> [Payees -> Nat \cup {NotRead}]]
         /\ accountTo' \in [Workers -> [Accounts -> {"same"} \cup Verdicts]]
         /\ taken'[w] = {} /\ WorkerSound(w)'
         /\ \A r \in Workers \ {w} : SameWork(r)
<1>1. /\ workAt' \in [Workers -> {"idle", "next", "found", "marked", "handled"}]
      /\ bulk' \in [Workers -> BOOLEAN]
      /\ taken' \in [Workers -> SUBSET Events] /\ marks' \in [Workers -> SUBSET Events]
      /\ errors' \in [Workers -> SUBSET Events]
  BY DEF WalletTypeOK, EndsWork, Moving
<1>2. credits' \in [Workers -> SUBSET Deposits] /\ skipped' \in [Workers -> SUBSET Deposits]
  BY DEF WalletTypeOK, EndsWork
<1>3. held' \in [Workers -> [Payees -> Nat \cup {NotRead}]]
  <2>1. [p \in Payees |-> NotRead] \in [Payees -> Nat \cup {NotRead}]
    OBVIOUS
  <2> QED  BY <2>1 DEF WalletTypeOK, EndsWork
<1>4. accountTo' \in [Workers -> [Accounts -> {"same"} \cup Verdicts]]
  <2>1. [a \in Accounts |-> "same"] \in [Accounts -> {"same"} \cup Verdicts]
    OBVIOUS
  <2> QED  BY <2>1 DEF WalletTypeOK, EndsWork
<1>5. /\ workAt'[w] = "idle" /\ taken'[w] = {} /\ marks'[w] = {} /\ errors'[w] = {}
      /\ credits'[w] = {} /\ skipped'[w] = {} /\ \A p \in Payees : held'[w][p] = NotRead
  BY DEF WalletTypeOK, EndsWork, Moving
<1>6. WorkerSound(w)'
  <2>1. Sorted(w)'
    BY <1>5 DEF Sorted, Done
  <2> QED  BY <1>5, <2>1 DEF WorkerSound
<1>7. \A r \in Workers \ {w} : SameWork(r)
  BY DEF WalletTypeOK, EndsWork, Moving, SameWork
<1> QED  BY <1>1, <1>2, <1>3, <1>4, <1>5, <1>6, <1>7

LEMMA RollsBackFacts ==
  ASSUME WalletIInv, NEW w \in Workers, RollsBackWork(w)
  PROVE  WalletIInv'
<1>1. EndsWork(w) /\ UNCHANGED <<arrived, store>> /\ WalletTypeOK
  BY DEF RollsBackWork, WalletIInv
<1>2. WalletTypeOK'
  BY <1>1, EndsWorkFacts DEF WalletTypeOK, store, Stored
<1> QED  BY <1>1, <1>2, EndsWorkFacts, WorkerMovesFacts

\* Where a worker goes is its own.
LEMMA MovingFacts ==
  ASSUME WalletTypeOK, NEW w \in Workers,
         NEW p \in {"idle", "next", "found", "marked", "handled"}, Moving(w, p)
  PROVE  /\ workAt' \in [Workers -> {"idle", "next", "found", "marked", "handled"}]
         /\ workAt'[w] = p /\ \A r \in Workers \ {w} : workAt'[r] = workAt[r]
BY DEF WalletTypeOK, Moving

\* A session's first look at a user finds the committed balance, and nothing of the
\* user among what the session has credited.
LEMMA FindAccountFacts ==
  ASSUME WalletIInv, NEW w \in Workers, FindAccount(w)
  PROVE  WalletIInv'
<1> DEFINE e == Event(w)
           u == User(w)
<1>1. /\ workAt[w] = "next" /\ Todo(w) # {} /\ e \in Deposits /\ Moving(w, "found")
      /\ held' = [held EXCEPT ![w][u] = IF @ = NotRead THEN balance[u] ELSE @]
      /\ UNCHANGED <<arrived, store, bulk, taken, marks, errors, credits, skipped, accountTo>>
  BY DEF FindAccount, Facing
<1>2. WalletTypeOK /\ WorkerSound(w)
  BY DEF WalletIInv
<1>3. /\ e \in Todo(w) /\ e \in taken[w] /\ u \in Payees /\ u = UserOf(e)
      /\ u \in UsersOf(taken[w])
  BY <1>1, EventFacts, DepositFacts DEF User, TargetOf, UserOf, UsersOf
<1>4. /\ workAt' \in [Workers -> {"idle", "next", "found", "marked", "handled"}]
      /\ workAt'[w] = "found" /\ \A r \in Workers \ {w} : workAt'[r] = workAt[r]
  BY <1>1, <1>2, MovingFacts
<1>5. /\ balance[u] \in Nat /\ held \in [Workers -> [Payees -> Nat \cup {NotRead}]]
      /\ UNCHANGED <<balance, processed, overlapped, Creditable>>
  BY <1>1, <1>2, <1>3 DEF WalletTypeOK, store, Creditable, Deposits
<1> DEFINE n == IF held[w][u] = NotRead THEN balance[u] ELSE held[w][u]
<1>6. /\ held' \in [Workers -> [Payees -> Nat \cup {NotRead}]]
      /\ held'[w][u] = n /\ \A p \in Payees \ {u} : held'[w][p] = held[w][p]
      /\ \A r \in Workers \ {w} : held'[r] = held[r]
  <2> HIDE DEF u
  <2> QED  BY <1>1, <1>3, <1>5
<1>7. n # NotRead
  BY <1>5 DEF NotRead
<1>8. WalletTypeOK'
  BY <1>1, <1>2, <1>4, <1>6 DEF WalletTypeOK, store, Stored
<1>9. \A r \in Workers \ {w} : SameWork(r)
  BY <1>1, <1>4, <1>6 DEF SameWork
<1>10. Todo(w)' = Todo(w) /\ Event(w)' = e /\ User(w)' = u
  BY <1>1, SameEventFacts
<1>11. ASSUME NEW p \in Payees \ overlapped, held'[w][p] # NotRead
       PROVE  held'[w][p] = Worth(Creditable \cup credits[w], p)
  <2>1. CASE p = u /\ held[w][u] = NotRead
    <3>1. \A d \in credits[w] : UserOf(d) # p
      BY <1>2, <2>1 DEF WorkerSound
    <3>2. {d \in Creditable \cup credits[w] : UserOf(d) = p} = {d \in Creditable : UserOf(d) = p}
      BY <3>1
    <3>3. balance[p] = SumFunctionOnSet(Received, {d \in Creditable : UserOf(d) = p})
      BY <1>11 DEF WalletIInv, CreditsLostOnlyToOverlap, UserOf
    <3>4. held'[w][p] = balance[p]
      BY <1>6, <2>1
    <3> QED  BY <3>2, <3>3, <3>4 DEF Worth
  <2>2. CASE ~(p = u /\ held[w][u] = NotRead)
    <3>1. held'[w][p] = held[w][p]
      BY <1>6, <2>2
    <3> QED  BY <1>2, <1>11, <3>1 DEF WorkerSound
  <2> QED  BY <2>1, <2>2
<1>12. \A p \in Payees : held'[w][p] # NotRead => p \in UsersOf(taken[w])
  BY <1>2, <1>3, <1>6 DEF WorkerSound
<1>13. \A d \in credits[w] : held'[w][UserOf(d)] # NotRead
  <2> SUFFICES ASSUME NEW d \in credits[w] PROVE held'[w][UserOf(d)] # NotRead
    OBVIOUS
  <2>1. UserOf(d) \in Payees /\ held[w][UserOf(d)] # NotRead
    BY <1>2, DepositFacts DEF WorkerSound, WalletTypeOK
  <2> HIDE DEF n, u
  <2> QED  BY <1>6, <1>7, <2>1
<1> HIDE DEF n
<1>14. WorkerSound(w)'
  <2>1. /\ taken'[w] \subseteq Stored' /\ marks'[w] \subseteq taken'[w]
        /\ credits'[w] \subseteq taken'[w]
        /\ \A d \in taken'[w] \cap Deposits : UserOf(d) \notin overlapped' => d \notin processed'
    BY <1>1, <1>2, <1>5 DEF WorkerSound, Stored
  <2>4. Sorted(w)'
    BY <1>1, <1>2, <1>4 DEF WorkerSound, Sorted, Done, Deposits
  <2>2. /\ Todo(w)' # {} /\ Event(w)' \in Deposits /\ held'[w][User(w)'] # NotRead
    BY <1>1, <1>6, <1>7, <1>10
  <2>3. /\ \A d \in credits'[w] : held'[w][UserOf(d)] # NotRead
        /\ \A p \in Payees : held'[w][p] # NotRead => p \in UsersOf(taken'[w])
        /\ \A p \in Payees \ overlapped' :
             held'[w][p] # NotRead => held'[w][p] = Worth(Creditable' \cup credits'[w], p)
    BY <1>1, <1>5, <1>11, <1>12, <1>13
  <2> QED  BY <1>4, <2>1, <2>2, <2>3, <2>4 DEF WorkerSound
<1>15. taken'[w] \subseteq taken[w] /\ UNCHANGED <<arrived, store>>
  BY <1>1
<1> QED  BY <1>8, <1>9, <1>14, <1>15, WorkerMovesFacts

\* A worker goes on with the same event, its memory of balances and credits as it was;
\* a deposit that it is done with in such a step it has skipped.
LEMMA GoesOnFacts ==
  ASSUME WalletIInv, NEW w \in Workers, UNCHANGED <<arrived, store>>,
         NEW p \in {"next", "found", "marked", "handled"}, Moving(w, p),
         UNCHANGED <<bulk, taken, marks, errors, credits, held>>,
         skipped' \in [Workers -> SUBSET Deposits],
         skipped'[w] = IF p = "handled" THEN skipped[w] \cup ({Event(w)} \cap Deposits)
                                        ELSE skipped[w],
         \A r \in Workers \ {w} : skipped'[r] = skipped[r],
         accountTo' \in [Workers -> [Accounts -> {"same"} \cup Verdicts]],
         \A r \in Workers \ {w} : accountTo'[r] = accountTo[r],
         Todo(w) # {}, workAt[w] # "handled",
         p \in {"found", "marked"} => Event(w) \in Deposits /\ held[w][User(w)] # NotRead
  PROVE  WalletIInv'
<1>1. WalletTypeOK /\ WorkerSound(w)
  BY DEF WalletIInv
<1>2. /\ workAt' \in [Workers -> {"idle", "next", "found", "marked", "handled"}]
      /\ workAt'[w] = p /\ \A r \in Workers \ {w} : workAt'[r] = workAt[r]
  BY <1>1, MovingFacts
<1>3. WalletTypeOK'
  BY <1>1, <1>2 DEF WalletTypeOK, store, Stored
<1>4. \A r \in Workers \ {w} : SameWork(r)
  BY <1>2 DEF SameWork
<1>5. Todo(w)' = Todo(w) /\ Event(w)' = Event(w) /\ User(w)' = User(w)
  BY SameEventFacts
<1>6. Sorted(w)'
  <2>0. PICK e : e = Event(w)
    OBVIOUS
  <2>1. e \notin marks[w] /\ Done(w) = marks[w]
    BY <2>0, EventFacts DEF Todo, Done
  <2>2. Done(w)' = IF p = "handled" THEN marks[w] \cup {e} ELSE marks[w]
    BY <1>2, <1>5, <2>0 DEF Done
  <2>3. /\ errors[w] \subseteq marks[w] /\ credits[w] \subseteq marks[w]
        /\ skipped[w] \subseteq marks[w]
        /\ \A d \in marks[w] \cap Deposits :
             d \in credits[w] <=> d \notin errors[w] \cup skipped[w]
    BY <1>1, <2>1 DEF WorkerSound, Sorted
  <2>4. UNCHANGED Deposits /\ errors'[w] = errors[w] /\ credits'[w] = credits[w]
        /\ marks'[w] = marks[w]
    BY DEF Deposits
  <2>5. CASE p = "handled"
    <3>1. Done(w)' = marks[w] \cup {e} /\ skipped'[w] = skipped[w] \cup ({e} \cap Deposits)
      BY <2>0, <2>2, <2>5
    <3> QED  BY <2>1, <2>3, <2>4, <3>1 DEF Sorted
  <2>6. CASE p # "handled"
    <3>1. Done(w)' = marks[w] /\ skipped'[w] = skipped[w]
      BY <2>2, <2>6
    <3> QED  BY <2>3, <2>4, <3>1 DEF Sorted
  <2> QED  BY <2>5, <2>6
<1>8. WorkerSound(w)'
  <2>1. Creditable' = Creditable
    BY DEF Creditable, Deposits, store
  <2> QED  BY <1>1, <1>2, <1>5, <1>6, <2>1 DEF WorkerSound, Stored, store, Worth
<1>7. taken'[w] \subseteq taken[w]
  OBVIOUS
<1> QED  BY <1>3, <1>4, <1>7, <1>8, WorkerMovesFacts

LEMMA MarkFundedFacts ==
  ASSUME WalletIInv, NEW w \in Workers, MarkFunded(w)
  PROVE  WalletIInv'
<1>1. /\ workAt[w] = "found" /\ Todo(w) # {} /\ Moving(w, "marked")
      /\ accountTo' = [accountTo EXCEPT ![w][TargetOf(w)] = FundingStatus(Event(w))]
      /\ UNCHANGED <<arrived, store, bulk, taken, marks, errors, credits, skipped, held>>
  BY DEF MarkFunded, Facing
<1>2. Event(w) \in Deposits /\ held[w][User(w)] # NotRead
  BY <1>1 DEF WalletIInv, WorkerSound
<1>3. TargetOf(w) \in Accounts /\ FundingStatus(Event(w)) \in {"same"} \cup Verdicts
  BY <1>2, DepositFacts DEF TargetOf, FundingStatus, Verdicts
<1>4. accountTo \in [Workers -> [Accounts -> {"same"} \cup Verdicts]]
  BY DEF WalletIInv, WalletTypeOK
<1>5. /\ accountTo' \in [Workers -> [Accounts -> {"same"} \cup Verdicts]]
      /\ \A r \in Workers \ {w} : accountTo'[r] = accountTo[r]
  BY <1>1, <1>3, <1>4
<1>6. skipped' \in [Workers -> SUBSET Deposits]
  BY <1>1 DEF WalletIInv, WalletTypeOK
<1> QED  BY <1>1, <1>2, <1>5, <1>6, GoesOnFacts

LEMMA HandleOtherFacts ==
  ASSUME WalletIInv, NEW w \in Workers, HandleOther(w)
  PROVE  WalletIInv'
<1>1. /\ workAt[w] = "next" /\ Todo(w) # {} /\ Moving(w, "handled")
      /\ UNCHANGED <<arrived, store, bulk, taken, marks, errors, credits, held, accountTo>>
  BY DEF HandleOther, Facing
<1>2. accountTo' \in [Workers -> [Accounts -> {"same"} \cup Verdicts]]
  BY <1>1 DEF WalletIInv, WalletTypeOK
<1>3. skipped' = [skipped EXCEPT ![w] = @ \cup ({Event(w)} \cap Deposits)]
  BY DEF HandleOther
<1>4. skipped \in [Workers -> SUBSET Deposits]
  BY DEF WalletIInv, WalletTypeOK
<1>5. /\ skipped' \in [Workers -> SUBSET Deposits]
      /\ skipped'[w] = skipped[w] \cup ({Event(w)} \cap Deposits)
      /\ \A r \in Workers \ {w} : skipped'[r] = skipped[r]
  <2>1. PICK S \in SUBSET Deposits : S = {Event(w)} \cap Deposits
    OBVIOUS
  <2> QED  BY <1>3, <1>4, <2>1
<1> QED  BY <1>1, <1>2, <1>5, GoesOnFacts

\* The sum made in memory is right, because the deposit is not due before it is committed.
LEMMA CreditUserFacts ==
  ASSUME WalletIInv, NEW w \in Workers, CreditUser(w)
  PROVE  WalletIInv'
<1>0. PICK e, u : e = Event(w) /\ u = User(w)
  OBVIOUS
<1>1. /\ workAt[w] = "marked" /\ Todo(w) # {} /\ Moving(w, "handled")
      /\ held' = [held EXCEPT ![w][u] = @ + Received[e]]
      /\ credits' = [credits EXCEPT ![w] = @ \cup {e}]
      /\ UNCHANGED <<arrived, store, bulk, taken, marks, errors, skipped, accountTo>>
  BY <1>0 DEF CreditUser, Facing
<1>2. WalletTypeOK /\ WorkerSound(w)
  BY DEF WalletIInv
<1>3. /\ e \in Todo(w) /\ e \in taken[w] /\ e \in Deposits /\ e \notin marks[w]
      /\ u \in Payees /\ u = UserOf(e) /\ held[w][u] # NotRead /\ Received[e] \in Nat
  <2>1. Event(w) \in Deposits /\ held[w][User(w)] # NotRead
    BY <1>1, <1>2 DEF WorkerSound
  <2> QED  BY <1>0, <1>1, <2>1, EventFacts, DepositFacts DEF User, TargetOf, UserOf, Todo
<1>4. /\ workAt' \in [Workers -> {"idle", "next", "found", "marked", "handled"}]
      /\ workAt'[w] = "handled" /\ \A r \in Workers \ {w} : workAt'[r] = workAt[r]
  BY <1>1, <1>2, MovingFacts
<1>5. /\ held \in [Workers -> [Payees -> Nat \cup {NotRead}]] /\ held[w][u] \in Nat
      /\ credits \in [Workers -> SUBSET Deposits] /\ Creditable \in SUBSET Deposits
      /\ Done(w) = marks[w] /\ credits[w] \subseteq marks[w] /\ skipped[w] \subseteq marks[w]
      /\ UNCHANGED <<balance, processed, overlapped, Creditable>>
  BY <1>1, <1>2, <1>3 DEF WalletTypeOK, WorkerSound, Sorted, Done, store, Creditable, Deposits
<1>6. /\ held' \in [Workers -> [Payees -> Nat \cup {NotRead}]]
      /\ held'[w][u] = held[w][u] + Received[e]
      /\ \A p \in Payees \ {u} : held'[w][p] = held[w][p]
      /\ \A r \in Workers \ {w} : held'[r] = held[r]
  BY <1>1, <1>3, <1>5
<1>7. /\ credits' \in [Workers -> SUBSET Deposits] /\ credits'[w] = credits[w] \cup {e}
      /\ \A r \in Workers \ {w} : credits'[r] = credits[r]
  BY <1>1, <1>3, <1>5
<1>8. WalletTypeOK'
  BY <1>1, <1>2, <1>4, <1>6, <1>7 DEF WalletTypeOK, store, Stored
<1>9. \A r \in Workers \ {w} : SameWork(r)
  BY <1>1, <1>4, <1>6, <1>7 DEF SameWork
<1>10. Todo(w)' = Todo(w) /\ Event(w)' = e
  BY <1>0, <1>1, SameEventFacts
<1>11. held'[w][u] # NotRead
  BY <1>3, <1>5, <1>6 DEF NotRead
<1>12. ASSUME NEW p \in Payees \ overlapped, held'[w][p] # NotRead
       PROVE  held'[w][p] = Worth(Creditable \cup credits'[w], p)
  <2> DEFINE S == Creditable \cup credits[w]
  <2>1. S \in SUBSET Deposits /\ Creditable \cup credits'[w] = S \cup {e}
    BY <1>5, <1>7
  <2>2. CASE p = u
    <3>1. e \notin S
      <4>1. e \notin processed
        BY <1>2, <1>3, <1>12, <2>2 DEF WorkerSound
      <4> QED  BY <1>3, <1>5, <4>1 DEF Creditable
    <3>2. held[w][u] = Worth(S, u)
      BY <1>2, <1>3, <1>12, <2>2 DEF WorkerSound
    <3>3. Worth(S \cup {e}, u) = Received[e] + Worth(S, u) /\ Worth(S, u) \in Nat
      <4> HIDE DEF S
      <4> QED  BY <1>3, <2>1, <3>1, WorthAddFacts, WorthFacts
    <3>4. held'[w][p] = held[w][u] + Received[e] /\ held[w][u] \in Nat
      BY <1>5, <1>6, <2>2
    <3>5. Worth(Creditable \cup credits'[w], p) = Worth(S \cup {e}, u)
      BY <2>1, <2>2
    <3> HIDE DEF S
    <3>6. Received[e] + Worth(S, u) = Worth(S, u) + Received[e]
      BY <1>3, <3>3
    <3> QED  BY <3>2, <3>3, <3>4, <3>5, <3>6
  <2>3. CASE p # u
    <3>1. held'[w][p] = held[w][p]
      BY <1>6, <2>3
    <3>2. held[w][p] = Worth(S, p)
      BY <1>2, <1>12, <3>1 DEF WorkerSound
    <3>3. Worth(S \cup {e}, p) = Worth(S, p)
      <4>1. {d \in S \cup {e} : UserOf(d) = p} = {d \in S : UserOf(d) = p}
        BY <1>3, <2>3
      <4> QED  BY <4>1 DEF Worth
    <3> QED  BY <2>1, <3>1, <3>2, <3>3
  <2> QED  BY <2>2, <2>3
<1>13. \A d \in credits'[w] : held'[w][UserOf(d)] # NotRead
  <2> SUFFICES ASSUME NEW d \in credits'[w] PROVE held'[w][UserOf(d)] # NotRead
    OBVIOUS
  <2>1. d \in Deposits /\ UserOf(d) \in Payees
    BY <1>3, <1>5, <1>7, DepositFacts
  <2>2. d = e \/ held[w][UserOf(d)] # NotRead
    BY <1>2, <1>7 DEF WorkerSound
  <2> QED  BY <1>3, <1>6, <1>11, <2>1, <2>2
<1>14. \A p \in Payees : held'[w][p] # NotRead => p \in UsersOf(taken[w])
  BY <1>2, <1>3, <1>6 DEF WorkerSound
<1>15. WorkerSound(w)'
  <2>1. /\ taken'[w] \subseteq Stored' /\ marks'[w] \subseteq taken'[w]
        /\ \A d \in taken'[w] \cap Deposits : UserOf(d) \notin overlapped' => d \notin processed'
    BY <1>1, <1>2, <1>5 DEF WorkerSound, Stored
  <2>2. credits'[w] \subseteq taken'[w]
    BY <1>1, <1>2, <1>3, <1>7 DEF WorkerSound
  <2>3. /\ \A d \in credits'[w] : held'[w][UserOf(d)] # NotRead
        /\ \A p \in Payees : held'[w][p] # NotRead => p \in UsersOf(taken'[w])
        /\ \A p \in Payees \ overlapped' :
             held'[w][p] # NotRead => held'[w][p] = Worth(Creditable' \cup credits'[w], p)
    BY <1>1, <1>5, <1>12, <1>13, <1>14
  <2>4. Todo(w)' # {}
    BY <1>1, <1>10
  <2>5. Sorted(w)'
    <3>1. Done(w)' = marks[w] \cup {e}
      BY <1>1, <1>4, <1>10 DEF Done
    <3>2. /\ errors[w] \subseteq marks[w]
          /\ \A d \in marks[w] \cap Deposits :
               d \in credits[w] <=> d \notin errors[w] \cup skipped[w]
      BY <1>2, <1>5 DEF WorkerSound, Sorted
    <3> QED  BY <1>1, <1>3, <1>5, <1>7, <3>1, <3>2 DEF Sorted, Deposits
  <2> QED  BY <1>4, <2>1, <2>2, <2>3, <2>4, <2>5 DEF WorkerSound
<1>16. taken'[w] \subseteq taken[w] /\ UNCHANGED <<arrived, store>>
  BY <1>1
<1> QED  BY <1>8, <1>9, <1>15, <1>16, WorkerMovesFacts

\* Marking the current event, processed or failed, ends what the worker does with it.
LEMMA MarksFacts ==
  ASSUME WalletIInv, NEW w \in Workers, Todo(w) # {}, workAt[w] \in {"handled", "next"},
         UNCHANGED <<arrived, store, bulk, taken, credits, skipped, held, accountTo>>,
         marks' = [marks EXCEPT ![w] = @ \cup {Event(w)}],
         workAt' \in [Workers -> {"idle", "next", "found", "marked", "handled"}],
         workAt'[w] = "next", \A r \in Workers \ {w} : workAt'[r] = workAt[r],
         errors' \in [Workers -> SUBSET Events],
         errors'[w] = IF workAt[w] = "handled" THEN errors[w] ELSE errors[w] \cup {Event(w)},
         \A r \in Workers \ {w} : errors'[r] = errors[r]
  PROVE  WalletIInv'
<1>0. PICK e : e = Event(w)
  OBVIOUS
<1>1. WalletTypeOK /\ WorkerSound(w)
  BY DEF WalletIInv
<1>2. e \in taken[w] /\ e \in Events
  BY <1>0, EventFacts
<1>3. /\ marks' \in [Workers -> SUBSET Events] /\ marks'[w] = marks[w] \cup {e}
      /\ \A r \in Workers \ {w} : marks'[r] = marks[r]
  BY <1>0, <1>1, <1>2 DEF WalletTypeOK
<1>4. WalletTypeOK'
  BY <1>1, <1>3 DEF WalletTypeOK, store, Stored
<1>5. \A r \in Workers \ {w} : SameWork(r)
  BY <1>3 DEF SameWork
<1>6. WorkerSound(w)'
  <2>0. Sorted(w)'
    <3>1. e \notin marks[w] /\ Done(w)' = marks[w] \cup {e} /\ Sorted(w)
      BY <1>0, <1>1, <1>3, EventFacts DEF Todo, Done, WorkerSound
    <3>2. CASE workAt[w] = "handled"
      <4>1. Done(w) = marks[w] \cup {e} /\ errors'[w] = errors[w]
        BY <1>0, <3>2 DEF Done
      <4> QED  BY <1>3, <3>1, <4>1 DEF Sorted, Deposits
    <3>3. CASE workAt[w] # "handled"
      <4>1. Done(w) = marks[w] /\ errors'[w] = errors[w] \cup {e}
        BY <1>0, <3>3 DEF Done
      <4> QED  BY <1>3, <3>1, <4>1 DEF Sorted, Deposits
    <3> QED  BY <3>2, <3>3
  <2>1. /\ taken'[w] \subseteq Stored' /\ marks'[w] \subseteq taken'[w]
        /\ credits'[w] \subseteq taken'[w]
    BY <1>0, <1>1, <1>2, <1>3 DEF WorkerSound, Stored
  <2>2. /\ \A d \in credits'[w] : held'[w][UserOf(d)] # NotRead
        /\ \A p \in Payees : held'[w][p] # NotRead => p \in UsersOf(taken'[w])
        /\ \A p \in Payees \ overlapped' :
             held'[w][p] # NotRead => held'[w][p] = Worth(Creditable' \cup credits'[w], p)
        /\ \A d \in taken'[w] \cap Deposits : UserOf(d) \notin overlapped' => d \notin processed'
    BY <1>1 DEF WorkerSound, store, Worth, Creditable, Deposits
  <2> QED  BY <2>0, <2>1, <2>2 DEF WorkerSound
<1> QED  BY <1>4, <1>5, <1>6, WorkerMovesFacts

LEMMA MarkProcessedFacts ==
  ASSUME WalletIInv, NEW w \in Workers, MarkProcessed(w)
  PROVE  WalletIInv'
<1>1. /\ workAt[w] = "handled" /\ Todo(w) # {} /\ Moving(w, "next")
      /\ marks' = [marks EXCEPT ![w] = @ \cup {Event(w)}]
      /\ UNCHANGED <<arrived, store, bulk, taken, errors, credits, skipped, held, accountTo>>
  BY DEF MarkProcessed, Facing
<1>2. errors' \in [Workers -> SUBSET Events]
  BY <1>1 DEF WalletIInv, WalletTypeOK
<1>3. WalletTypeOK
  BY DEF WalletIInv
<1> QED  BY <1>1, <1>2, <1>3, MovingFacts, MarksFacts

LEMMA MarkFailedFacts ==
  ASSUME WalletIInv, NEW w \in Workers, MarkFailed(w)
  PROVE  WalletIInv'
<1>1. /\ workAt[w] = "next" /\ Todo(w) # {}
      /\ marks' = [marks EXCEPT ![w] = @ \cup {Event(w)}]
      /\ errors' = [errors EXCEPT ![w] = @ \cup {Event(w)}]
      /\ UNCHANGED <<arrived, store, workAt, bulk, taken, credits, skipped, held, accountTo>>
  BY DEF MarkFailed, Facing
<1>2. WalletTypeOK /\ Event(w) \in Events
  BY <1>1, EventFacts DEF WalletIInv
<1>3. /\ errors' \in [Workers -> SUBSET Events] /\ errors'[w] = errors[w] \cup {Event(w)}
      /\ \A r \in Workers \ {w} : errors'[r] = errors[r]
      /\ workAt' \in [Workers -> {"idle", "next", "found", "marked", "handled"}]
  BY <1>1, <1>2 DEF WalletTypeOK
<1> QED  BY <1>1, <1>3, MarksFacts

\* What a worker loads is unprocessed, and who shares a user with it is known from then on.
LEMMA LoadFacts ==
  ASSUME WalletIInv, NEW w \in Workers, NEW events \in SUBSET Unprocessed,
         NEW b \in BOOLEAN, Load(w, events, b)
  PROVE  WalletIInv'
<1>1. /\ workAt[w] = "idle" /\ Moving(w, "next")
      /\ bulk' = [bulk EXCEPT ![w] = b] /\ taken' = [taken EXCEPT ![w] = events]
      /\ overlapped' = overlapped \cup
           (UsersOf(events) \cap UNION {UsersOf(taken[q]) : q \in Workers \ {w}})
      /\ UNCHANGED <<arrived, opened, opening, accountIs, balance, processed, failures,
                     unknown, marks, errors, credits, skipped, held, accountTo>>
  BY DEF Load
<1>2. WalletTypeOK /\ WorkerSound(w)
  BY DEF WalletIInv
<1>3. events \subseteq Stored /\ events \in SUBSET Events /\ events \cap processed = {}
  BY DEF Unprocessed, Stored
<1>4. /\ workAt' \in [Workers -> {"idle", "next", "found", "marked", "handled"}]
      /\ workAt'[w] = "next" /\ \A r \in Workers \ {w} : workAt'[r] = workAt[r]
  BY <1>1, <1>2, MovingFacts
<1>5. /\ taken' \in [Workers -> SUBSET Events] /\ taken'[w] = events
      /\ \A r \in Workers \ {w} : taken'[r] = taken[r]
  BY <1>1, <1>2, <1>3 DEF WalletTypeOK
<1>6. /\ bulk' \in [Workers -> BOOLEAN] /\ \A r \in Workers \ {w} : bulk'[r] = bulk[r]
  BY <1>1, <1>2 DEF WalletTypeOK
<1>7. UsersOf(events) \subseteq Payees
  BY DepositFacts DEF UsersOf, UserOf
<1>8. overlapped \subseteq overlapped' /\ overlapped' \in SUBSET Payees
  BY <1>1, <1>2, <1>7 DEF WalletTypeOK
<1>9. WalletTypeOK'
  BY <1>1, <1>2, <1>4, <1>5, <1>6, <1>8 DEF WalletTypeOK, Stored
<1>10. ASSUME NEW r \in Workers \ {w} PROVE WorkerSound(r)'
  <2>1. SameWork(r)
    BY <1>1, <1>4, <1>5, <1>6 DEF SameWork
  <2> QED  BY <1>1, <1>8, <2>1, UndisturbedFacts DEF Stored, Creditable, Deposits
<1>11. WorkerSound(w)'
  <2>1. /\ marks[w] = {} /\ errors[w] = {} /\ credits[w] = {} /\ skipped[w] = {}
        /\ \A p \in Payees : held[w][p] = NotRead
    BY <1>1, <1>2 DEF WorkerSound, Sorted, Done, UsersOf
  <2>2. Sorted(w)'
    BY <1>1, <1>4, <2>1 DEF Sorted, Done
  <2> QED  BY <1>1, <1>3, <1>4, <1>5, <2>1, <2>2 DEF WorkerSound, Stored
<1>12. UsersApart'
  <2> SUFFICES ASSUME NEW r \in Workers, NEW q \in Workers \ {r}
               PROVE  UsersOf(taken'[r]) \cap UsersOf(taken'[q]) \subseteq overlapped'
    BY DEF UsersApart, UsersOf
  <2>1. CASE r # w /\ q # w
    BY <1>5, <1>8, <2>1 DEF WalletIInv, UsersApart
  <2>2. CASE r = w
    BY <1>1, <1>5, <2>2
  <2>3. CASE q = w
    BY <1>1, <1>5, <2>3
  <2> QED  BY <2>1, <2>2, <2>3
<1>13. ArrivedType' /\ CreditsLostOnlyToOverlap'
  BY <1>1, <1>8 DEF WalletIInv, ArrivedType, CreditsLostOnlyToOverlap, Creditable, Deposits
<1> QED  BY <1>9, <1>10, <1>11, <1>12, <1>13 DEF WalletIInv

\* What a worker commits is what it credited, on top of what was due: nobody whose
\* users it does not share has committed anything for them since it read their balance.
LEMMA CommitWorkFacts ==
  ASSUME WalletIInv, NEW w \in Workers, CommitWork(w)
  PROVE  WalletIInv'
<1>1. /\ workAt[w] = "next" /\ processed' = processed \cup marks[w]
      /\ failures' = failures \cup errors[w] /\ unknown' = unknown \cup skipped[w]
      /\ balance' = [p \in Payees |-> IF p \in UsersOf(credits[w]) THEN held[w][p] ELSE balance[p]]
      /\ accountIs' = [a \in Accounts |-> IF accountTo[w][a] = "same" THEN accountIs[a]
                                                                    ELSE accountTo[w][a]]
      /\ EndsWork(w)
      /\ UNCHANGED <<arrived, opened, opening, overlapped>>
  BY DEF CommitWork, MarkedBy
<1>2. WalletTypeOK /\ WorkerSound(w)
  BY DEF WalletIInv
<1>3. /\ credits[w] \subseteq marks[w] /\ credits[w] \subseteq taken[w] /\ credits[w] \subseteq Deposits
      /\ marks[w] \subseteq taken[w] /\ taken[w] \subseteq Stored /\ errors[w] \subseteq marks[w]
      /\ skipped[w] \subseteq marks[w] /\ skipped[w] \subseteq Deposits
      /\ \A d \in marks[w] \cap Deposits : d \in credits[w] <=> d \notin errors[w] \cup skipped[w]
  BY <1>1, <1>2 DEF WorkerSound, Sorted, Done, WalletTypeOK
<1>4. \A p \in UsersOf(credits[w]) : \E d \in credits[w] : UserOf(d) = p
  BY DEF UsersOf, UserOf
<1>5. \A p \in UsersOf(credits[w]) : p \in Payees /\ held[w][p] # NotRead
  BY <1>2, <1>3, <1>4, DepositFacts DEF WorkerSound
<1>6. WalletTypeOK'
  <2>1. balance' \in [Payees -> Nat]
    <3> SUFFICES ASSUME NEW p \in Payees
                 PROVE  (IF p \in UsersOf(credits[w]) THEN held[w][p] ELSE balance[p]) \in Nat
      BY <1>1
    <3> QED  BY <1>2, <1>5 DEF WalletTypeOK
  <2>2. accountIs' \in [Accounts -> {"absent", "active", "pending"} \cup Verdicts]
    <3> SUFFICES ASSUME NEW a \in Accounts
                 PROVE  (IF accountTo[w][a] = "same" THEN accountIs[a] ELSE accountTo[w][a])
                          \in {"absent", "active", "pending"} \cup Verdicts
      BY <1>1
    <3>1. accountTo[w][a] \in {"same"} \cup Verdicts
      BY <1>2 DEF WalletTypeOK
    <3>2. accountIs[a] \in {"absent", "active", "pending"} \cup Verdicts
      BY <1>2 DEF WalletTypeOK
    <3> QED  BY <3>1, <3>2
  <2>3. /\ processed' \in SUBSET Stored' /\ failures' \in SUBSET processed'
        /\ unknown' \in SUBSET (Deposits \cap processed') /\ overlapped' \in SUBSET Payees
        /\ opened' \in SUBSET Accounts /\ opening' \in SUBSET Accounts
    BY <1>1, <1>2, <1>3 DEF WalletTypeOK, Stored
  <2> QED  BY <1>1, <1>2, <2>1, <2>2, <2>3, EndsWorkFacts DEF WalletTypeOK
<1>7. \A r \in Workers \ {w} : SameWork(r)
  BY <1>1, <1>2, EndsWorkFacts
<1>8. WorkerSound(w)' /\ taken'[w] = {}
  BY <1>1, <1>2, EndsWorkFacts
<1>9. ASSUME NEW r \in Workers \ {w} PROVE WorkerSound(r)'
  <2>1. UsersOf(taken[w]) \cap UsersOf(taken[r]) \subseteq overlapped
    BY DEF WalletIInv, UsersApart
  <2>2. \A d \in Deposits : UserOf(d) \in UsersOf(taken[r]) \ overlapped'
                              => (d \in Creditable' <=> d \in Creditable)
    <3> SUFFICES ASSUME NEW d \in Deposits, UserOf(d) \in UsersOf(taken[r]) \ overlapped'
                 PROVE  d \in Creditable' <=> d \in Creditable
      OBVIOUS
    <3>1. UserOf(d) \notin UsersOf(taken[w])
      BY <1>1, <2>1
    <3>2. d \notin taken[w]
      BY <3>1 DEF UsersOf, UserOf
    <3> QED  BY <1>1, <1>3, <3>2 DEF Creditable, Deposits
  <2>3. \A d \in taken[r] \cap Deposits : d \in processed' \ processed => UserOf(d) \in overlapped'
    <3> SUFFICES ASSUME NEW d \in taken[r] \cap Deposits, d \in marks[w]
                 PROVE  UserOf(d) \in overlapped
      BY <1>1
    <3>1. UserOf(d) \in UsersOf(taken[w]) /\ UserOf(d) \in UsersOf(taken[r])
      BY <1>3 DEF UsersOf, UserOf
    <3> QED  BY <2>1, <3>1
  <2>4. /\ \A e \in Stored : arrived'[e] = arrived[e]
        /\ Stored \subseteq Stored' /\ overlapped \subseteq overlapped'
    BY <1>1 DEF Stored
  <2> QED  BY <1>7, <2>2, <2>3, <2>4, UndisturbedFacts
<1>10. UsersApart'
  <2>1. \A r \in Workers : taken'[r] \subseteq taken[r]
    BY <1>7, <1>8 DEF SameWork
  <2>2. \A r \in Workers : UsersOf(taken'[r]) \subseteq UsersOf(taken[r])
    BY <2>1 DEF UsersOf
  <2> QED  BY <1>1, <2>2 DEF WalletIInv, UsersApart
<1>11. CreditsLostOnlyToOverlap'
  <2> SUFFICES ASSUME NEW p \in Payees \ overlapped
               PROVE  balance'[p] = Worth(Creditable', p)
    BY <1>1 DEF CreditsLostOnlyToOverlap, Worth, UserOf
  <2>0. Worth(Creditable', p) = Worth(Creditable \cup credits[w], p)
    <3> SUFFICES ASSUME NEW d \in Deposits, UserOf(d) = p
                 PROVE  d \in Creditable' <=> d \in Creditable \cup credits[w]
      <4>1. Creditable \subseteq Deposits /\ Creditable' \subseteq Deposits
        BY DEF Creditable, Deposits
      <4>2. {d \in Creditable' : UserOf(d) = p} = {d \in Creditable \cup credits[w] : UserOf(d) = p}
        BY <1>3, <4>1
      <4> QED  BY <4>2 DEF Worth
    <3>1. CASE d \in taken[w]
      <4>1. d \notin processed
        BY <1>2, <3>1 DEF WorkerSound
      <4>2. d \notin failures /\ d \notin unknown /\ d \notin Creditable
        BY <1>2, <4>1 DEF WalletTypeOK, Creditable
      <4> QED  BY <1>1, <1>3, <4>1, <4>2 DEF Creditable, Deposits
    <3>2. CASE d \notin taken[w]
      BY <1>1, <1>3, <3>2 DEF Creditable, Deposits
    <3> QED  BY <3>1, <3>2
  <2>1. CASE p \in UsersOf(credits[w])
    BY <1>1, <1>2, <1>5, <2>0, <2>1 DEF WorkerSound
  <2>2. CASE p \notin UsersOf(credits[w])
    <3>1. \A d \in credits[w] : UserOf(d) # p
      BY <1>3, <2>2 DEF UsersOf, UserOf
    <3>2. {d \in Creditable \cup credits[w] : UserOf(d) = p} = {d \in Creditable : Payee[Into[d]] = p}
      BY <3>1 DEF UserOf
    <3> QED  BY <1>1, <2>0, <2>2, <3>2 DEF WalletIInv, CreditsLostOnlyToOverlap, Worth
  <2> QED  BY <2>1, <2>2
<1>12. ArrivedType'
  BY <1>1 DEF WalletIInv, ArrivedType
<1> QED  BY <1>6, <1>8, <1>9, <1>10, <1>11, <1>12 DEF WalletIInv

\* A new event is none that a worker has loaded.
LEMMA EventArrivesFacts ==
  ASSUME WalletIInv, NEW e \in Events, Arrive(e), UNCHANGED <<store, work>>
  PROVE  WalletIInv'
<1>1. Arrive(e) /\ UNCHANGED <<store, work>>
  OBVIOUS
<1>2. /\ ArrivedType' /\ Stored \subseteq Stored'
      /\ \A f \in Stored : arrived'[f] = arrived[f]
  <2>1. arrived \in [Events -> 0..Cardinality(Events)]
    BY DEF WalletIInv, ArrivedType
  <2>2. \A f \in Stored : arrived'[f] = arrived[f]
    BY <1>1, <2>1 DEF Arrive, Stored
  <2> QED  BY <1>1, <2>1, <2>2, ArriveFacts DEF ArrivedType
<1>3. WalletTypeOK'
  BY <1>1, <1>2 DEF WalletIInv, WalletTypeOK, store, work
<1>4. \A r \in Workers : WorkerSound(r)'
  <2>1. \A r \in Workers : SameWork(r)
    BY <1>1 DEF SameWork, work
  <2> QED  BY <1>1, <1>2, <2>1, UndisturbedFacts DEF store, Creditable, Deposits
<1>5. UsersApart' /\ CreditsLostOnlyToOverlap'
  BY <1>1 DEF WalletIInv, UsersApart, CreditsLostOnlyToOverlap, Creditable, Deposits, store, work
<1> QED  BY <1>2, <1>3, <1>4, <1>5 DEF WalletIInv

\* Opening and storing accounts concerns no event.
LEMMA AccountStepFacts ==
  ASSUME WalletIInv, NEW a \in Accounts, AccountStep(a)
  PROVE  WalletIInv'
<1>1. UNCHANGED <<arrived, balance, processed, failures, unknown, overlapped, work>>
  BY DEF AccountStep, CreateUserVirtualAccount, CreateFundingAccount, Asks, StoreAccount, AccountLost
<1>2. /\ opened' \in SUBSET Accounts /\ opening' \in SUBSET Accounts
      /\ accountIs' \in [Accounts -> {"absent", "active", "pending"} \cup Verdicts]
  BY DEF AccountStep, CreateUserVirtualAccount, CreateFundingAccount, Asks, StoreAccount,
         AccountLost, FirstStatus, WalletIInv, WalletTypeOK
<1>3. WalletTypeOK'
  BY <1>1, <1>2 DEF WalletIInv, WalletTypeOK, work, Stored
<1>4. \A r \in Workers : WorkerSound(r)'
  <2>1. \A r \in Workers : SameWork(r)
    BY <1>1 DEF SameWork, work
  <2> QED  BY <1>1, <2>1, UndisturbedFacts DEF Stored, Creditable, Deposits
<1>5. ArrivedType' /\ UsersApart' /\ CreditsLostOnlyToOverlap'
  BY <1>1 DEF WalletIInv, ArrivedType, UsersApart, CreditsLostOnlyToOverlap, Creditable, Deposits, work
<1> QED  BY <1>3, <1>4, <1>5 DEF WalletIInv

LEMMA WalletNextFacts ==
  ASSUME WalletIInv, [WalletNext]_walletVars
  PROVE  WalletIInv'
<1>1. CASE UNCHANGED walletVars
  <2>1. \A r \in Workers : SameWork(r)
    BY <1>1 DEF SameWork, work, walletVars
  <2>2. \A r \in Workers : WorkerSound(r)'
    BY <1>1, <2>1, UndisturbedFacts DEF Stored, walletVars, store, Creditable, Deposits
  <2> QED  BY <1>1, <2>2 DEF WalletIInv, ArrivedType, WalletTypeOK, Stored, UsersApart,
                             CreditsLostOnlyToOverlap, Creditable, Deposits, walletVars, store, work
<1>2. ASSUME NEW e \in Events, EventArrives(e) PROVE WalletIInv'
  BY <1>2, EventArrivesFacts DEF EventArrives
<1>3. ASSUME NEW a \in Accounts, AccountStep(a) PROVE WalletIInv'
  BY <1>3, AccountStepFacts
<1>4. ASSUME NEW w \in Workers, WorkerStep(w) PROVE WalletIInv'
  <2>1. ASSUME NEW e \in Events, ProcessEvent(w, e) PROVE WalletIInv'
    <3>1. {e} \in SUBSET Unprocessed /\ Load(w, {e}, FALSE)
      BY <2>1 DEF ProcessEvent
    <3> QED  BY <3>1, LoadFacts
  <2>2. CASE ProcessPending(w)
    BY <2>2, LoadFacts DEF ProcessPending
  <2>3. CASE FindAccount(w)
    BY <2>3, FindAccountFacts
  <2>4. CASE HandleOther(w)
    BY <2>4, HandleOtherFacts
  <2>5. CASE MarkFunded(w)
    BY <2>5, MarkFundedFacts
  <2>6. CASE CreditUser(w)
    BY <2>6, CreditUserFacts
  <2>7. CASE MarkProcessed(w)
    BY <2>7, MarkProcessedFacts
  <2>8. CASE FailsOne(w) \/ WorkerLost(w)
    BY <2>8, RollsBackFacts DEF FailsOne, WorkerLost
  <2>9. CASE MarkFailed(w)
    BY <2>9, MarkFailedFacts
  <2>10. CASE CommitWork(w)
    BY <2>10, CommitWorkFacts
  <2> QED  BY <1>4, <2>1, <2>2, <2>3, <2>4, <2>5, <2>6, <2>7, <2>8, <2>9, <2>10 DEF WorkerStep
<1> QED  BY <1>1, <1>2, <1>3, <1>4 DEF WalletNext

LEMMA WalletInitFacts ==
  ASSUME InboxInit, WalletInit
  PROVE  WalletIInv
<1>1. Cardinality(Events) \in Nat
  BY DepositFacts, FS_CardinalityType
<1>2. ArrivedType
  BY <1>1 DEF InboxInit, ArrivedType
<1>3. WalletTypeOK
  BY DEF WalletInit, WalletTypeOK, NotRead
<1>4. \A w \in Workers : WorkerSound(w)
  BY DEF WalletInit, WorkerSound, Sorted, Done, Stored
<1>5. UsersApart
  BY DEF WalletInit, UsersApart, UsersOf
<1>6. CreditsLostOnlyToOverlap
  <2> SUFFICES ASSUME NEW p \in Payees
               PROVE  0 = SumFunctionOnSet(Received, {d \in Creditable : Payee[Into[d]] = p})
    BY DEF WalletInit, CreditsLostOnlyToOverlap
  <2>1. {d \in Creditable : Payee[Into[d]] = p} = {}
    BY DEF WalletInit, Creditable
  <2> QED  BY <2>1, SumEmpty
<1> QED  BY <1>2, <1>3, <1>4, <1>5, <1>6 DEF WalletIInv

THEOREM WalletInvariance == WalletSpec => []WalletIInv
<1>1. InboxInit /\ WalletInit => WalletIInv
  BY WalletInitFacts
<1>2. WalletIInv /\ [WalletNext]_walletVars => WalletIInv'
  BY WalletNextFacts
<1> QED  BY <1>1, <1>2, PTL DEF WalletSpec

\* However often events are delivered and tasks repeated, lost or run side by side, the
\* balance of a user whose deposits never were in two sessions at once is the sum of the
\* deposits whose handling was committed, each once, but for those that failed or came
\* before their account was stored.
THEOREM WalletCreditsLostOnlyToOverlap == WalletSpec => []CreditsLostOnlyToOverlap
<1>1. WalletIInv => CreditsLostOnlyToOverlap
  BY DEF WalletIInv
<1> QED  BY <1>1, WalletInvariance, PTL

CreditsExact ==
  \A p \in Payees :
    balance[p] = SumFunctionOnSet(Received, {d \in Creditable : Payee[Into[d]] = p})

\* One worker at a time never overlaps with another, so every user's balance is the sum
\* of the user's deposits done with, each once, however often events and tasks are
\* repeated; a deposit that failed, or came before its account was stored, is not in it.
THEOREM SerialCreditsExact ==
  ASSUME NEW w, Workers = {w}  PROVE WalletSpec => []CreditsExact
<1> DEFINE Alone == overlapped = {}
<1>1. WalletInit => Alone
  BY DEF WalletInit
<1>2. Alone /\ [WalletNext]_walletVars => Alone'
  <2> SUFFICES ASSUME Alone, [WalletNext]_walletVars PROVE Alone'
    OBVIOUS
  <2>1. ASSUME NEW events, NEW pending, Load(w, events, pending) PROVE Alone'
    BY <2>1 DEF Load
  <2> QED
    BY <2>1
    DEF WalletNext, walletVars, store, EventArrives, AccountStep, CreateUserVirtualAccount,
        CreateFundingAccount, Asks, StoreAccount, AccountLost, WorkerStep, ProcessEvent,
        ProcessPending, FindAccount, HandleOther, MarkFunded, CreditUser, MarkProcessed,
        FailsOne, RollsBackWork, MarkFailed, CommitWork, WorkerLost
<1>3. CreditsLostOnlyToOverlap /\ Alone => CreditsExact
  BY DEF CreditsLostOnlyToOverlap, CreditsExact
<1> HIDE DEF Alone
<1> QED  BY <1>1, <1>2, <1>3, WalletCreditsLostOnlyToOverlap, PTL DEF WalletSpec

-----------------------------------------------------------------------------
(* The bounds of the columns: what is locked never goes below 0, because a   *)
(* refund takes no more than that; a key lives no longer than it was given;  *)
(* no more codes are sent than registrations and logins may ask for.         *)
NatRow == [available : Int, locked : Nat, credits : Nat, debits : Nat]

ClosingBounds ==
  /\ shared \in SUBSET Tokens
  /\ row \in NatRow /\ paidBack \in [Tokens -> Nat]
  /\ closing \in [Closers -> {"none", "revoke", "expire"}]
  /\ rowRead \in [Closers -> BOOLEAN] /\ rowHeld \in [Closers -> NatRow]
  /\ paying \in [Closers -> [Tokens -> Nat]]

LEMMA NatRefundFacts ==
  ASSUME NEW a \in NatRow, NEW n \in Nat
  PROVE  Refunded(a, n) \in NatRow /\ RefundAmount(a, n) \in Nat
<1>1. a.available \in Int /\ a.locked \in Nat /\ a.credits \in Nat /\ a.debits \in Nat
  BY DEF NatRow
<1>2. RefundAmount(a, n) \in Nat /\ RefundAmount(a, n) <= a.locked
  BY <1>1 DEF RefundAmount
<1> QED  BY <1>1, <1>2 DEF Refunded, Moved, NatRow

LEMMA EmptyBounds == EmptyAccount \in NatRow /\ Nothing \in [Tokens -> Nat]
BY DEF EmptyAccount, NatRow, Nothing

LEMMA MergedBounds ==
  ASSUME NEW a \in NatRow, NEW b \in NatRow
  PROVE  /\ Merged(a, b) \in NatRow
         /\ Merged(a, [credits |-> b.credits + a.credits, debits |-> b.debits + a.debits]) \in NatRow
<1>1. /\ a.available \in Int /\ a.locked \in Nat /\ a.credits \in Nat /\ a.debits \in Nat
      /\ b.credits \in Nat /\ b.debits \in Nat
  BY DEF NatRow
<1>2. b.credits + a.credits \in Nat /\ b.debits + a.debits \in Nat
  BY <1>1
<1> QED  BY <1>1, <1>2 DEF Merged, NatRow

LEMMA ClosingBoundsFacts ==
  ASSUME ClosingTypes, ClosingBounds, [ClosingNext]_closingVars
  PROVE  ClosingBounds'
<1>1. CASE UNCHANGED closingVars
  BY <1>1 DEF ClosingBounds, closingVars, books, closers
<1>2. ASSUME NEW t \in Tokens, BecomesOverdue(t) PROVE ClosingBounds'
  BY <1>2 DEF ClosingBounds, BecomesOverdue, closers
<1>3. ASSUME NEW s \in Closers, NEW how \in {"revoke", "expire"}, NEW tokens \in SUBSET Tokens,
             BeginClosing(s, how, tokens)
      PROVE  ClosingBounds'
  BY <1>3 DEF ClosingBounds, BeginClosing
<1>4. ASSUME NEW s \in Closers, ReadRow(s) PROVE ClosingBounds'
  <2>1. Merged(row, EmptyAccount) \in NatRow
    BY EmptyBounds, MergedBounds DEF ClosingBounds
  <2>2. rowHeld' \in [Closers -> NatRow]
    BY <1>4, <2>1 DEF ClosingBounds, ReadRow
  <2>3. rowRead' \in [Closers -> BOOLEAN]
    BY <1>4 DEF ClosingBounds, ReadRow
  <2> QED  BY <1>4, <2>2, <2>3 DEF ClosingBounds, ReadRow, books
<1>5. ASSUME NEW s \in Closers, NEW t \in Tokens, CloseToken(s, t) PROVE ClosingBounds'
  <2>1. /\ Refunded(rowHeld[s], Unused(t)) \in NatRow
        /\ RefundAmount(rowHeld[s], Unused(t)) \in Nat
    BY UnusedFacts, NatRefundFacts DEF ClosingBounds
  <2>2. rowHeld' \in [Closers -> NatRow] /\ paying' \in [Closers -> [Tokens -> Nat]]
    <3>1. CASE Unused(t) > 0
      <4>1. rowHeld' = [rowHeld EXCEPT ![s] = Refunded(rowHeld[s], Unused(t))]
            /\ paying' = [paying EXCEPT ![s][t] = RefundAmount(rowHeld[s], Unused(t))]
        BY <1>5, <3>1 DEF CloseToken
      <4> QED  BY <2>1, <4>1 DEF ClosingBounds
    <3>2. CASE ~(Unused(t) > 0)
      BY <1>5, <3>2 DEF CloseToken, ClosingBounds
    <3> QED  BY <3>1, <3>2
  <2> QED  BY <1>5, <2>2 DEF ClosingBounds, CloseToken, books
<1>6. ASSUME NEW s \in Closers, EndClosing(s)
      PROVE  /\ closing' \in [Closers -> {"none", "revoke", "expire"}]
             /\ rowRead' \in [Closers -> BOOLEAN] /\ rowHeld' \in [Closers -> NatRow]
             /\ paying' \in [Closers -> [Tokens -> Nat]]
  <2>1. rowRead' \in [Closers -> BOOLEAN]
    BY <1>6 DEF ClosingBounds, EndClosing
  <2> QED  BY <1>6, <2>1, EmptyBounds DEF ClosingBounds, EndClosing
<1>7. ASSUME NEW s \in Closers, CommitClosing(s) PROVE ClosingBounds'
  <2>1. EndClosing(s) /\ row' = CommittedRow(s) /\ UNCHANGED shared
        /\ paidBack' = [t \in Tokens |-> paidBack[t] + paying[s][t]]
    BY <1>7 DEF CommitClosing
  <2>2. row' \in NatRow
    <3>1. rowHeld[s] \in NatRow /\ row \in NatRow
      BY DEF ClosingBounds
    <3> QED  BY <2>1, <3>1, MergedBounds DEF CommittedRow
  <2>3. paidBack' \in [Tokens -> Nat]
    BY <2>1 DEF ClosingBounds
  <2> QED  BY <1>6, <2>1, <2>2, <2>3 DEF ClosingBounds
<1>8. ASSUME NEW s \in Closers, ClosingLost(s) PROVE ClosingBounds'
  BY <1>6, <1>8 DEF ClosingLost, books, ClosingBounds
<1>9. Due \in SUBSET Tokens
  BY DEF Due, ClosingTypes
<1> QED  BY <1>1, <1>2, <1>3, <1>4, <1>5, <1>7, <1>8, <1>9 DEF ClosingNext, Revoke, ExpireAll

LEMMA ClosingInitBounds == ClosingInit => ClosingBounds
<1> SUFFICES ASSUME ClosingInit PROVE ClosingBounds
  OBVIOUS
<1>1. Total \in Nat
  BY ClosingAssumption, SumNat DEF Total
<1>2. row \in NatRow
  BY <1>1 DEF ClosingInit, NatRow
<1>3. rowRead \in [Closers -> BOOLEAN]
  BY DEF ClosingInit
<1> QED  BY <1>2, <1>3, EmptyBounds DEF ClosingInit, ClosingBounds

\* The closing sessions leave no row with less than nothing locked.
THEOREM ClosingTypeCorrect == ClosingSpec => []ClosingTypeOK
<1>1. ClosingInit => ClosingIInv /\ ClosingBounds
  BY ClosingInitFacts, ClosingInitBounds
<1>2. ClosingIInv /\ ClosingBounds /\ [ClosingNext]_closingVars => (ClosingIInv /\ ClosingBounds)'
  BY ClosingNextFacts, ClosingBoundsFacts DEF ClosingIInv
<1>3. ClosingIInv /\ ClosingBounds => ClosingTypeOK
  BY DEF ClosingIInv, ClosingTypes, ClosingBounds, NatRow, Account, ClosingTypeOK
<1> QED  BY <1>1, <1>2, <1>3, PTL DEF ClosingSpec

-----------------------------------------------------------------------------
(* TokenClosing with one session at a time: what is locked for the user is     *)
(* what was granted on open tokens and spent of closed ones, as OfflineTokens  *)
(* has it, where a session is one step.                                        *)
NoneBelowZero == \A t \in Tokens : Used[t] >= 0

OnHold == [t \in Tokens |-> IF tokenIs[t] = "open" THEN Amount[t] ELSE Used[t]]
HeldFor(s) == [t \in Tokens |-> IF t \in done[s] THEN Used[t] ELSE OnHold[t]]

RefundsExact ==
  /\ row.locked = SumFunctionOnSet(OnHold, Tokens)
  /\ \A t \in Tokens : paidBack[t] = IF tokenIs[t] = "open" THEN 0 ELSE Unused(t)

InHand(s) ==
  /\ \A t \in Tokens : Has(s, t) => tokenIs[t] = "open"
  /\ toClose[s] \cap done[s] = {}
  /\ \A t \in Tokens : paying[s][t] = IF t \in done[s] THEN Unused(t) ELSE 0
  /\ rowRead[s] => rowHeld[s].locked = SumFunctionOnSet(HeldFor(s), Tokens)
  /\ ~rowRead[s] => \A t \in done[s] : Unused(t) = 0
  /\ closing[s] = "none" => toClose[s] = {} /\ done[s] = {} /\ ~rowRead[s]

ClosedApart(s) == RefundsExact /\ InHand(s)

LEMMA HoldFacts ==
  ASSUME NoneBelowZero
  PROVE  /\ IsFiniteSet(Tokens)
         /\ \A t \in Tokens : OnHold[t] \in Nat /\ Amount[t] \in Nat /\ Used[t] \in Nat
         /\ \A t \in Tokens : Unused(t) \in Nat /\ Amount[t] = Used[t] + Unused(t)
         /\ \A s : \A t \in Tokens : HeldFor(s)[t] \in Nat
BY ClosingAssumption DEF OnHold, HeldFor, Unused, NoneBelowZero

\* A session that has refunded nothing has left what is on hold alone.
LEMMA NothingPaidFacts ==
  ASSUME NoneBelowZero, NEW s, InHand(s), \A t \in done[s] : Unused(t) = 0
  PROVE  SumFunctionOnSet(HeldFor(s), Tokens) = SumFunctionOnSet(OnHold, Tokens)
<1>1. \A t \in Tokens : HeldFor(s)[t] = OnHold[t]
  BY HoldFacts DEF HeldFor, OnHold, InHand, Has
<1> QED  BY <1>1, HoldFacts, SumEqual

LEMMA SerialBeginFacts ==
  ASSUME ClosingTypes, NEW s \in Closers, NEW how, NEW tokens, ClosedApart(s), how # "none",
         closing \in [Closers -> {"none", "revoke", "expire"}],
         tokens \subseteq {t \in Tokens : tokenIs[t] = "open"}, BeginClosing(s, how, tokens)
  PROVE  ClosedApart(s)'
<1>1. /\ toClose'[s] = tokens /\ closing[s] = "none"
      /\ UNCHANGED <<tokenIs, row, paidBack, done, rowRead, rowHeld, paying>>
  BY DEF BeginClosing, ClosingTypes
<1>2. closing'[s] = how
  BY DEF BeginClosing
<1>3. toClose[s] = {} /\ done[s] = {} /\ ~rowRead[s]
  BY <1>1 DEF ClosedApart, InHand
<1>4. RefundsExact'
  BY <1>1 DEF ClosedApart, RefundsExact, OnHold, Unused
<1> QED  BY <1>1, <1>2, <1>3, <1>4 DEF ClosedApart, InHand, Has, Unused

LEMMA SerialReadRowFacts ==
  ASSUME NoneBelowZero, ClosingTypes, NEW s \in Closers, ClosedApart(s), ReadRow(s)
  PROVE  ClosedApart(s)'
<1>1. /\ rowHeld'[s].locked = row.locked /\ ~rowRead[s] /\ toClose[s] # {}
      /\ UNCHANGED <<tokenIs, row, paidBack, toClose, done, closing, paying>>
  BY DEF ReadRow, books, ClosingTypes, Merged
<1>2. RefundsExact'
  BY <1>1 DEF ClosedApart, RefundsExact, OnHold, Unused
<1>3. row.locked = SumFunctionOnSet(HeldFor(s), Tokens)
  BY <1>1, NothingPaidFacts DEF ClosedApart, InHand, RefundsExact
<1>4. HeldFor(s)' = HeldFor(s)
  BY <1>1 DEF HeldFor, OnHold
<1>5. closing[s] # "none" /\ \A t \in done[s] : Unused(t) = 0
  BY <1>1 DEF ClosedApart, InHand
<1> QED  BY <1>1, <1>2, <1>3, <1>4, <1>5 DEF ClosedApart, InHand, Has, Unused

\* What is held covers each open token, so a refund is complete.
LEMMA SerialRefundFacts ==
  ASSUME NoneBelowZero, ClosingTypes, NEW s \in Closers, InHand(s), NEW t \in toClose[s], rowRead[s]
  PROVE  /\ RefundAmount(rowHeld[s], Unused(t)) = Unused(t)
         /\ Refunded(rowHeld[s], Unused(t)).locked = rowHeld[s].locked - Unused(t)
<1>1. /\ t \in Tokens /\ t \notin done[s] /\ tokenIs[t] = "open"
      /\ rowHeld[s].locked = SumFunctionOnSet(HeldFor(s), Tokens)
  BY DEF InHand, Has, ClosingTypes
<1>2. HeldFor(s)[t] = Amount[t]
  BY <1>1 DEF HeldFor, OnHold
<1>3. \A u \in Tokens : HeldFor(s)[u] \in Int
  BY HoldFacts
<1>4. SumFunctionOnSet(HeldFor(s), Tokens)
        = HeldFor(s)[t] + SumFunctionOnSet(HeldFor(s), Tokens \ {t})
  BY <1>1, <1>3, HoldFacts, SumRemove
<1>5. SumFunctionOnSet(HeldFor(s), Tokens \ {t}) \in Nat
  <2>1. IsFiniteSet(Tokens \ {t})
    BY HoldFacts, FS_Subset
  <2>2. \A u \in Tokens \ {t} : HeldFor(s)[u] \in Nat
    BY HoldFacts
  <2> QED  BY <2>1, <2>2, SumNat
<1>6. Unused(t) \in Nat /\ Unused(t) <= rowHeld[s].locked /\ rowHeld[s].locked \in Int
  BY <1>1, <1>2, <1>4, <1>5, HoldFacts
<1>7. RefundAmount(rowHeld[s], Unused(t)) = Unused(t)
  BY <1>6 DEF RefundAmount
<1>8. Refunded(rowHeld[s], Unused(t)).locked = rowHeld[s].locked + (-Unused(t))
  BY <1>7 DEF Refunded, Moved
<1>9. rowHeld[s].locked + (-Unused(t)) = rowHeld[s].locked - Unused(t)
  BY <1>6
<1> QED  BY <1>7, <1>8, <1>9

LEMMA SerialCloseTokenFacts ==
  ASSUME NoneBelowZero, ClosingTypes, NEW s \in Closers, NEW t \in Tokens, ClosedApart(s), CloseToken(s, t)
  PROVE  ClosedApart(s)'
<1>1. /\ UNCHANGED <<tokenIs, row, paidBack, closing, rowRead>> /\ t \in toClose[s]
      /\ toClose'[s] = toClose[s] \ {t} /\ done'[s] = done[s] \cup {t}
  BY DEF CloseToken, books, ClosingTypes
<1>2. RefundsExact'
  BY <1>1 DEF ClosedApart, RefundsExact, OnHold, Unused
<1>3. t \notin done[s] /\ tokenIs[t] = "open" /\ closing[s] # "none"
  BY <1>1 DEF ClosedApart, InHand, Has
<1>4. \A u \in Tokens : Has(s, u)' <=> Has(s, u)
  BY <1>1 DEF Has
<1>5. HeldFor(s)[t] = Amount[t] /\ HeldFor(s)'[t] = Used[t]
  BY <1>1, <1>3 DEF HeldFor, OnHold
<1>6. \A u \in Tokens \ {t} : HeldFor(s)'[u] = HeldFor(s)[u]
  BY <1>1 DEF HeldFor, OnHold
<1>7. PICK g : g = HeldFor(s)'
  OBVIOUS
<1>8. SumFunctionOnSet(g, Tokens) = SumFunctionOnSet(HeldFor(s), Tokens) + g[t] - HeldFor(s)[t]
  <2>1. \A u \in Tokens : HeldFor(s)[u] \in Int /\ g[u] \in Int
    BY <1>5, <1>6, <1>7, HoldFacts
  <2>2. \A u \in Tokens \ {t} : HeldFor(s)[u] = g[u]
    BY <1>6, <1>7
  <2> QED  BY <2>1, <2>2, HoldFacts, SumChange
<1>9. SumFunctionOnSet(HeldFor(s), Tokens) \in Int
  BY HoldFacts, SumNat
<1>10. SumFunctionOnSet(HeldFor(s)', Tokens) = SumFunctionOnSet(HeldFor(s), Tokens) - Unused(t)
  BY <1>5, <1>7, <1>8, <1>9, HoldFacts
<1>11. \A u \in Tokens : paying'[s][u] = IF u \in done'[s] THEN Unused(u) ELSE 0
  <2>1. CASE Unused(t) > 0
    <3>1. paying'[s] = [paying[s] EXCEPT ![t] = Unused(t)]
      BY <1>1, <2>1, SerialRefundFacts DEF CloseToken, ClosedApart, ClosingTypes
    <3> QED  BY <1>1, <3>1 DEF ClosedApart, InHand, ClosingTypes
  <2>2. CASE ~(Unused(t) > 0)
    BY <1>1, <2>2, HoldFacts DEF CloseToken, ClosedApart, InHand
  <2> QED  BY <2>1, <2>2
<1>12. rowRead'[s] => rowHeld'[s].locked = SumFunctionOnSet(HeldFor(s)', Tokens)
  <2> SUFFICES ASSUME rowRead[s]
               PROVE  rowHeld'[s].locked = SumFunctionOnSet(HeldFor(s)', Tokens)
    BY <1>1
  <2>1. rowHeld[s].locked = SumFunctionOnSet(HeldFor(s), Tokens)
    BY DEF ClosedApart, InHand
  <2>2. CASE Unused(t) > 0
    <3>1. rowHeld'[s] = Refunded(rowHeld[s], Unused(t))
      BY <2>2 DEF CloseToken, ClosingTypes
    <3> QED  BY <1>1, <1>10, <2>1, <3>1, SerialRefundFacts DEF ClosedApart
  <2>3. CASE ~(Unused(t) > 0)
    <3>1. rowHeld' = rowHeld /\ Unused(t) = 0
      BY <2>3, HoldFacts DEF CloseToken
    <3> QED  BY <1>9, <1>10, <2>1, <3>1
  <2> QED  BY <2>2, <2>3
<1>13. ~rowRead'[s] => \A u \in done'[s] : Unused(u) = 0
  <2> SUFFICES ASSUME ~rowRead[s] PROVE \A u \in done'[s] : Unused(u) = 0
    BY <1>1
  <2>1. Unused(t) = 0
    BY HoldFacts DEF CloseToken
  <2> QED  BY <1>1, <2>1 DEF ClosedApart, InHand
<1> QED
  BY <1>1, <1>2, <1>3, <1>4, <1>11, <1>12, <1>13 DEF ClosedApart, InHand, Has, Unused

LEMMA SerialEndClosingFacts ==
  ASSUME ClosingTypes, NEW s \in Closers, EndClosing(s), closing[s] # "none", RefundsExact',
         closing \in [Closers -> {"none", "revoke", "expire"}],
         rowRead \in [Closers -> BOOLEAN]
  PROVE  ClosedApart(s)'
<1>1. /\ toClose'[s] = {} /\ done'[s] = {} /\ rowRead'[s] = FALSE
      /\ \A t \in Tokens : paying'[s][t] = 0
  BY DEF EndClosing, ClosingTypes, Nothing
<1> QED  BY <1>1 DEF ClosedApart, InHand, Has

\* A commit puts back into the row exactly what was on hold and is not any more.
LEMMA SerialCommitClosingFacts ==
  ASSUME NoneBelowZero, ClosingTypes, NEW s \in Closers, ClosedApart(s), CommitClosing(s),
         closing \in [Closers -> {"none", "revoke", "expire"}],
         rowRead \in [Closers -> BOOLEAN]
  PROVE  ClosedApart(s)'
<1>1. /\ tokenIs' = [t \in Tokens |-> IF t \notin done[s] THEN tokenIs[t]
                                      ELSE IF closing[s] = "revoke" THEN "revoked" ELSE "expired"]
      /\ row' = CommittedRow(s)
      /\ paidBack' = [t \in Tokens |-> paidBack[t] + paying[s][t]]
      /\ EndClosing(s) /\ closing[s] # "none"
  BY DEF CommitClosing
<1>2. \A t \in Tokens : OnHold'[t] = HeldFor(s)[t]
  BY <1>1 DEF OnHold, HeldFor
<1>3. PICK g : g = OnHold'
  OBVIOUS
<1>4. SumFunctionOnSet(g, Tokens) = SumFunctionOnSet(HeldFor(s), Tokens)
  BY <1>2, <1>3, HoldFacts, SumEqual
<1>5. row'.locked = SumFunctionOnSet(HeldFor(s), Tokens)
  <2>1. CASE Pays(s)
    <3>1. PICK t \in Tokens : paying[s][t] > 0
      BY <2>1 DEF Pays
    <3>2. rowRead[s]
      BY <3>1 DEF ClosedApart, InHand
    <3>3. row'.locked = rowHeld[s].locked
      BY <1>1, <2>1 DEF CommittedRow, Merged
    <3> QED  BY <3>2, <3>3 DEF ClosedApart, InHand
  <2>2. CASE ~Pays(s)
    <3>1. \A t \in done[s] : Unused(t) = 0
      BY <2>2, HoldFacts DEF Pays, ClosedApart, InHand, ClosingTypes
    <3>2. row' = row
      BY <1>1, <2>2 DEF CommittedRow
    <3> QED  BY <3>1, <3>2, NothingPaidFacts DEF ClosedApart, RefundsExact
  <2> QED  BY <2>1, <2>2
<1>6. \A t \in Tokens : paidBack'[t] = IF tokenIs'[t] = "open" THEN 0 ELSE Unused(t)
  <2> SUFFICES ASSUME NEW t \in Tokens
               PROVE  paidBack'[t] = IF tokenIs'[t] = "open" THEN 0 ELSE Unused(t)
    OBVIOUS
  <2>1. paidBack'[t] = paidBack[t] + paying[s][t] /\ Unused(t) \in Nat
    BY <1>1, HoldFacts
  <2>2. CASE t \in done[s]
    <3>1. tokenIs[t] = "open" /\ tokenIs'[t] # "open"
      BY <1>1, <2>2 DEF ClosedApart, InHand, Has
    <3> QED  BY <2>1, <2>2, <3>1 DEF ClosedApart, InHand, RefundsExact
  <2>3. CASE t \notin done[s]
    BY <1>1, <2>1, <2>3 DEF ClosedApart, InHand, RefundsExact
  <2> QED  BY <2>2, <2>3
<1>7. RefundsExact'
  BY <1>3, <1>4, <1>5, <1>6 DEF RefundsExact, Unused
<1> QED  BY <1>1, <1>7, SerialEndClosingFacts

LEMMA SerialClosingNextFacts ==
  ASSUME NoneBelowZero, NEW s, Closers = {s}, ClosingIInv, ClosingBounds, ClosedApart(s),
         [ClosingNext]_closingVars
  PROVE  ClosedApart(s)'
<1>0. /\ ClosingTypes /\ s \in Closers
      /\ closing \in [Closers -> {"none", "revoke", "expire"}]
      /\ rowRead \in [Closers -> BOOLEAN]
  BY DEF ClosingIInv, ClosingBounds
<1>1. CASE UNCHANGED <<tokenIs, row, paidBack, closers>>
  BY <1>1 DEF closers, ClosedApart, RefundsExact, InHand, OnHold, HeldFor, Has, Unused
<1>2. CASE ExpireAll(s)
  <2>1. Due \subseteq {t \in Tokens : tokenIs[t] = "open"}
    BY <1>0 DEF Due, ClosingTypes
  <2> QED  BY <1>0, <1>2, <2>1, SerialBeginFacts DEF ExpireAll
<1>3. ASSUME NEW t \in Tokens, Revoke(s, t) PROVE ClosedApart(s)'
  BY <1>0, <1>3, SerialBeginFacts DEF Revoke
<1>4. CASE ClosingLost(s)
  <2>1. EndClosing(s) /\ closing[s] # "none" /\ UNCHANGED <<tokenIs, row, paidBack>>
    BY <1>4 DEF ClosingLost, books
  <2>2. RefundsExact'
    BY <2>1 DEF ClosedApart, RefundsExact, OnHold, Unused
  <2> QED  BY <1>0, <2>1, <2>2, SerialEndClosingFacts
<1> QED
  BY <1>0, <1>1, <1>2, <1>3, <1>4, SerialReadRowFacts, SerialCloseTokenFacts,
     SerialCommitClosingFacts
  DEF ClosingNext, BecomesOverdue, closingVars, books

LEMMA SerialClosingInitFacts ==
  ASSUME NoneBelowZero, NEW s \in Closers, ClosingInit  PROVE ClosedApart(s)
<1>1. \A t \in Tokens : OnHold[t] = Amount[t]
  BY DEF ClosingInit, OnHold
<1>2. SumFunctionOnSet(OnHold, Tokens) = Total
  BY <1>1, HoldFacts, SumEqual DEF Total
<1>3. RefundsExact
  BY <1>2 DEF ClosingInit, RefundsExact, Nothing
<1>4. InHand(s)
  BY DEF ClosingInit, InHand, Has, Nothing
<1> QED  BY <1>3, <1>4 DEF ClosedApart

\* One closing session at a time refunds every token it closes in full and once, and
\* leaves locked what the others were granted, unless a sync left a usage below 0.
THEOREM SerialRefundsExact ==
  ASSUME NoneBelowZero, NEW s, Closers = {s}  PROVE ClosingSpec => []RefundsExact
<1>1. ClosingInit => ClosingBounds /\ ClosedApart(s)
  BY ClosingInitBounds, SerialClosingInitFacts
<1>2. ClosingIInv /\ ClosingBounds /\ ClosedApart(s) /\ [ClosingNext]_closingVars
        => ClosingBounds' /\ ClosedApart(s)'
  BY ClosingBoundsFacts, SerialClosingNextFacts DEF ClosingIInv
<1>3. ClosedApart(s) => RefundsExact
  BY DEF ClosedApart
<1> QED  BY <1>1, <1>2, <1>3, ClosingInvariance, PTL DEF ClosingSpec

-----------------------------------------------------------------------------
KeysBounds == ttl \in 0..Cap /\ hits \in 0..(RequestLimit + 1) /\ window \in 0..Window

LEMMA KeysBoundsFacts ==
  ASSUME KeysTypes, KeysBounds, [KeysNext]_keyVars
  PROVE  KeysBounds'
<1>0. Cap \in Nat /\ Margin \in Nat /\ RequestLimit \in Nat /\ Window \in Nat
  BY RedisKeysAssumption
<1>1. CASE UNCHANGED keyVars
  BY <1>1 DEF KeysBounds, keyVars, tokenVars, limitVars
<1>2. ASSUME NEW c \in Callers, AskToken(c) \/ RefreshToken(c) \/ TtlRefused(c) \/ NoTokenFor(c)
      PROVE  KeysBounds'
  <2>1. (ttl' = ttl \/ ttl' = 0) /\ UNCHANGED <<hits, window>>
    BY <1>2 DEF AskToken, RefreshToken, TtlRefused, NoTokenFor, NoToken, limitVars
  <2> QED  BY <1>0, <2>1 DEF KeysBounds
<1>3. ASSUME NEW c \in Callers, CacheToken(c) PROVE KeysBounds'
  <2>1. ttl' = SafeTtl(answer[c].remaining) /\ ttl' >= 0 /\ UNCHANGED <<hits, window>>
    BY <1>3 DEF CacheToken, limitVars
  <2>2. answer[c].remaining \in Nat
    BY DEF KeysTypes
  <2>3. SafeTtl(answer[c].remaining) \in Int /\ SafeTtl(answer[c].remaining) <= Cap
    BY <1>0, <2>2 DEF SafeTtl
  <2> QED  BY <1>0, <2>1, <2>3 DEF KeysBounds
<1>4. ASSUME NEW c \in Callers, NEW life \in Lifetimes, NEW said \in BOOLEAN,
             IssueToken(c, life, said)
      PROVE  KeysBounds'
  BY <1>4 DEF IssueToken, limitVars, KeysBounds
<1>5. ASSUME NEW v \in Visitors, CountRequest(v) PROVE KeysBounds'
  BY <1>0, <1>5 DEF CountRequest, Counted, tokenVars, KeysBounds
<1>6. ASSUME NEW v \in Visitors, StartWindow(v) \/ VisitorLost(v) PROVE KeysBounds'
  BY <1>0, <1>6 DEF StartWindow, VisitorLost, SetsWindow, tokenVars, KeysBounds
<1>7. CASE TokenTick
  <2>1. (ttl' = 0 \/ ttl' = Less(ttl)) /\ UNCHANGED <<hits, window>>
    BY <1>7 DEF TokenTick, NoToken, limitVars
  <2> QED  BY <1>0, <2>1 DEF Less, KeysBounds
<1>8. CASE LimitTick
  BY <1>0, <1>8 DEF LimitTick, tokenVars, KeysBounds
<1> QED  BY <1>1, <1>2, <1>3, <1>4, <1>5, <1>6, <1>7, <1>8 DEF KeysNext

LEMMA KeysInitBounds == KeysInit => KeysBounds
BY RedisKeysAssumption DEF KeysInit, KeysBounds

\* No key outlives what it was given, and a counter stops one above the limit.
THEOREM KeysTypeCorrect == KeysSpec => []KeysTypeOK
<1>1. KeysIInv /\ KeysBounds /\ [KeysNext]_keyVars => (KeysIInv /\ KeysBounds)'
  BY KeysNextFacts, KeysBoundsFacts DEF KeysIInv
<1>2. KeysIInv /\ KeysBounds => KeysTypeOK
  BY DEF KeysIInv, KeysTypes, KeysBounds, KeysTypeOK
<1> QED  BY KeysInitFacts, KeysInitBounds, <1>1, <1>2, PTL DEF KeysSpec

-----------------------------------------------------------------------------
\* Registrations that have still to be sent a code.
Pending == {r \in Requests : task[r] = "register" /\ step[r] \in {"begun", "inserted", "opened"}}

AuthBounds ==
  /\ lastSent + Cardinality(Pending) <= CodeLimit + Cardinality(Requests)
  /\ \A r \in Requests : matched[r] <= lastSent
  /\ web \in SUBSET Registrants /\ excused \in SUBSET Registrants
  /\ holders \in SUBSET Registrants

LEMMA RequestsFacts ==
  ASSUME NEW S \in SUBSET Requests
  PROVE  /\ IsFiniteSet(S) /\ Cardinality(S) \in Nat /\ Cardinality(Requests) \in Nat
         /\ Cardinality(S) <= Cardinality(Requests) /\ CodeLimit \in Nat
BY AuthAssumption, FS_Subset, FS_CardinalityType

\* Codes are asked for below the limit; the registrations still to be sent one are
\* no more than there are requests.
LEMMA CodesFacts ==
  ASSUME StoreTypes, AuthBounds, NEW P \in SUBSET Requests, NEW n \in Nat,
         (n = lastSent /\ P \subseteq Pending) \/ n <= CodeLimit
  PROVE  n + Cardinality(P) <= CodeLimit + Cardinality(Requests)
<1>1. /\ Cardinality(P) \in Nat /\ Cardinality(Requests) \in Nat /\ CodeLimit \in Nat
      /\ Cardinality(P) <= Cardinality(Requests)
  BY RequestsFacts
<1>2. CASE n = lastSent /\ P \subseteq Pending
  <2>1. Pending \in SUBSET Requests
    BY DEF Pending
  <2>2. Cardinality(Pending) \in Nat /\ Cardinality(P) <= Cardinality(Pending)
    BY <1>2, <2>1, RequestsFacts, FS_Subset
  <2> QED  BY <1>1, <1>2, <2>2 DEF AuthBounds
<1>3. CASE n <= CodeLimit
  BY <1>1, <1>3
<1> QED  BY <1>2, <1>3

\* A step that sends no code, or one below the limit.
LEMMA WithinBounds ==
  ASSUME StoreTypes, AuthBounds, StoreTypes',
         (lastSent' = lastSent /\ Pending' \subseteq Pending) \/ lastSent' <= CodeLimit,
         \A r \in Requests : matched'[r] <= lastSent', web' \in SUBSET Registrants,
         excused' \in SUBSET Registrants, holders' \in SUBSET Registrants
  PROVE  AuthBounds'
<1>1. lastSent' \in Nat /\ Pending' \in SUBSET Requests
  BY DEF StoreTypes, Pending
<1>2. lastSent' + Cardinality(Pending') <= CodeLimit + Cardinality(Requests)
  BY <1>1, CodesFacts
<1> QED  BY <1>2 DEF AuthBounds

LEMMA AuthBoundsFacts ==
  ASSUME SlotTypes, StoreTypes, LoginInv, AuthBounds, StoreTypes', [AuthNext]_authVars
  PROVE  AuthBounds'
<1>0. /\ \A v \in Requests : matched[v] \in Nat /\ matched[v] <= lastSent
      /\ web \in SUBSET Registrants /\ lastSent \in Nat
      /\ excused \in SUBSET Registrants /\ holders \in SUBSET Registrants
      /\ who \in [Requests -> Registrants] /\ matched \in [Requests -> Nat]
  BY DEF AuthBounds, SlotTypes, StoreTypes
<1>1. CASE UNCHANGED authVars \/ \E u \in Registrants : RefreshTokens(u) \/ CodeExpires(u)
  <2>1. UNCHANGED <<lastSent, task, step, matched, web, excused, holders>>
    BY <1>1 DEF RefreshTokens, CodeExpires, authVars, authStore, authRequest
  <2> QED  BY <1>0, <2>1, WithinBounds DEF Pending
<1>2. CASE \E u \in Registrants : Login(u)
  <2>1. /\ lastSent < CodeLimit /\ lastSent' = lastSent + 1
        /\ UNCHANGED <<matched, web, excused, holders>>
    BY <1>2 DEF Login, SendCode, authRequest
  <2>2. lastSent' <= CodeLimit /\ \A v \in Requests : matched'[v] <= lastSent'
    BY <1>0, <2>1, AuthAssumption
  <2> QED  BY <1>0, <2>1, <2>2, WithinBounds
<1>3. ASSUME NEW r \in Requests, NEW u \in Registrants, NEW what \in Tasks, NEW c,
             Arrives(r, what, "begun", u, c), what = "register" => lastSent < CodeLimit
      PROVE  AuthBounds'
  <2>1. /\ step[r] = "idle" /\ step' = [step EXCEPT ![r] = "begun"]
        /\ task' = [task EXCEPT ![r] = what] /\ UNCHANGED <<lastSent, matched, web, excused, holders>>
    BY <1>3 DEF Arrives, To, authStore
  <2>3. what # "register" => Pending' \subseteq Pending
    BY <2>1 DEF Pending, SlotTypes
  <2>4. lastSent < CodeLimit => lastSent' <= CodeLimit
    BY <2>1, AuthAssumption DEF StoreTypes
  <2> QED  BY <1>0, <1>3, <2>1, <2>3, <2>4, WithinBounds
<1>4. ASSUME NEW r \in Requests,
             \/ DuplicatePhone(r) \/ AccountFails(r) \/ CommitUser(r) \/ WrongCode(r)
             \/ CommitVerified(r) \/ NotActive(r) \/ CommitLogin(r) \/ RequestLost(r)
      PROVE  AuthBounds'
  <2>1. Closes(r) /\ UNCHANGED <<lastSent, holders>>
    BY <1>4 DEF DuplicatePhone, AccountFails, CommitUser, WrongCode, CommitVerified, NotActive,
                CommitLogin, RequestLost, Raises, authStore
  <2>2. web' \in SUBSET Registrants /\ excused' \in SUBSET Registrants
    BY <1>0, <1>4 DEF DuplicatePhone, AccountFails, CommitUser, WrongCode, CommitVerified,
                      NotActive, CommitLogin, RequestLost, Raises, authStore
  <2>3. \A v \in Requests : matched'[v] <= lastSent'
    BY <1>0, <2>1 DEF Closes
  <2>4. Pending' \subseteq Pending
    BY <2>1 DEF Closes, Pending, SlotTypes
  <2> QED  BY <1>0, <2>1, <2>2, <2>3, <2>4, WithinBounds
<1>5. ASSUME NEW r \in Requests,
             \/ InsertUser(r) \/ OpenAccount(r) \/ Match(r) \/ UpdateStatus(r)
             \/ AnswerVerified(r) \/ FindActive(r) \/ BlankCode(r) \/ AnswerTokens(r)
      PROVE  AuthBounds'
  <2>1. UNCHANGED <<lastSent, task, web>>
    BY <1>5 DEF InsertUser, OpenAccount, Match, UpdateStatus, AnswerVerified, FindActive,
                BlankCode, AnswerTokens, Same, authStore
  <2>2. excused' \in SUBSET Registrants /\ holders' \in SUBSET Registrants
    BY <1>0, <1>5 DEF InsertUser, OpenAccount, Match, UpdateStatus, AnswerVerified, FindActive,
                      BlankCode, AnswerTokens, Same, authStore
  <2>3. \E p : step' = [step EXCEPT ![r] = p]
    BY <1>5 DEF InsertUser, OpenAccount, Match, UpdateStatus, AnswerVerified, FindActive,
                BlankCode, AnswerTokens, To
  <2>4. task[r] = "register" => step[r] \in {"begun", "inserted"}
    BY <1>5 DEF InsertUser, OpenAccount, Match, UpdateStatus, AnswerVerified, FindActive,
                BlankCode, AnswerTokens, At
  <2>5. Pending' \subseteq Pending
    BY <2>1, <2>3, <2>4 DEF Pending, SlotTypes
  <2>6. \A v \in Requests : matched'[v] <= lastSent'
    <3>1. CASE Match(r)
      <4>1. otp[who[r]].nth <= lastSent
        BY <1>0 DEF LoginInv, SendingsApart
      <4> QED  BY <1>0, <2>1, <3>1, <4>1 DEF Match
    <3>2. CASE ~Match(r)
      <4>1. matched' = matched
        BY <1>5, <3>2 DEF InsertUser, OpenAccount, UpdateStatus, AnswerVerified, FindActive,
                          BlankCode, AnswerTokens, Same
      <4> QED  BY <1>0, <2>1, <4>1
    <3> QED  BY <3>1, <3>2
  <2> QED  BY <1>0, <2>1, <2>2, <2>5, <2>6, WithinBounds
<1>6. ASSUME NEW r \in Requests, SendFirstCode(r) PROVE AuthBounds'
  <2>1. /\ task[r] = "register" /\ step[r] = "opened" /\ step' = [step EXCEPT ![r] = "answered"]
        /\ lastSent' = lastSent + 1 /\ UNCHANGED <<task, matched, web, excused, holders>>
    BY <1>6 DEF SendFirstCode, SendCode, At, To, Same
  <2>2. r \in Pending /\ Pending' = Pending \ {r} /\ Pending \in SUBSET Requests
    BY <2>1 DEF Pending, SlotTypes
  <2>3. Cardinality(Pending') = Cardinality(Pending) - 1 /\ Cardinality(Pending) \in Nat
    <3>1. IsFiniteSet(Pending) /\ Cardinality(Pending) \in Nat
      BY <2>2, RequestsFacts
    <3>2. Cardinality(Pending \ {r}) = Cardinality(Pending) - 1
      BY <2>2, <3>1, FS_RemoveElement
    <3> QED  BY <2>2, <3>1, <3>2
  <2>4. lastSent' + Cardinality(Pending') = lastSent + Cardinality(Pending)
    BY <2>1, <2>3 DEF StoreTypes
  <2>5. \A v \in Requests : matched'[v] <= lastSent'
    BY <1>0, <2>1
  <2> QED  BY <2>1, <2>4, <2>5 DEF AuthBounds
<1>7. {"register", "verify", "login"} \subseteq Tasks
  BY DEF Tasks
<1>8. ASSUME NEW r \in Requests, NEW u \in Registrants, Register(r, u) PROVE AuthBounds'
  BY <1>0, <1>3, <1>7, <1>8 DEF Register
<1>9. ASSUME NEW r \in Requests, NEW u \in Registrants, NEW c \in Codes,
             VerifyOtp(r, u, c) \/ VerifyLogin(r, u, c)
      PROVE  AuthBounds'
  BY <1>3, <1>7, <1>9 DEF VerifyOtp, VerifyLogin
<1> QED  BY <1>1, <1>2, <1>4, <1>5, <1>6, <1>8, <1>9 DEF AuthNext, RequestStep

LEMMA AuthInitBounds == AuthInit => AuthBounds
<1> SUFFICES ASSUME AuthInit PROVE AuthBounds
  OBVIOUS
<1>1. Pending = {} /\ lastSent = 0
  BY DEF AuthInit, Pending
<1>2. CodeLimit + Cardinality(Requests) >= 0
  BY RequestsFacts
<1>3. Cardinality(Pending) = 0
  BY <1>1, FS_EmptySet
<1> QED  BY <1>1, <1>2, <1>3 DEF AuthInit, AuthBounds

LEMMA AuthTypesFacts == AuthIInv /\ AuthBounds => AuthTypeOK
<1> SUFFICES ASSUME AuthIInv, AuthBounds PROVE AuthTypeOK
  OBVIOUS
<1>1. lastSent \in Sendings
  <2>1. Cardinality(Pending) \in Nat /\ Cardinality(Requests) \in Nat
    BY RequestsFacts DEF Pending
  <2> QED  BY <2>1, AuthAssumption DEF AuthIInv, StoreTypes, AuthBounds, Sendings
<1>2. \A n \in Nat : n <= lastSent => n \in Sendings
  BY <1>1, RequestsFacts DEF Sendings
<1>3. otp \in [Registrants -> [code : Codes \cup {NoCode}, nth : Sendings]]
  <2>1. \A u \in Registrants : otp[u] \in [code : Codes \cup {NoCode}, nth : Sendings]
    <3> SUFFICES ASSUME NEW u \in Registrants
                 PROVE  otp[u] \in [code : Codes \cup {NoCode}, nth : Sendings]
      OBVIOUS
    <3>1. otp[u] \in Keys /\ otp[u].nth <= lastSent
      BY DEF AuthIInv, StoreTypes, LoginInv, SendingsApart
    <3> QED  BY <1>2, <3>1 DEF Keys
  <2> QED  BY <2>1 DEF AuthIInv, StoreTypes
<1>4. matched \in [Requests -> Sendings]
  <2>1. \A v \in Requests : matched[v] \in Sendings
    BY <1>2 DEF AuthIInv, SlotTypes, AuthBounds
  <2> QED  BY <2>1 DEF AuthIInv, SlotTypes
<1> QED
  BY <1>1, <1>3, <1>4 DEF AuthIInv, SlotTypes, StoreTypes, AuthBounds, AuthTypeOK

\* The numbers never run out: no more codes are sent than the limit and one for each request
\* that had been let in below it.
THEOREM AuthTypeCorrect == AuthSpec => []AuthTypeOK
<1>1. AuthIInv /\ AuthBounds /\ [AuthNext]_authVars => (AuthIInv /\ AuthBounds)'
  BY AuthNextFacts, AuthBoundsFacts DEF AuthIInv
<1> QED  BY AuthInitFacts, AuthInitBounds, AuthTypesFacts, <1>1, PTL DEF AuthSpec

-----------------------------------------------------------------------------
(* All five, as MCEdge composes them.                                        *)
EdgeIInv ==
  /\ AuthIInv /\ AuthBounds
  /\ HookIInv /\ WalletIInv
  /\ KeysIInv /\ KeysBounds
  /\ ClosingIInv /\ ClosingBounds

\* Events may be stored by anyone: what is acknowledged stays stored.
LEMMA AckedMeanwhileFacts ==
  ASSUME HookIInv, NEW e \in Events, Arrive(e), UNCHANGED <<acked, dropped, misread, hookAt, hookFor>>
  PROVE  HookIInv'
<1>1. /\ arrived' \in [Events -> 0..Cardinality(Events)] /\ Stored \subseteq Stored'
  BY ArriveFacts DEF HookIInv, WebhooksTypeOK
<1> QED  BY <1>1 DEF HookIInv, WebhooksTypeOK, AckedIsStored

\* The components disturb each other in nothing: what holds of each alone holds of it
\* in the company of the others.
THEOREM EdgeInvariance == Spec => []EdgeIInv
<1>1. Init => EdgeIInv
  BY AuthInitFacts, AuthInitBounds, WebhooksInitFacts, WalletInitFacts, KeysInitFacts,
     KeysInitBounds, ClosingInitFacts, ClosingInitBounds
  DEF Init, EdgeIInv, WebhooksInit
<1>2. EdgeIInv /\ [Next]_edgeVars => EdgeIInv'
  <2> SUFFICES ASSUME EdgeIInv, [Next]_edgeVars PROVE EdgeIInv'
    OBVIOUS
  <2>1. /\ [AuthNext]_authVars /\ [KeysNext]_keyVars /\ [ClosingNext]_closingVars
        /\ \/ [WebhooksNext]_hookVars /\ UNCHANGED <<store, work>>
           \/ [WalletNext]_walletVars /\ UNCHANGED <<acked, dropped, misread, hookAt, hookFor>>
    BY DEF Next, Authenticating, Receiving, Funding, Expiring, Closing, edgeVars, hookVars,
           walletVars
  <2>2. (AuthIInv /\ AuthBounds /\ KeysIInv /\ KeysBounds /\ ClosingIInv /\ ClosingBounds)'
    BY <2>1, AuthNextFacts, AuthBoundsFacts, KeysNextFacts, KeysBoundsFacts, ClosingNextFacts,
       ClosingBoundsFacts DEF EdgeIInv, AuthIInv, KeysIInv, ClosingIInv
  <2>3. CASE [WebhooksNext]_hookVars /\ UNCHANGED <<store, work>>
    <3>1. HookIInv'
      BY <2>3, WebhooksNextFacts DEF EdgeIInv
    <3>2. CASE arrived' = arrived
      <4>1. UNCHANGED walletVars
        BY <2>3, <3>2 DEF walletVars
      <4> QED  BY <2>2, <3>1, <4>1, WalletNextFacts DEF EdgeIInv
    <3>3. CASE arrived' # arrived
      BY <2>2, <2>3, <3>1, <3>3, HookArrivesFacts, EventArrivesFacts DEF EdgeIInv
    <3> QED  BY <3>2, <3>3
  <2>4. CASE [WalletNext]_walletVars /\ UNCHANGED <<acked, dropped, misread, hookAt, hookFor>>
    <3>1. WalletIInv'
      BY <2>4, WalletNextFacts DEF EdgeIInv
    <3>2. CASE arrived' = arrived
      <4>1. UNCHANGED hookVars
        BY <2>4, <3>2 DEF hookVars
      <4> QED  BY <2>2, <3>1, <4>1, WebhooksNextFacts DEF EdgeIInv
    <3>3. CASE arrived' # arrived
      <4>1. \E e \in Events : Arrive(e)
        BY <2>4, <3>3 DEF WalletNext, walletVars, EventArrives, AccountStep,
           CreateUserVirtualAccount, CreateFundingAccount, Asks, StoreAccount, AccountLost,
           WorkerStep, ProcessEvent, ProcessPending, Load, FindAccount, HandleOther,
           MarkFunded, CreditUser, MarkProcessed, FailsOne, RollsBackWork, MarkFailed,
           CommitWork, WorkerLost
      <4> QED  BY <2>2, <2>4, <3>1, <4>1, AckedMeanwhileFacts DEF EdgeIInv
    <3> QED  BY <3>2, <3>3
  <2> QED  BY <2>1, <2>3, <2>4
<1> QED  BY <1>1, <1>2, PTL DEF Spec

\* The types of all five components, whichever of them moves.
THEOREM EdgeTypeCorrect == Spec => []EdgeTypeOK
<1>1. EdgeIInv => EdgeTypeOK
  BY AuthTypesFacts
  DEF EdgeIInv, HookIInv, WalletIInv, KeysIInv, KeysTypes, KeysBounds, KeysTypeOK,
      ClosingIInv, ClosingTypes, ClosingBounds, NatRow, Account, ClosingTypeOK, EdgeTypeOK
<1> QED  BY <1>1, EdgeInvariance, PTL

\* What each component promises, in the company of the others.
THEOREM EdgePromisesKept ==
  Spec => [](/\ VerifiedUnlessRaced /\ OneLoginPerRequest /\ AckedIsStored
             /\ CreditsLostOnlyToOverlap /\ KeysExpire /\ TwiceRefundedOnlyByOverlap)
<1>1. EdgeIInv => AckedIsStored /\ TwiceRefundedOnlyByOverlap
  BY DEF EdgeIInv, HookIInv, ClosingIInv
<1>2. EdgeIInv => KeysExpire
  BY DEF EdgeIInv, KeysIInv, KeysTypes, KeyWithinLife, KeysExpire, CachedTokenAlive
<1>3. EdgeIInv => VerifiedUnlessRaced /\ OneLoginPerRequest
  BY DEF EdgeIInv, AuthIInv, StatusInv, ToldIsActive, VerifiedUnlessRaced, Answering, At,
         LoginInv
<1>4. EdgeIInv => CreditsLostOnlyToOverlap
  BY DEF EdgeIInv, WalletIInv
<1> QED  BY <1>1, <1>2, <1>3, <1>4, EdgeInvariance, PTL
=============================================================================
