------------------------ MODULE TransactionSyncProofs ------------------------
(* Theorems about TransactionSync, for any transactions, batches and sessions.*)
EXTENDS TransactionSync, SumTheorems, TLAPS

\* What no two different rows of the table may do, in or between sessions: the
\* database's constraints hold of inserted rows as well as of committed ones.
Distinct(x, y) == ~Clash(x, y)

InsertedOnce ==
  \A s \in Sessions : \A x \in inserted[s] :
    /\ \A y \in inserted[s] : x # y => Distinct(x, y)
    /\ \A y \in recorded : Distinct(x, y)
    /\ \A r \in Sessions \ {s} : \A y \in inserted[r] : Distinct(x, y)

\* What a session has written, or is about to write from the token it has loaded,
\* is within the limit.
WrittenWithinLimit ==
  \A s \in Sessions : \A t \in locks[s] : usage[s][t] <= Limit[t]

Holding == {"admitted", "stored", "ordering", "inserting", "sequencing", "charging"}
Fits(n, b) == b # <<>> => n + Amount[Head(b)] <= Limit[Token[Head(b)]]

LoadedWithinLimit ==
  \A s \in Sessions : place[s] \in Holding => Fits(loaded[s], batch[s])

IInv == /\ TypeOK
        /\ RecordedOnce /\ InsertedOnce
        /\ RowWithinLimit /\ WrittenWithinLimit /\ LoadedWithinLimit

-----------------------------------------------------------------------------
\* The current transaction is one of the batch, and so are those after it.
LEMMA CurrentFacts ==
  ASSUME TypeOK, NEW s \in Sessions, batch[s] # <<>>
  PROVE  /\ Tx(s) \in Txs
         /\ Token[Tx(s)] \in Tokens
         /\ Amount[Tx(s)] \in Int
         /\ SequenceOf(Tx(s)) \in SeqNos
         /\ Nonce[Tx(s)] \in Nonces
         /\ Limit[Token[Tx(s)]] \in Nat
         /\ Rest(batch[s]) \in Seq(Txs)
<1>1. batch[s] \in Seq(Txs)  BY DEF TypeOK
<1>2. Head(batch[s]) \in Txs /\ Tail(batch[s]) \in Seq(Txs)  BY <1>1
<1>3. Tx(s) \in Txs /\ Rest(batch[s]) \in Seq(Txs)  BY <1>2 DEF Tx, Rest
<1> QED  BY <1>3, SyncAssumption DEF Nonces, SeqNos, SequenceOf

\* A step that leaves the tables, inserts and updates alone keeps the invariant.
LEMMA QuietFacts ==
  ASSUME IInv, UNCHANGED <<recorded, used, inserted, usage, locks>>,
         closed' \in SUBSET Tokens,
         nonces' \in [Nonces -> {"none", "kept", "expiring"}],
         lastSeq' \in [Tokens -> SeqNos],
         place' \in [Sessions -> Places],
         batch' \in [Sessions -> Seq(Txs)],
         loaded' \in [Sessions -> Int],
         LoadedWithinLimit'
  PROVE  IInv'
BY DEF IInv, TypeOK, RecordedOnce, InsertedOnce, RowWithinLimit, WrittenWithinLimit

\* A session that goes to another place with the token it has loaded, if any.
LEMMA MoveFacts ==
  ASSUME IInv, NEW s \in Sessions, NEW p \in Places, Goto(s, p),
         p \in Holding => place[s] \in Holding,
         UNCHANGED <<batch, loaded>>
  PROVE  place' \in [Sessions -> Places] /\ LoadedWithinLimit'
BY DEF IInv, TypeOK, Goto, LoadedWithinLimit, Fits

\* A session that has answered the current transaction holds no token.
LEMMA AnswerFacts ==
  ASSUME IInv, NEW s \in Sessions, batch[s] # <<>>, Answer(s), UNCHANGED loaded
  PROVE  /\ place' \in [Sessions -> Places]
         /\ batch' \in [Sessions -> Seq(Txs)]
         /\ LoadedWithinLimit'
<1>1. Rest(batch[s]) \in Seq(Txs)  BY CurrentFacts DEF IInv
<1>2. place' \in [Sessions -> Places] /\ batch' \in [Sessions -> Seq(Txs)]
  BY <1>1 DEF IInv, TypeOK, Answer, Goto, Places
<1>3. /\ place'[s] = "processing"
      /\ \A r \in Sessions \ {s} : place'[r] = place[r] /\ batch'[r] = batch[r]
  BY DEF IInv, TypeOK, Answer, Goto
<1>4. LoadedWithinLimit'
  BY <1>3 DEF IInv, LoadedWithinLimit, Fits, Holding
<1> QED  BY <1>2, <1>4

LEMMA RefuseFacts ==
  ASSUME IInv, NEW s \in Sessions, batch[s] # <<>>, Refuse(s)
  PROVE  IInv'
<1>1. Answer(s) /\ UNCHANGED <<shared, loaded, inserted, usage, locks>>
  BY DEF Refuse
<1>2. /\ place' \in [Sessions -> Places]
      /\ batch' \in [Sessions -> Seq(Txs)]
      /\ LoadedWithinLimit'
  BY <1>1, AnswerFacts
<1> QED  BY <1>1, <1>2, QuietFacts DEF IInv, TypeOK, shared

-----------------------------------------------------------------------------
\* Ending a session drops what it owns and nothing else.
LEMMA EndFacts ==
  ASSUME IInv, NEW s \in Sessions, End(s)
  PROVE  /\ place' \in [Sessions -> Places]
         /\ batch' \in [Sessions -> Seq(Txs)]
         /\ loaded' \in [Sessions -> Int]
         /\ inserted' \in [Sessions -> SUBSET Txs]
         /\ usage' \in [Sessions -> [Tokens -> Int]]
         /\ locks' \in [Sessions -> SUBSET Tokens]
         /\ inserted'[s] = {}
         /\ \A r \in Sessions \ {s} : inserted'[r] = inserted[r]
         /\ WrittenWithinLimit' /\ LoadedWithinLimit'
<1>1. <<>> \in Seq(Txs)  OBVIOUS
<1>2. NoUsage \in [Tokens -> Int]  BY DEF NoUsage
<1>3. place' \in [Sessions -> Places] /\ loaded' \in [Sessions -> Int]
  BY DEF IInv, TypeOK, End, Places
<1>4. batch' \in [Sessions -> Seq(Txs)]
  BY <1>1 DEF IInv, TypeOK, End
<1>5. /\ inserted' \in [Sessions -> SUBSET Txs]
      /\ locks' \in [Sessions -> SUBSET Tokens]
  BY DEF IInv, TypeOK, End
<1>6. usage' \in [Sessions -> [Tokens -> Int]]
  BY <1>2 DEF IInv, TypeOK, End
<1>7. /\ inserted'[s] = {} /\ locks'[s] = {} /\ place'[s] = "idle"
      /\ \A r \in Sessions \ {s} :
           /\ inserted'[r] = inserted[r] /\ locks'[r] = locks[r]
           /\ usage'[r] = usage[r] /\ place'[r] = place[r]
           /\ batch'[r] = batch[r] /\ loaded'[r] = loaded[r]
  BY DEF IInv, TypeOK, End
<1>8. WrittenWithinLimit'
  BY <1>7 DEF IInv, WrittenWithinLimit
<1>9. LoadedWithinLimit'
  BY <1>7 DEF IInv, LoadedWithinLimit, Fits, Holding
<1> QED  BY <1>3, <1>4, <1>5, <1>6, <1>7, <1>8, <1>9

\* A rolled back session leaves the tables as they were.
LEMMA AbortFacts ==
  ASSUME IInv, NEW s \in Sessions, Abort(s)
  PROVE  IInv'
<1>1. End(s) /\ UNCHANGED <<recorded, used, closed, nonces, lastSeq>>
  BY DEF Abort, UsedAfterAbort
<1>2. TypeOK'  BY <1>1, EndFacts DEF IInv, TypeOK
<1>3. RecordedOnce' /\ RowWithinLimit'
  BY <1>1 DEF IInv, RecordedOnce, RowWithinLimit
<1>4. InsertedOnce'
  <2>1. \A r \in Sessions : inserted'[r] \subseteq inserted[r]  BY <1>1, EndFacts
  <2> QED  BY <1>1, <2>1 DEF IInv, InsertedOnce
<1> QED  BY <1>1, <1>2, <1>3, <1>4, EndFacts DEF IInv

\* A commit adds rows that clash with none, and usage within the limits.
LEMMA CommitFacts ==
  ASSUME IInv, NEW s \in Sessions, Commit(s)
  PROVE  IInv'
<1>1. /\ End(s) /\ UNCHANGED <<closed, nonces, lastSeq>>
      /\ recorded' = recorded \cup inserted[s]
      /\ used' = [t \in Tokens |-> UsageSeen(s, t)]
  BY DEF Commit, Written
<1>2. \A t \in Tokens : UsageSeen(s, t) \in Int /\ UsageSeen(s, t) <= Limit[t]
  BY DEF IInv, TypeOK, UsageSeen, RowWithinLimit, WrittenWithinLimit
<1>3. used' \in [Tokens -> Int] /\ RowWithinLimit'
  BY <1>1, <1>2 DEF RowWithinLimit
<1>4. recorded' \in SUBSET Txs  BY <1>1 DEF IInv, TypeOK
<1>5. TypeOK'  BY <1>1, <1>3, <1>4, EndFacts DEF IInv, TypeOK
<1>6. RecordedOnce'
  BY <1>1 DEF IInv, RecordedOnce, InsertedOnce, Distinct, Clash
<1>7. InsertedOnce'
  <2>1. inserted'[s] = {} /\ \A r \in Sessions \ {s} : inserted'[r] = inserted[r]
    BY <1>1, EndFacts
  <2> QED  BY <1>1, <2>1 DEF IInv, InsertedOnce
<1> QED  BY <1>1, <1>3, <1>5, <1>6, <1>7, EndFacts DEF IInv

\* An insert that neither waits nor fails clashes with no row anywhere.
LEMMA InsertFacts ==
  ASSUME IInv, NEW s \in Sessions, Insert(s)
  PROVE  IInv'
<1> DEFINE x == Tx(s)
<1>1. x \in Txs  BY CurrentFacts DEF IInv, Insert, At
<1>2. /\ \A y \in recorded \cup inserted[s] : Distinct(x, y) /\ Distinct(y, x)
      /\ \A r \in Sessions \ {s} : \A y \in inserted[r] : Distinct(x, y) /\ Distinct(y, x)
  BY DEF Insert, InsertFree, InsertWaits, Violates, Visible, Distinct, Clash
<1>3. inserted' = [inserted EXCEPT ![s] = @ \cup {x}]  BY DEF Insert
<1> HIDE DEF x
<1>4. inserted' \in [Sessions -> SUBSET Txs]
  BY <1>1, <1>3 DEF IInv, TypeOK
<1>5. /\ inserted'[s] = inserted[s] \cup {x}
      /\ \A r \in Sessions \ {s} : inserted'[r] = inserted[r]
  BY <1>3 DEF IInv, TypeOK
<1>6. UNCHANGED <<recorded, used, closed, nonces, lastSeq, usage, locks>>
  BY DEF Insert, shared
<1>7. place' \in [Sessions -> Places] /\ LoadedWithinLimit'
  <2>1. /\ Goto(s, "sequencing") /\ place[s] = "inserting"
        /\ UNCHANGED <<batch, loaded>>
    BY DEF Insert, At
  <2> QED  BY <2>1, MoveFacts DEF Places, Holding
<1>8. TypeOK'
  BY <1>4, <1>6, <1>7 DEF Insert, IInv, TypeOK
<1>9. InsertedOnce'
  BY <1>2, <1>5, <1>6 DEF IInv, InsertedOnce, Distinct, Clash
<1> QED  BY <1>6, <1>7, <1>8, <1>9
           DEF IInv, RecordedOnce, RowWithinLimit, WrittenWithinLimit

\* The value a token is charged to was checked when the token was loaded.
LEMMA ChargeFacts ==
  ASSUME IInv, NEW s \in Sessions, Charge(s)
  PROVE  IInv'
<1> DEFINE t == Token[Tx(s)]
           n == loaded[s] + Amount[Tx(s)]
<1>1. batch[s] # <<>> /\ place[s] = "charging"  BY DEF Charge, At
<1>2. t \in Tokens /\ n \in Int  BY <1>1, CurrentFacts DEF IInv, TypeOK
<1>3. n <= Limit[t]
  BY <1>1 DEF IInv, LoadedWithinLimit, Fits, Holding, Tx
<1>4. /\ usage' = [usage EXCEPT ![s][t] = n]
      /\ locks' = [locks EXCEPT ![s] = @ \cup {t}]
      /\ Answer(s)
      /\ UNCHANGED <<shared, loaded, inserted>>
  BY DEF Charge
<1> HIDE DEF t, n
<1>5. usage' \in [Sessions -> [Tokens -> Int]] /\ locks' \in [Sessions -> SUBSET Tokens]
  BY <1>2, <1>4 DEF IInv, TypeOK
<1>6. /\ place' \in [Sessions -> Places]
      /\ batch' \in [Sessions -> Seq(Txs)]
      /\ LoadedWithinLimit'
  BY <1>1, <1>4, AnswerFacts
<1>7. TypeOK'  BY <1>4, <1>5, <1>6 DEF IInv, TypeOK, shared
<1>8. WrittenWithinLimit'
  <2> SUFFICES ASSUME NEW r \in Sessions, NEW v \in locks'[r]
               PROVE  usage'[r][v] <= Limit[v]
    BY DEF WrittenWithinLimit
  <2>1. v \in Tokens  BY <1>5
  <2>2. CASE r = s /\ v = t
    <3>1. usage'[r][v] = n  BY <1>2, <1>4, <2>2 DEF IInv, TypeOK
    <3> QED  BY <3>1, <2>2, <1>3
  <2>3. CASE ~(r = s /\ v = t)
    <3>1. usage'[r][v] = usage[r][v] /\ v \in locks[r]
      BY <1>2, <1>4, <2>1, <2>3 DEF IInv, TypeOK
    <3> QED  BY <3>1 DEF IInv, WrittenWithinLimit
  <2> QED  BY <2>2, <2>3
<1>9. RecordedOnce' /\ InsertedOnce' /\ RowWithinLimit'
  BY <1>4 DEF IInv, RecordedOnce, InsertedOnce, RowWithinLimit, shared
<1> QED  BY <1>6, <1>7, <1>8, <1>9 DEF IInv

\* The check is made against the token as loaded.
LEMMA CheckTokenFacts ==
  ASSUME IInv, NEW s \in Sessions, CheckToken(s)
  PROVE  IInv'
<1> DEFINE n == UsageSeen(s, Token[Tx(s)])
<1>1. batch[s] # <<>>  BY DEF CheckToken, At
<1>2. n \in Int  BY <1>1, CurrentFacts DEF IInv, TypeOK, UsageSeen
<1>3. Amount[Tx(s)] <= Limit[Token[Tx(s)]] - n
  BY DEF CheckToken, Admissible, HasRoom
<1>4. n + Amount[Tx(s)] <= Limit[Token[Tx(s)]]
  <2>1. \A a, b, c \in Int : a <= b - c => c + a <= b  OBVIOUS
  <2>2. Amount[Tx(s)] \in Int /\ Limit[Token[Tx(s)]] \in Int
    BY <1>1, CurrentFacts DEF IInv
  <2> QED  BY <1>2, <1>3, <2>1, <2>2
<1>5. /\ loaded' = [loaded EXCEPT ![s] = n]
      /\ place' = [place EXCEPT ![s] = "admitted"]
      /\ UNCHANGED <<shared, batch, inserted, usage, locks>>
  BY DEF CheckToken, Goto
<1>6. Fits(n, batch[s])  BY <1>4 DEF Fits, Tx
<1> HIDE DEF n
<1>7. place' \in [Sessions -> Places] /\ loaded' \in [Sessions -> Int]
  BY <1>2, <1>5 DEF IInv, TypeOK, Places
<1>8. LoadedWithinLimit'
  <2>1. /\ loaded'[s] = n /\ batch' = batch
        /\ \A r \in Sessions \ {s} : loaded'[r] = loaded[r] /\ place'[r] = place[r]
    BY <1>5 DEF IInv, TypeOK
  <2> QED  BY <1>6, <2>1 DEF IInv, LoadedWithinLimit, Fits
<1> QED  BY <1>5, <1>7, <1>8, QuietFacts DEF IInv, TypeOK, shared

-----------------------------------------------------------------------------
LEMMA InitFacts == Init => IInv
<1> SUFFICES ASSUME Init  PROVE IInv
  OBVIOUS
<1>1. /\ NoUsage \in [Tokens -> Int] /\ NoUsage \in [Tokens -> SeqNos]
      /\ <<>> \in Seq(Txs)
  BY DEF NoUsage, SeqNos
<1>2. TypeOK  BY <1>1 DEF Init, TypeOK, Places
<1>3. RowWithinLimit
  <2>1. \A t \in Tokens : used[t] = 0 /\ Limit[t] \in Nat
    BY SyncAssumption DEF Init, NoUsage
  <2> QED  BY <2>1 DEF RowWithinLimit
<1> QED  BY <1>2, <1>3 DEF Init, IInv, RecordedOnce, InsertedOnce,
            WrittenWithinLimit, LoadedWithinLimit, Holding

LEMMA StepFacts ==
  ASSUME IInv, NEW s \in Sessions, Step(s)
  PROVE  IInv'
<1>1. CASE AnswerDuplicate(s) \/ RefuseToken(s) \/ RefuseReplay(s) \/ RefuseSequence(s)
  BY <1>1, RefuseFacts DEF AnswerDuplicate, RefuseToken, RefuseReplay, RefuseSequence, At
<1>2. CASE CheckDuplicate(s)
  <2>1. /\ Goto(s, "checking")
        /\ UNCHANGED <<shared, batch, loaded, inserted, usage, locks>>
    BY <1>2 DEF CheckDuplicate
  <2>2. place' \in [Sessions -> Places] /\ LoadedWithinLimit'
    BY <2>1, MoveFacts DEF Places, Holding
  <2> QED  BY <2>1, <2>2, QuietFacts DEF IInv, TypeOK, shared
<1>3. CASE CheckToken(s)
  BY <1>3, CheckTokenFacts
<1>4. CASE StoreNonce(s) \/ ExpireNonce(s)
  <2>1. /\ \/ place[s] = "admitted" /\ Goto(s, "stored")
           \/ place[s] = "stored" /\ Goto(s, "ordering")
        /\ batch[s] # <<>>
        /\ UNCHANGED <<recorded, used, closed, lastSeq, batch, loaded, inserted, usage, locks>>
    BY <1>4 DEF StoreNonce, ExpireNonce, At
  <2>2. nonces' \in [Nonces -> {"none", "kept", "expiring"}]
    BY <1>4 DEF StoreNonce, ExpireNonce, IInv, TypeOK
  <2>3. place' \in [Sessions -> Places] /\ LoadedWithinLimit'
    BY <2>1, MoveFacts DEF Places, Holding
  <2> QED  BY <2>1, <2>2, <2>3, QuietFacts DEF IInv, TypeOK
<1>5. CASE CheckSequence(s)
  <2>1. /\ place[s] = "ordering" /\ Goto(s, "inserting")
        /\ UNCHANGED <<shared, batch, loaded, inserted, usage, locks>>
    BY <1>5 DEF CheckSequence, At
  <2>2. place' \in [Sessions -> Places] /\ LoadedWithinLimit'
    BY <2>1, MoveFacts DEF Places, Holding
  <2> QED  BY <2>1, <2>2, QuietFacts DEF IInv, TypeOK, shared
<1>6. CASE SetSequence(s)
  <2>1. /\ place[s] = "sequencing" /\ Goto(s, "charging") /\ batch[s] # <<>>
        /\ UNCHANGED <<recorded, used, closed, nonces, batch, loaded, inserted, usage, locks>>
    BY <1>6 DEF SetSequence, At
  <2>2. lastSeq' \in [Tokens -> SeqNos]
    BY <1>6, <2>1, CurrentFacts DEF SetSequence, IInv, TypeOK
  <2>3. place' \in [Sessions -> Places] /\ LoadedWithinLimit'
    BY <2>1, MoveFacts DEF Places, Holding
  <2> QED  BY <2>1, <2>2, <2>3, QuietFacts DEF IInv, TypeOK
<1>7. CASE Raise(s) \/ DeadlockVictim(s)
  BY <1>7, AbortFacts DEF Raise, DeadlockVictim
<1>8. CASE Commit(s)
  BY <1>8, CommitFacts
<1> QED  BY <1>1, <1>2, <1>3, <1>4, <1>5, <1>6, <1>7, <1>8 DEF Step

LEMMA NextFacts == IInv /\ [Next]_vars => IInv'
<1> SUFFICES ASSUME IInv, [Next]_vars  PROVE IInv'
  OBVIOUS
<1>1. ASSUME NEW s \in Sessions, SyncBatch(s)  PROVE IInv'
  <2>1. PICK b \in Batches[s] : batch' = [batch EXCEPT ![s] = b]
    BY <1>1 DEF SyncBatch
  <2>2. b \in Seq(Txs)  BY SyncAssumption
  <2>3. place' \in [Sessions -> Places] /\ batch' \in [Sessions -> Seq(Txs)]
    BY <1>1, <2>1, <2>2 DEF SyncBatch, IInv, TypeOK, Places
  <2>4. LoadedWithinLimit'
    <3>1. /\ place'[s] = "processing" /\ loaded' = loaded
          /\ \A r \in Sessions \ {s} : place'[r] = place[r] /\ batch'[r] = batch[r]
      BY <1>1, <2>1 DEF SyncBatch, IInv, TypeOK
    <3> QED  BY <3>1 DEF IInv, LoadedWithinLimit, Fits, Holding
  <2> QED  BY <1>1, <2>3, <2>4, QuietFacts DEF SyncBatch, IInv, TypeOK, shared
<1>2. ASSUME NEW s \in Sessions, Step(s)  PROVE IInv'
  BY <1>2, StepFacts
<1>3. ASSUME NEW s \in Sessions, Wait(s)  PROVE IInv'
  BY <1>3, InsertFacts, ChargeFacts, AbortFacts DEF Wait, Conflict
<1>4. ASSUME NEW s \in Sessions, Crash(s)  PROVE IInv'
  BY <1>4, AbortFacts DEF Crash
<1>5. ASSUME NEW t \in Tokens, CloseToken(t) \/ SequenceExpires(t)  PROVE IInv'
  <2>1. UNCHANGED <<recorded, used, nonces, session>>
    BY <1>5 DEF CloseToken, SequenceExpires
  <2>2. closed' \in SUBSET Tokens /\ lastSeq' \in [Tokens -> SeqNos]
    BY <1>5 DEF CloseToken, SequenceExpires, IInv, TypeOK, SeqNos
  <2>3. LoadedWithinLimit'
    BY <2>1 DEF session, IInv, LoadedWithinLimit, Fits
  <2> QED  BY <2>1, <2>2, <2>3, QuietFacts DEF IInv, TypeOK, session
<1>6. ASSUME NEW n \in Nonces, NonceExpires(n)  PROVE IInv'
  <2>1. UNCHANGED <<recorded, used, closed, lastSeq, session>>
    BY <1>6 DEF NonceExpires
  <2>2. nonces' \in [Nonces -> {"none", "kept", "expiring"}]
    BY <1>6 DEF NonceExpires, IInv, TypeOK
  <2>3. LoadedWithinLimit'
    BY <2>1 DEF session, IInv, LoadedWithinLimit, Fits
  <2> QED  BY <2>1, <2>2, <2>3, QuietFacts DEF IInv, TypeOK, session
<1>7. CASE UNCHANGED vars
  BY <1>7 DEF vars, shared, session, IInv, TypeOK, RecordedOnce, InsertedOnce,
              RowWithinLimit, WrittenWithinLimit, LoadedWithinLimit, Fits
<1> QED  BY <1>1, <1>2, <1>3, <1>4, <1>5, <1>6, <1>7 DEF Next

-----------------------------------------------------------------------------
(* ChargedIsRecorded: what a session writes for a token is the sum of some of  *)
(* the rows on record and of those it has inserted and charged.                *)

Inserting(s) == place[s] \in {"sequencing", "charging"}
Charged(s) == inserted[s] \ IF Inserting(s) THEN {Tx(s)} ELSE {}
Paid(s, t) == {x \in recorded \cup Charged(s) : Token[x] = t}

\* n is the sum of some of the payments in P.
SumOfSome(n, P) == \E S \in SUBSET P : n = SumFunctionOnSet(Amount, S)

SessionBooks(s) ==
  /\ IsFiniteSet(inserted[s])
  /\ Inserting(s) => Tx(s) \in inserted[s]
  /\ place[s] \in Holding => SumOfSome(loaded[s], Paid(s, Token[Tx(s)]))
  /\ \A t \in locks[s] : SumOfSome(usage[s][t], Paid(s, t))

BooksInv == /\ IsFiniteSet(recorded)
            /\ \A s \in Sessions : SessionBooks(s)
            /\ ChargedIsRecorded

\* What is the sum of some payments is so when there are more.
LEMMA MoreFacts ==
  ASSUME NEW n, NEW P, NEW Q, P \subseteq Q, SumOfSome(n, P)
  PROVE  SumOfSome(n, Q)
BY DEF SumOfSome

LEMMA PaidFacts ==
  ASSUME TypeOK, BooksInv, NEW s \in Sessions, NEW t
  PROVE  /\ Paid(s, t) \in SUBSET Txs /\ IsFiniteSet(Paid(s, t))
         /\ OnRecord(t) \subseteq Paid(s, t)
<1>1. recorded \in SUBSET Txs /\ inserted[s] \in SUBSET Txs
  BY DEF TypeOK
<1>2. IsFiniteSet(recorded) /\ IsFiniteSet(inserted[s])
  BY DEF BooksInv, SessionBooks
<1>3. IsFiniteSet(recorded \cup inserted[s])
  BY <1>2, FS_Union
<1>4. Paid(s, t) \subseteq recorded \cup inserted[s]
  BY DEF Paid, Charged
<1>5. Paid(s, t) \in SUBSET Txs /\ IsFiniteSet(Paid(s, t))
  BY <1>1, <1>3, <1>4, FS_Subset
<1> QED  BY <1>5 DEF OnRecord, Paid

\* More rows on record do not disturb what a session has loaded or written, nor
\* does a step that leaves what it has charged as it was.
LEMMA KeptFacts ==
  ASSUME BooksInv, NEW s \in Sessions,
         recorded \subseteq recorded',
         IsFiniteSet(inserted'[s]), Inserting(s)' => Tx(s)' \in inserted'[s],
         Charged(s) \subseteq Charged(s)',
         place'[s] \in Holding => /\ place[s] \in Holding /\ loaded'[s] = loaded[s]
                                  /\ batch'[s] = batch[s],
         locks'[s] = locks[s], usage'[s] = usage[s]
  PROVE  SessionBooks(s)'
<1>1. \A t : Paid(s, t) \subseteq Paid(s, t)'
  BY DEF Paid
<1>2. ASSUME NEW t \in locks'[s] PROVE SumOfSome(usage'[s][t], Paid(s, t)')
  <2>1. SumOfSome(usage[s][t], Paid(s, t))
    BY <1>2 DEF BooksInv, SessionBooks
  <2> QED  BY <1>1, <2>1, MoreFacts
<1>3. ASSUME place'[s] \in Holding PROVE SumOfSome(loaded'[s], Paid(s, Token[Tx(s)])')
  <2>1. SumOfSome(loaded[s], Paid(s, Token[Tx(s)])) /\ loaded'[s] = loaded[s]
    BY <1>3 DEF BooksInv, SessionBooks
  <2>2. Paid(s, Token[Tx(s)]) \subseteq Paid(s, Token[Tx(s)])'
    BY <1>3 DEF Paid, Tx
  <2> QED  BY <2>1, <2>2, MoreFacts
<1> QED  BY <1>2, <1>3 DEF SessionBooks, SumOfSome

LEMMA OthersKeptFacts ==
  ASSUME BooksInv, NEW r \in Sessions,
         recorded \subseteq recorded',
         place'[r] = place[r], batch'[r] = batch[r], loaded'[r] = loaded[r],
         inserted'[r] = inserted[r], usage'[r] = usage[r], locks'[r] = locks[r]
  PROVE  SessionBooks(r)'
<1>1. IsFiniteSet(inserted'[r]) /\ (Inserting(r) => Tx(r) \in inserted[r])
  BY DEF BooksInv, SessionBooks
<1>2. Inserting(r)' = Inserting(r) /\ Tx(r)' = Tx(r)
  BY DEF Inserting, Tx
<1>3. Charged(r)' = Charged(r)
  BY <1>2 DEF Charged
<1> QED  BY <1>1, <1>2, <1>3, KeptFacts

\* One session takes a step, and nothing on record changes.
LEMMA UnrecordedFacts ==
  ASSUME BooksInv, NEW s \in Sessions, UNCHANGED <<recorded, used>>,
         \A r \in Sessions \ {s} :
           /\ place'[r] = place[r] /\ batch'[r] = batch[r] /\ loaded'[r] = loaded[r]
           /\ inserted'[r] = inserted[r] /\ usage'[r] = usage[r] /\ locks'[r] = locks[r],
         SessionBooks(s)'
  PROVE  BooksInv'
<1>1. IsFiniteSet(recorded') /\ recorded \subseteq recorded'
  BY DEF BooksInv
<1>2. \A r \in Sessions \ {s} : SessionBooks(r)'
  BY <1>1, OthersKeptFacts
<1>3. ChargedIsRecorded'
  BY DEF BooksInv, ChargedIsRecorded, OnRecord
<1> QED  BY <1>1, <1>2, <1>3 DEF BooksInv

\* A session moves on with the token it has loaded, or with none.
LEMMA MoveBooksFacts ==
  ASSUME BooksInv, NEW s \in Sessions,
         UNCHANGED <<recorded, used, loaded, inserted, usage, locks>>,
         \A r \in Sessions \ {s} : place'[r] = place[r] /\ batch'[r] = batch[r],
         Inserting(s)' => Inserting(s) /\ batch'[s] = batch[s],
         place'[s] \in Holding => place[s] \in Holding /\ batch'[s] = batch[s]
  PROVE  BooksInv'
<1>1. IsFiniteSet(recorded') /\ recorded \subseteq recorded' /\ IsFiniteSet(inserted'[s])
  BY DEF BooksInv, SessionBooks
<1>2. Inserting(s)' => Tx(s)' = Tx(s) /\ Tx(s)' \in inserted'[s]
  BY DEF BooksInv, SessionBooks, Tx
<1>3. Charged(s) \subseteq Charged(s)'
  BY <1>2 DEF Charged
<1>4. SessionBooks(s)'
  BY <1>1, <1>2, <1>3, KeptFacts
<1> QED  BY <1>4, UnrecordedFacts

LEMMA GotoBooksFacts ==
  ASSUME TypeOK, BooksInv, NEW s \in Sessions, NEW p \in Places, Goto(s, p),
         p \in {"sequencing", "charging"} => Inserting(s),
         p \in Holding => place[s] \in Holding,
         UNCHANGED <<recorded, used, batch, loaded, inserted, usage, locks>>
  PROVE  BooksInv'
<1>1. place'[s] = p /\ \A r \in Sessions \ {s} : place'[r] = place[r]
  BY DEF Goto, TypeOK
<1>2. Inserting(s)' => Inserting(s)
  BY <1>1 DEF Inserting
<1> QED  BY <1>1, <1>2, MoveBooksFacts

LEMMA RefuseBooksFacts ==
  ASSUME TypeOK, BooksInv, NEW s \in Sessions, Refuse(s)
  PROVE  BooksInv'
<1>1. /\ place' = [place EXCEPT ![s] = "processing"]
      /\ batch' = [batch EXCEPT ![s] = Rest(@)]
      /\ UNCHANGED <<recorded, used, loaded, inserted, usage, locks>>
  BY DEF Refuse, Answer, Goto, shared
<1>2. /\ place'[s] = "processing"
      /\ \A r \in Sessions \ {s} : place'[r] = place[r] /\ batch'[r] = batch[r]
  BY <1>1 DEF TypeOK
<1>3. ~Inserting(s)' /\ place'[s] \notin Holding
  BY <1>2 DEF Inserting, Holding
<1> QED  BY <1>1, <1>2, <1>3, MoveBooksFacts

\* What is loaded has been charged for rows on record or the session's own.
LEMMA CheckTokenBooksFacts ==
  ASSUME TypeOK, BooksInv, NEW s \in Sessions, CheckToken(s)
  PROVE  BooksInv'
<1> DEFINE t == Token[Tx(s)]
           n == UsageSeen(s, t)
<1>1. /\ loaded' = [loaded EXCEPT ![s] = n] /\ place' = [place EXCEPT ![s] = "admitted"]
      /\ UNCHANGED <<recorded, used, batch, inserted, usage, locks>>
      /\ place[s] = "checking" /\ batch[s] # <<>>
  BY DEF CheckToken, Goto, shared, At
<1>2. /\ loaded'[s] = n /\ place'[s] = "admitted"
      /\ \A r \in Sessions \ {s} : place'[r] = place[r] /\ loaded'[r] = loaded[r]
  BY <1>1 DEF TypeOK
<1>3. ~Inserting(s) /\ ~Inserting(s)'
  BY <1>1, <1>2 DEF Inserting
<1>4. Charged(s)' = Charged(s) /\ \A x : Paid(s, x)' = Paid(s, x)
  BY <1>1, <1>3 DEF Charged, Paid
<1>5. t \in Tokens
  BY <1>1, CurrentFacts
<1>6. SumOfSome(n, Paid(s, t))
  <2>1. CASE t \in locks[s]
    BY <2>1 DEF UsageSeen, BooksInv, SessionBooks
  <2>2. CASE t \notin locks[s]
    <3>1. n = used[t] /\ SumOfSome(used[t], OnRecord(t))
      BY <1>5, <2>2 DEF UsageSeen, BooksInv, ChargedIsRecorded, SumOfSome
    <3> QED  BY <3>1, PaidFacts, MoreFacts
  <2> QED  BY <2>1, <2>2
<1>7. SumOfSome(loaded'[s], Paid(s, Token[Tx(s)])')
  <2>1. Paid(s, Token[Tx(s)])' = Paid(s, t)
    BY <1>1, <1>4 DEF Paid, Tx
  <2> HIDE DEF t, n
  <2> QED  BY <1>2, <1>6, <2>1
<1>8. \A x \in locks'[s] : SumOfSome(usage'[s][x], Paid(s, x)')
  BY <1>1, <1>4 DEF BooksInv, SessionBooks
<1>9. SessionBooks(s)'
  BY <1>1, <1>3, <1>7, <1>8 DEF BooksInv, SessionBooks, SumOfSome
<1> QED  BY <1>1, <1>2, <1>9, UnrecordedFacts

\* An inserted row is not charged yet.
LEMMA InsertBooksFacts ==
  ASSUME TypeOK, BooksInv, NEW s \in Sessions, Insert(s)
  PROVE  BooksInv'
<1> DEFINE x == Tx(s)
<1>1. /\ place' = [place EXCEPT ![s] = "sequencing"]
      /\ inserted' = [inserted EXCEPT ![s] = @ \cup {x}]
      /\ UNCHANGED <<recorded, used, batch, loaded, usage, locks>>
      /\ place[s] = "inserting"
  BY DEF Insert, Goto, shared, At
<1>2. /\ place'[s] = "sequencing" /\ inserted'[s] = inserted[s] \cup {x}
      /\ \A r \in Sessions \ {s} : place'[r] = place[r] /\ inserted'[r] = inserted[r]
  BY <1>1 DEF TypeOK
<1>3. x \notin inserted[s]
  BY DEF Insert, Violates, Visible, Clash
<1>4. IsFiniteSet(inserted'[s]) /\ IsFiniteSet(recorded')
  BY <1>1, <1>2, FS_AddElement DEF BooksInv, SessionBooks
<1>5. Inserting(s)' /\ ~Inserting(s) /\ Tx(s)' = x
  BY <1>1, <1>2 DEF Inserting, Tx
<1>6. Charged(s)' = Charged(s)
  BY <1>2, <1>3, <1>5 DEF Charged
<1>7. SessionBooks(s)'
  BY <1>1, <1>2, <1>4, <1>5, <1>6, KeptFacts DEF Holding
<1> QED  BY <1>1, <1>2, <1>7, UnrecordedFacts

\* A charge adds the amount of the inserted row to what was loaded.
LEMMA ChargeBooksFacts ==
  ASSUME IInv, BooksInv, NEW s \in Sessions, Charge(s)
  PROVE  BooksInv'
<1>0. PICK x, t : x = Tx(s) /\ t = Token[x]
  OBVIOUS
<1> DEFINE n == loaded[s] + Amount[x]
<1>1. /\ usage' = [usage EXCEPT ![s][t] = n] /\ locks' = [locks EXCEPT ![s] = @ \cup {t}]
      /\ place' = [place EXCEPT ![s] = "processing"]
      /\ batch' = [batch EXCEPT ![s] = Rest(@)]
      /\ UNCHANGED <<recorded, used, loaded, inserted>>
      /\ place[s] = "charging" /\ batch[s] # <<>>
  BY <1>0 DEF Charge, Answer, Goto, shared, At
<1>2. TypeOK /\ t \in Tokens /\ x \in Txs /\ Amount[x] \in Int /\ loaded[s] \in Int
  BY <1>0, <1>1, CurrentFacts DEF IInv, TypeOK
<1>3. /\ place'[s] = "processing"
      /\ \A r \in Sessions \ {s} : /\ place'[r] = place[r] /\ batch'[r] = batch[r]
                                   /\ usage'[r] = usage[r] /\ locks'[r] = locks[r]
  BY <1>1 DEF IInv, TypeOK
<1>4. Inserting(s) /\ ~Inserting(s)'
  BY <1>1, <1>3 DEF Inserting
<1>5. x \in inserted[s] /\ x \notin recorded
  BY <1>0, <1>4 DEF BooksInv, SessionBooks, IInv, InsertedOnce, Distinct, Clash
<1>6. Charged(s)' = inserted[s] /\ Charged(s) = inserted[s] \ {x} /\ recorded' = recorded
  BY <1>0, <1>1, <1>4 DEF Charged
<1>7. /\ Paid(s, t)' = Paid(s, t) \cup {x} /\ x \notin Paid(s, t)
      /\ \A v : v # t => Paid(s, v)' = Paid(s, v)
  BY <1>0, <1>5, <1>6 DEF Paid
<1>8. SumOfSome(n, Paid(s, t)')
  <2>1. PICK S \in SUBSET Paid(s, t) : loaded[s] = SumFunctionOnSet(Amount, S)
    BY <1>0, <1>1 DEF BooksInv, SessionBooks, Holding, SumOfSome
  <2>2. S \in SUBSET Txs /\ IsFiniteSet(S) /\ x \notin S
    BY <1>2, <1>7, <2>1, PaidFacts, FS_Subset
  <2>3. \A y \in S \cup {x} : Amount[y] \in Int
    BY <1>2, <2>2, SyncAssumption
  <2>4. SumFunctionOnSet(Amount, S \cup {x}) = Amount[x] + SumFunctionOnSet(Amount, S)
    BY <2>2, <2>3, SumAdd
  <2>5. SumFunctionOnSet(Amount, S \cup {x}) = n
    BY <1>2, <2>1, <2>4
  <2>6. S \cup {x} \in SUBSET Paid(s, t)'
    BY <1>7, <2>1
  <2> HIDE DEF n
  <2> QED  BY <2>5, <2>6 DEF SumOfSome
<1>9. ASSUME NEW v \in locks'[s] PROVE SumOfSome(usage'[s][v], Paid(s, v)')
  <2>1. locks'[s] = locks[s] \cup {t} /\ locks[s] \subseteq Tokens
    BY <1>1, <1>2 DEF TypeOK
  <2>2. CASE v = t
    <3>1. usage'[s][t] = n
      BY <1>1, <1>2 DEF TypeOK
    <3> QED  BY <1>8, <2>2, <3>1
  <2>3. CASE v # t
    <3>1. usage'[s][v] = usage[s][v] /\ v \in locks[s]
      BY <1>1, <1>2, <1>9, <2>1, <2>3 DEF TypeOK
    <3> QED  BY <1>7, <2>3, <3>1 DEF BooksInv, SessionBooks
  <2> QED  BY <2>2, <2>3
<1>10. SessionBooks(s)'
  BY <1>1, <1>3, <1>4, <1>9 DEF BooksInv, SessionBooks, Holding, SumOfSome
<1> QED  BY <1>1, <1>2, <1>3, <1>10, UnrecordedFacts

\* A session that has ended has nothing to answer for.
LEMMA EndBooksFacts ==
  ASSUME TypeOK, NEW s \in Sessions, End(s)
  PROVE  /\ SessionBooks(s)'
         /\ \A r \in Sessions \ {s} :
              /\ place'[r] = place[r] /\ batch'[r] = batch[r] /\ loaded'[r] = loaded[r]
              /\ inserted'[r] = inserted[r] /\ usage'[r] = usage[r] /\ locks'[r] = locks[r]
<1>1. /\ place'[s] = "idle" /\ inserted'[s] = {} /\ locks'[s] = {}
      /\ \A r \in Sessions \ {s} :
           /\ place'[r] = place[r] /\ batch'[r] = batch[r] /\ loaded'[r] = loaded[r]
           /\ inserted'[r] = inserted[r] /\ usage'[r] = usage[r] /\ locks'[r] = locks[r]
  BY DEF TypeOK, End
<1>2. ~Inserting(s)' /\ place'[s] \notin Holding /\ IsFiniteSet(inserted'[s])
  BY <1>1, FS_EmptySet DEF Inserting, Holding
<1> QED  BY <1>1, <1>2 DEF SessionBooks

LEMMA AbortBooksFacts ==
  ASSUME TypeOK, BooksInv, NEW s \in Sessions, Abort(s)
  PROVE  BooksInv'
BY EndBooksFacts, UnrecordedFacts DEF Abort, UsedAfterAbort

\* A commit puts on record every row that what it writes was charged for.
LEMMA CommitBooksFacts ==
  ASSUME TypeOK, BooksInv, NEW s \in Sessions, Commit(s)
  PROVE  BooksInv'
<1>1. /\ recorded' = recorded \cup inserted[s] /\ used' = [t \in Tokens |-> UsageSeen(s, t)]
      /\ End(s) /\ place[s] = "processing"
  BY DEF Commit, Written
<1>2. IsFiniteSet(recorded') /\ recorded \subseteq recorded'
  BY <1>1, FS_Union DEF BooksInv, SessionBooks
<1>3. \A r \in Sessions : SessionBooks(r)'
  BY <1>1, <1>2, EndBooksFacts, OthersKeptFacts
<1>4. ASSUME NEW t \in Tokens PROVE SumOfSome(used'[t], OnRecord(t)')
  <2>1. OnRecord(t)' = Paid(s, t)
    <3>1. Charged(s) = inserted[s]
      BY <1>1 DEF Charged, Inserting
    <3> QED  BY <1>1, <3>1 DEF OnRecord, Paid
  <2>2. used'[t] = UsageSeen(s, t)
    BY <1>1
  <2>3. CASE t \in locks[s]
    BY <2>1, <2>2, <2>3 DEF UsageSeen, BooksInv, SessionBooks
  <2>4. CASE t \notin locks[s]
    <3>1. used'[t] = used[t] /\ SumOfSome(used[t], OnRecord(t))
      BY <2>2, <2>4 DEF UsageSeen, BooksInv, ChargedIsRecorded, SumOfSome
    <3>2. OnRecord(t) \subseteq OnRecord(t)'
      BY <1>2 DEF OnRecord
    <3> QED  BY <3>1, <3>2, MoreFacts
  <2> QED  BY <2>3, <2>4
<1>5. ChargedIsRecorded'
  BY <1>4 DEF ChargedIsRecorded, SumOfSome
<1> QED  BY <1>2, <1>3, <1>5 DEF BooksInv

LEMMA BooksNextFacts == IInv /\ BooksInv /\ [Next]_vars => BooksInv'
<1> SUFFICES ASSUME IInv, BooksInv, [Next]_vars PROVE BooksInv'
  OBVIOUS
<1>1. TypeOK /\ TypeOK'
  BY NextFacts DEF IInv
<1>2. ASSUME NEW s \in Sessions, SyncBatch(s) PROVE BooksInv'
  <2>1. /\ place'[s] = "processing"
        /\ \A r \in Sessions \ {s} : place'[r] = place[r] /\ batch'[r] = batch[r]
        /\ UNCHANGED <<recorded, used, loaded, inserted, usage, locks>>
    BY <1>1, <1>2 DEF SyncBatch, TypeOK, shared
  <2>2. ~Inserting(s)' /\ place'[s] \notin Holding
    BY <2>1 DEF Inserting, Holding
  <2> QED  BY <1>1, <2>1, <2>2, MoveBooksFacts
<1>3. ASSUME NEW s \in Sessions, Step(s) PROVE BooksInv'
  <2>1. CASE AnswerDuplicate(s) \/ RefuseToken(s) \/ RefuseReplay(s) \/ RefuseSequence(s)
    BY <1>1, <2>1, RefuseBooksFacts
       DEF AnswerDuplicate, RefuseToken, RefuseReplay, RefuseSequence
  <2>2. CASE CheckDuplicate(s)
    BY <1>1, <2>2, GotoBooksFacts DEF CheckDuplicate, Places, Holding, shared
  <2>3. CASE StoreNonce(s)
    BY <1>1, <2>3, GotoBooksFacts DEF StoreNonce, At, Places, Holding
  <2>4. CASE ExpireNonce(s)
    BY <1>1, <2>4, GotoBooksFacts DEF ExpireNonce, At, Places, Holding
  <2>5. CASE CheckSequence(s)
    BY <1>1, <2>5, GotoBooksFacts DEF CheckSequence, At, Places, Holding, shared
  <2>6. CASE SetSequence(s)
    BY <1>1, <2>6, GotoBooksFacts DEF SetSequence, At, Places, Holding, Inserting
  <2>7. CASE Raise(s) \/ DeadlockVictim(s)
    BY <1>1, <2>7, AbortBooksFacts DEF Raise, DeadlockVictim
  <2> QED
    BY <1>1, <1>3, <2>1, <2>2, <2>3, <2>4, <2>5, <2>6, <2>7,
       CheckTokenBooksFacts, CommitBooksFacts DEF Step
<1>4. ASSUME NEW s \in Sessions, Wait(s) \/ Crash(s) PROVE BooksInv'
  BY <1>1, <1>4, InsertBooksFacts, ChargeBooksFacts, AbortBooksFacts
     DEF Wait, Conflict, Crash
<1>5. ASSUME UNCHANGED <<recorded, used, session>> PROVE BooksInv'
  <2>1. \A r \in Sessions : SessionBooks(r)'
    BY <1>1, <1>5, OthersKeptFacts DEF session, BooksInv
  <2>2. ChargedIsRecorded'
    BY <1>5 DEF BooksInv, ChargedIsRecorded, OnRecord
  <2> QED  BY <1>5, <2>1, <2>2 DEF BooksInv
<1> QED
  BY <1>2, <1>3, <1>4, <1>5 DEF Next, CloseToken, SequenceExpires, NonceExpires, vars, shared

LEMMA BooksInitFacts == Init => BooksInv
<1> SUFFICES ASSUME Init PROVE BooksInv
  OBVIOUS
<1>1. IsFiniteSet({})
  BY FS_EmptySet
<1>2. \A s \in Sessions : SessionBooks(s)
  BY <1>1 DEF Init, SessionBooks, Inserting, Holding
<1>3. \A t \in Tokens : {} \in SUBSET OnRecord(t) /\ used[t] = 0
  BY DEF Init, NoUsage
<1>4. SumFunctionOnSet(Amount, {}) = 0
  BY SumEmpty
<1> QED  BY <1>1, <1>2, <1>3, <1>4 DEF Init, BooksInv, ChargedIsRecorded

-----------------------------------------------------------------------------
(* With one session at a time: the usage of a token is the sum of all that is  *)
(* on record for it, no more and no less, so that sum is within the limit.     *)

PaidSum(s, t) == SumFunctionOnSet(Amount, Paid(s, t))

\* No charge is lost: the usage of each token is the net of its recorded payments.
UsageExact == \A t \in Tokens : used[t] = Accepted(t)

SerialBooks(s) ==
  /\ UsageExact
  /\ \A t \in Tokens : UsageSeen(s, t) = PaidSum(s, t)
  /\ place[s] \in Holding => loaded[s] = PaidSum(s, Token[Tx(s)])

LEMMA SerialKeptFacts ==
  ASSUME NEW s, SerialBooks(s), UNCHANGED <<recorded, used, inserted, usage, locks>>,
         Charged(s)' = Charged(s),
         place'[s] \in Holding => /\ place[s] \in Holding /\ loaded'[s] = loaded[s]
                                  /\ batch'[s] = batch[s]
  PROVE  SerialBooks(s)'
<1>1. \A t : PaidSum(s, t)' = PaidSum(s, t) /\ Accepted(t)' = Accepted(t)
  BY DEF PaidSum, Paid, Accepted, OnRecord
<1>2. \A t : UsageSeen(s, t)' = UsageSeen(s, t)
  BY DEF UsageSeen
<1>3. ASSUME place'[s] \in Holding PROVE loaded'[s] = PaidSum(s, Token[Tx(s)])'
  <2>1. PaidSum(s, Token[Tx(s)])' = PaidSum(s, Token[Tx(s)]) /\ loaded'[s] = loaded[s]
    BY <1>3 DEF PaidSum, Paid, Tx
  <2> QED  BY <1>3, <2>1 DEF SerialBooks
<1> QED  BY <1>1, <1>2, <1>3 DEF SerialBooks, UsageExact

LEMMA SerialGotoFacts ==
  ASSUME TypeOK, NEW s \in Sessions, NEW p \in Places, SerialBooks(s), Goto(s, p),
         p \in Holding => place[s] \in Holding,
         p \in {"sequencing", "charging"} <=> Inserting(s),
         UNCHANGED <<recorded, used, batch, loaded, inserted, usage, locks>>
  PROVE  SerialBooks(s)'
<1>1. place'[s] = p
  BY DEF Goto, TypeOK
<1>2. Charged(s)' = Charged(s)
  BY <1>1 DEF Charged, Inserting, Tx
<1> QED  BY <1>1, <1>2, SerialKeptFacts

\* A session that answers without a charge, or starts a batch, holds nothing.
LEMMA SerialRestFacts ==
  ASSUME NEW s, SerialBooks(s), ~Inserting(s), place'[s] = "processing",
         UNCHANGED <<recorded, used, inserted, usage, locks>>
  PROVE  SerialBooks(s)'
<1>1. Charged(s)' = Charged(s) /\ place'[s] \notin Holding
  BY DEF Charged, Inserting, Holding
<1> QED  BY <1>1, SerialKeptFacts

LEMMA SerialCheckTokenFacts ==
  ASSUME TypeOK, NEW s \in Sessions, SerialBooks(s), CheckToken(s)
  PROVE  SerialBooks(s)'
<1>1. /\ loaded'[s] = UsageSeen(s, Token[Tx(s)]) /\ place'[s] = "admitted"
      /\ UNCHANGED <<recorded, used, batch, inserted, usage, locks>>
      /\ place[s] = "checking" /\ Token[Tx(s)] \in Tokens
  BY CurrentFacts DEF CheckToken, Goto, shared, At, TypeOK
<1>2. Charged(s)' = Charged(s)
  BY <1>1 DEF Charged, Inserting
<1>3. \A t : /\ PaidSum(s, t)' = PaidSum(s, t) /\ Accepted(t)' = Accepted(t)
             /\ UsageSeen(s, t)' = UsageSeen(s, t)
  BY <1>1, <1>2 DEF PaidSum, Paid, Accepted, OnRecord, UsageSeen
<1>4. PaidSum(s, Token[Tx(s)])' = PaidSum(s, Token[Tx(s)])
  BY <1>1, <1>2 DEF PaidSum, Paid, Tx
<1> QED  BY <1>1, <1>3, <1>4 DEF SerialBooks, UsageExact

LEMMA SerialInsertFacts ==
  ASSUME TypeOK, NEW s \in Sessions, SerialBooks(s), Insert(s)
  PROVE  SerialBooks(s)'
<1>1. /\ place'[s] = "sequencing" /\ inserted'[s] = inserted[s] \cup {Tx(s)}
      /\ UNCHANGED <<recorded, used, batch, loaded, usage, locks>>
      /\ place[s] = "inserting" /\ Tx(s) \notin inserted[s]
  BY DEF Insert, Goto, shared, At, Violates, Visible, Clash, TypeOK
<1>2. Charged(s)' = Charged(s)
  BY <1>1 DEF Charged, Inserting, Tx
<1>3. \A t : /\ PaidSum(s, t)' = PaidSum(s, t) /\ Accepted(t)' = Accepted(t)
             /\ UsageSeen(s, t)' = UsageSeen(s, t)
  BY <1>1, <1>2 DEF PaidSum, Paid, Accepted, OnRecord, UsageSeen
<1>4. PaidSum(s, Token[Tx(s)])' = PaidSum(s, Token[Tx(s)])
  BY <1>1, <1>2 DEF PaidSum, Paid, Tx
<1>5. loaded[s] = PaidSum(s, Token[Tx(s)])
  BY <1>1 DEF SerialBooks, Holding
<1> QED  BY <1>1, <1>3, <1>4, <1>5 DEF SerialBooks, UsageExact

\* A charge writes what was loaded and the amount of the row it is for.
LEMMA SerialChargeFacts ==
  ASSUME IInv, BooksInv, NEW s \in Sessions, SerialBooks(s), Charge(s)
  PROVE  SerialBooks(s)'
<1>0. PICK x, t : x = Tx(s) /\ t = Token[x]
  OBVIOUS
<1> DEFINE n == loaded[s] + Amount[x]
<1>1. /\ usage' = [usage EXCEPT ![s][t] = n] /\ locks' = [locks EXCEPT ![s] = @ \cup {t}]
      /\ place'[s] = "processing" /\ UNCHANGED <<recorded, used, loaded, inserted>>
      /\ place[s] = "charging" /\ batch[s] # <<>>
  BY <1>0 DEF Charge, Answer, Goto, shared, At, IInv, TypeOK
<1>2. TypeOK /\ t \in Tokens /\ x \in Txs /\ Amount[x] \in Int /\ loaded[s] \in Int
  BY <1>0, <1>1, CurrentFacts DEF IInv, TypeOK
<1>3. Inserting(s) /\ ~Inserting(s)'
  BY <1>1 DEF Inserting
<1>4. x \in inserted[s] /\ x \notin recorded
  BY <1>0, <1>3 DEF BooksInv, SessionBooks, IInv, InsertedOnce, Distinct, Clash
<1>5. Charged(s)' = inserted[s] /\ Charged(s) = inserted[s] \ {x}
  BY <1>0, <1>1, <1>3 DEF Charged
<1>6. /\ usage'[s][t] = n /\ \A v \in Tokens \ {t} : usage'[s][v] = usage[s][v]
      /\ locks'[s] = locks[s] \cup {t}
  BY <1>1, <1>2 DEF TypeOK
<1>7. ASSUME NEW v \in Tokens, v # t PROVE UsageSeen(s, v)' = PaidSum(s, v)'
  <2>1. PaidSum(s, v)' = PaidSum(s, v)
    BY <1>0, <1>1, <1>5, <1>7 DEF PaidSum, Paid
  <2>2. UsageSeen(s, v)' = UsageSeen(s, v)
    BY <1>1, <1>6, <1>7 DEF UsageSeen
  <2> QED  BY <2>1, <2>2 DEF SerialBooks
<1>8. PaidSum(s, t)' = Amount[x] + PaidSum(s, t)
  <2>1. Paid(s, t) \in SUBSET Txs /\ IsFiniteSet(Paid(s, t))
    BY <1>2, PaidFacts
  <2>2. Paid(s, t)' = Paid(s, t) \cup {x} /\ x \notin Paid(s, t)
    BY <1>0, <1>1, <1>4, <1>5 DEF Paid
  <2>3. \A y \in Paid(s, t) \cup {x} : Amount[y] \in Int
    BY <1>2, <2>1, SyncAssumption
  <2>4. SumFunctionOnSet(Amount, Paid(s, t) \cup {x})
          = Amount[x] + SumFunctionOnSet(Amount, Paid(s, t))
    BY <2>1, <2>2, <2>3, SumAdd
  <2> QED  BY <2>2, <2>4 DEF PaidSum
<1>9. loaded[s] = PaidSum(s, t)
  BY <1>0, <1>1 DEF SerialBooks, Holding
<1>10. UsageSeen(s, t)' = PaidSum(s, t)'
  <2>1. UsageSeen(s, t)' = n
    BY <1>6 DEF UsageSeen
  <2>2. n = Amount[x] + PaidSum(s, t)
    BY <1>2, <1>9
  <2> QED  BY <1>8, <2>1, <2>2
<1>11. UsageExact'
  BY <1>1 DEF SerialBooks, UsageExact, Accepted, OnRecord
<1>12. \A v \in Tokens : UsageSeen(s, v)' = PaidSum(s, v)'
  BY <1>7, <1>10
<1> QED  BY <1>1, <1>11, <1>12 DEF SerialBooks, Holding

\* A session that has ended sees the committed rows.
LEMMA SerialEndFacts ==
  ASSUME TypeOK, NEW s \in Sessions, End(s), UsageExact'
  PROVE  SerialBooks(s)'
<1>1. place'[s] = "idle" /\ inserted'[s] = {} /\ locks'[s] = {}
  BY DEF TypeOK, End
<1>2. Charged(s)' = {}
  BY <1>1 DEF Charged
<1>3. \A t \in Tokens : PaidSum(s, t)' = Accepted(t)' /\ UsageSeen(s, t)' = used'[t]
  BY <1>1, <1>2 DEF PaidSum, Paid, Accepted, OnRecord, UsageSeen
<1> QED  BY <1>1, <1>3 DEF SerialBooks, UsageExact, Holding

LEMMA SerialAbortFacts ==
  ASSUME TypeOK, NEW s \in Sessions, SerialBooks(s), Abort(s)
  PROVE  SerialBooks(s)'
<1>1. End(s) /\ recorded' = recorded /\ used' = used
  BY DEF Abort, UsedAfterAbort
<1>2. UsageExact'
  BY <1>1 DEF SerialBooks, UsageExact, Accepted, OnRecord
<1> QED  BY <1>1, <1>2, SerialEndFacts

\* No other session has committed since, so what is written covers every row.
LEMMA SerialCommitFacts ==
  ASSUME TypeOK, NEW s \in Sessions, SerialBooks(s), Commit(s)
  PROVE  SerialBooks(s)'
<1>1. /\ recorded' = recorded \cup inserted[s] /\ used' = [t \in Tokens |-> UsageSeen(s, t)]
      /\ End(s) /\ place[s] = "processing"
  BY DEF Commit, Written
<1>2. Charged(s) = inserted[s]
  BY <1>1 DEF Charged, Inserting
<1>3. \A t \in Tokens : Accepted(t)' = PaidSum(s, t)
  BY <1>1, <1>2 DEF Accepted, OnRecord, PaidSum, Paid
<1>4. UsageExact'
  BY <1>1, <1>3 DEF SerialBooks, UsageExact
<1> QED  BY <1>1, <1>4, SerialEndFacts

LEMMA SerialNextFacts ==
  ASSUME NEW s, Sessions = {s}, IInv, BooksInv, SerialBooks(s), [Next]_vars
  PROVE  SerialBooks(s)'
<1>0. TypeOK /\ s \in Sessions
  BY DEF IInv
<1>1. CASE SyncBatch(s)
  <2>1. place'[s] = "processing" /\ place[s] = "idle"
    BY <1>0, <1>1 DEF SyncBatch, TypeOK
  <2> QED  BY <1>1, <2>1, SerialRestFacts DEF SyncBatch, Inserting, shared
<1>2. CASE AnswerDuplicate(s) \/ RefuseToken(s) \/ RefuseReplay(s) \/ RefuseSequence(s)
  <2>1. Refuse(s) /\ ~Inserting(s)
    BY <1>2 DEF AnswerDuplicate, RefuseToken, RefuseReplay, RefuseSequence, At, Inserting
  <2>2. place'[s] = "processing"
    BY <1>0, <2>1 DEF Refuse, Answer, Goto, TypeOK
  <2> QED  BY <2>1, <2>2, SerialRestFacts DEF Refuse, shared
<1>3. CASE CheckDuplicate(s)
  BY <1>0, <1>3, SerialGotoFacts DEF CheckDuplicate, At, Places, Holding, Inserting, shared
<1>4. CASE StoreNonce(s)
  BY <1>0, <1>4, SerialGotoFacts DEF StoreNonce, At, Places, Holding, Inserting
<1>5. CASE ExpireNonce(s)
  BY <1>0, <1>5, SerialGotoFacts DEF ExpireNonce, At, Places, Holding, Inserting
<1>6. CASE CheckSequence(s)
  BY <1>0, <1>6, SerialGotoFacts DEF CheckSequence, At, Places, Holding, Inserting, shared
<1>7. CASE SetSequence(s)
  BY <1>0, <1>7, SerialGotoFacts DEF SetSequence, At, Places, Holding, Inserting
<1>8. CASE CheckToken(s)
  BY <1>0, <1>8, SerialCheckTokenFacts
<1>9. CASE Raise(s) \/ DeadlockVictim(s) \/ Conflict(s) \/ Crash(s)
  BY <1>0, <1>9, SerialAbortFacts DEF Raise, DeadlockVictim, Conflict, Crash
<1>10. CASE Insert(s)
  BY <1>0, <1>10, SerialInsertFacts
<1>11. CASE Charge(s)
  BY <1>0, <1>11, SerialChargeFacts
<1>12. CASE Commit(s)
  BY <1>0, <1>12, SerialCommitFacts
<1>13. CASE UNCHANGED <<recorded, used, session>>
  <2>1. Charged(s)' = Charged(s)
    BY <1>13 DEF session, Charged, Inserting, Tx
  <2> QED  BY <1>13, <2>1, SerialKeptFacts DEF session
<1> QED
  BY <1>0, <1>1, <1>2, <1>3, <1>4, <1>5, <1>6, <1>7, <1>8, <1>9, <1>10, <1>11, <1>12, <1>13
  DEF Next, Step, Wait, CloseToken, SequenceExpires, NonceExpires, vars, shared

LEMMA SerialInitFacts == ASSUME NEW s \in Sessions, Init PROVE SerialBooks(s)
<1>1. recorded = {} /\ inserted[s] = {} /\ locks[s] = {} /\ place[s] = "idle"
  BY DEF Init
<1>2. \A t : /\ OnRecord(t) = {} /\ Paid(s, t) = {}
  BY <1>1 DEF Paid, Charged, OnRecord
<1>3. \A t \in Tokens : Accepted(t) = 0 /\ PaidSum(s, t) = 0 /\ used[t] = 0
  BY <1>2, SumEmpty DEF Accepted, PaidSum, Init, NoUsage
<1>4. \A t \in Tokens : UsageSeen(s, t) = 0
  BY <1>1, <1>3 DEF UsageSeen
<1> QED  BY <1>1, <1>3, <1>4 DEF SerialBooks, UsageExact, Holding

-----------------------------------------------------------------------------
\* The strengthened invariant holds in every reachable state.
THEOREM SyncInvariance == Spec => []IInv
BY InitFacts, NextFacts, PTL DEF Spec

\* The variables keep their types.
THEOREM SyncTypeCorrect == Spec => []TypeOK
BY SyncInvariance, PTL DEF IInv

\* However payments are sent again, signed again or renamed, and whatever Redis has
\* forgotten, a payment is recorded once.
THEOREM SyncRecordedOnce == Spec => []RecordedOnce
BY SyncInvariance, PTL DEF IInv

\* No batch writes a usage beyond the limit of a token.
THEOREM SyncRowWithinLimit == Spec => []RowWithinLimit
BY SyncInvariance, PTL DEF IInv

\* Whatever is retried, lost or rolled back, the usage of a token is the sum of some
\* of the payments on record, of whatever sign: nothing is charged that is not there.
THEOREM SyncChargedIsRecorded == Spec => []ChargedIsRecorded
<1>1. Spec => []BooksInv
  BY BooksInitFacts, BooksNextFacts, SyncInvariance, PTL DEF Spec
<1> QED  BY <1>1, PTL DEF BooksInv

\* Batches handled one after the other lose no charge: the usage of a token is the net
\* of all its recorded payments, and that net is within the limit, whatever is sent
\* again or lost.  It takes two sessions at once to promise more, net of what payments
\* of negative amounts take back.
THEOREM SerialUsageExact ==
  ASSUME NEW s, Sessions = {s}  PROVE Spec => [](UsageExact /\ NoOverSpending)
<1>1. Init => SerialBooks(s)
  BY SerialInitFacts
<1>2. IInv /\ BooksInv /\ SerialBooks(s) /\ [Next]_vars => SerialBooks(s)'
  BY SerialNextFacts
<1>3. IInv /\ SerialBooks(s) => UsageExact /\ NoOverSpending
  BY DEF SerialBooks, UsageExact, NoOverSpending, IInv, RowWithinLimit
<1> QED
  BY <1>1, <1>2, <1>3, BooksInitFacts, BooksNextFacts, SyncInvariance, PTL DEF Spec
=============================================================================
