------------------------- MODULE OfflineTokensProofs -------------------------
(***************************************************************************)
(* Proofs about OfflineTokens, and about what is left of its promises when *)
(* an operator starts the tasks of OperatorTasks: for every set of users   *)
(* and tokens, all amounts, device limits and bounds.                      *)
(***************************************************************************)
EXTENDS OperatorTasks, SumTheorems, TLAPS

\* WithinAmount alone is not inductive: a refund pays what is unused, which is
\* within the amount only if nothing was refunded before, so only if the token
\* was still open; and the hourly task refunds what it selected earlier.
Sound(t) == /\ refunded[t] >= 0
            /\ used[t] + refunded[t] <= amount[t]
            /\ status[t] \notin Closed => refunded[t] = 0
            /\ status[t] = "none" => amount[t] = 0 /\ used[t] = 0
            /\ t \in expiring => status[t] \notin Closed

IInv == /\ RowTypes
        /\ \A u \in Users : account[u].locked >= 0
        /\ \A t \in Tokens : Sound(t)

-----------------------------------------------------------------------------
LEMMA MovedFacts ==
  ASSUME NEW a \in Account, NEW v \in Int, NEW l \in Int, NEW c \in Nat, NEW d \in Nat
  PROVE  /\ Moved(a, v, l, c, d) \in Account
         /\ Moved(a, v, l, c, d).locked = a.locked + l
BY DEF Moved, Account

\* A refund stays within the locked column and within what was asked for.
LEMMA RefundedFacts ==
  ASSUME NEW a \in Account, a.locked >= 0, NEW n \in Nat
  PROVE  /\ RefundAmount(a, n) \in Nat
         /\ RefundAmount(a, n) <= n
         /\ Refunded(a, n) \in Account
         /\ Refunded(a, n).locked >= 0
<1> DEFINE r == RefundAmount(a, n)
           q == -r
<1>1. a.locked \in Int  BY DEF Account
<1>2. r \in Nat /\ q \in Int  BY <1>1 DEF RefundAmount
<1>3. q = 0 - r /\ r <= a.locked /\ r <= n  BY <1>1 DEF RefundAmount
<1>4. Refunded(a, n) = Moved(a, r, q, r, 0)  BY DEF Refunded
<1> HIDE DEF r, q
<1>5. /\ Moved(a, r, q, r, 0) \in Account
      /\ Moved(a, r, q, r, 0).locked = a.locked + q
  BY <1>2, MovedFacts
<1>6. a.locked + q >= 0  BY <1>1, <1>2, <1>3
<1>7. Refunded(a, n) \in Account /\ Refunded(a, n).locked >= 0  BY <1>4, <1>5, <1>6
<1>8. r \in Nat /\ r <= n  BY <1>2, <1>3
<1> QED  BY <1>7, <1>8 DEF r

LEMMA CreditedFacts ==
  ASSUME NEW a \in Account, a.locked >= 0, NEW n \in Nat
  PROVE  Credited(a, n) \in Account /\ Credited(a, n).locked >= 0
<1>1. /\ Moved(a, n, 0, n, 0) \in Account
      /\ Moved(a, n, 0, n, 0).locked = a.locked + 0
  BY MovedFacts
<1> QED  BY <1>1 DEF Credited, Account

LEMMA LockedUpFacts ==
  ASSUME NEW a \in Account, a.locked >= 0, NEW n \in Nat
  PROVE  LockedUp(a, n) \in Account /\ LockedUp(a, n).locked >= 0
<1> DEFINE m == -n
<1>1. m \in Int  OBVIOUS
<1>2. LockedUp(a, n) = Moved(a, m, n, 0, n)  BY DEF LockedUp
<1> HIDE DEF m
<1>3. /\ Moved(a, m, n, 0, n) \in Account
      /\ Moved(a, m, n, 0, n).locked = a.locked + n
  BY <1>1, MovedFacts
<1> QED  BY <1>2, <1>3 DEF Account

LEMMA GrantedFacts ==
  ASSUME NEW class \in DOMAIN Limits, NEW n \in Int, n > 0
  PROVE  Granted(n, class) \in Nat /\ Limits[class].ttl \in Nat
BY TokensAssumption DEF Granted

\* A refund of an open token keeps everybody's row sound, pays at most what is
\* unused, and pays it for this token only.
LEMMA RefundUnusedFacts ==
  ASSUME IInv, NEW t \in Tokens, RefundUnused(t)
  PROVE  /\ account' \in [Users -> Account]
         /\ \A u \in Users : account'[u].locked >= 0
         /\ refunded' \in [Tokens -> Int]
         /\ refunded'[t] >= refunded[t]
         /\ refunded'[t] - refunded[t] <= Unused(t)
         /\ \A x \in Tokens \ {t} : refunded'[x] = refunded[x]
<1> DEFINE o == Owner[t]
           a == account[o]
           n == Unused(t)
           r == RefundAmount(a, n)
<1>1. o \in Users  BY TokensAssumption
<1>2. a \in Account /\ a.locked >= 0  BY <1>1 DEF IInv, RowTypes
<1>3. /\ account \in [Users -> Account] /\ refunded \in [Tokens -> Int]
      /\ refunded[t] \in Int /\ refunded[t] >= 0
      /\ \A u \in Users : account[u].locked >= 0
  BY DEF IInv, RowTypes, Sound
<1>4. n \in Int /\ n >= 0
  <2>1. used[t] \in Int /\ amount[t] \in Nat  BY DEF IInv, RowTypes
  <2>2. used[t] + refunded[t] <= amount[t]  BY DEF IInv, Sound
  <2> QED  BY <1>3, <2>1, <2>2 DEF Unused
<1>5. n \in Nat  BY <1>4
<1>6. CASE n > 0
  <2>1. /\ account' = [account EXCEPT ![o] = Refunded(a, n)]
        /\ refunded' = [refunded EXCEPT ![t] = @ + r]
    BY <1>6 DEF RefundUnused
  <2>2. r \in Nat /\ r <= n /\ Refunded(a, n) \in Account /\ Refunded(a, n).locked >= 0
    BY <1>2, <1>5, RefundedFacts
  <2> HIDE DEF o, a, n, r
  <2>3. account' \in [Users -> Account] /\ \A u \in Users : account'[u].locked >= 0
    BY <1>1, <1>3, <2>1, <2>2
  <2>4. /\ refunded' \in [Tokens -> Int]
        /\ refunded'[t] = refunded[t] + r
        /\ \A x \in Tokens \ {t} : refunded'[x] = refunded[x]
    BY <1>3, <2>1, <2>2
  <2>5. refunded'[t] >= refunded[t] /\ refunded'[t] - refunded[t] <= n
    BY <1>3, <1>5, <2>2, <2>4
  <2> QED  BY <2>3, <2>4, <2>5 DEF n
<1>7. CASE ~(n > 0)
  <2>1. account' = account /\ refunded' = refunded  BY <1>7 DEF RefundUnused
  <2> HIDE DEF n
  <2>2. refunded'[t] >= refunded[t] /\ refunded'[t] - refunded[t] <= n
    BY <1>3, <1>4, <2>1
  <2> QED  BY <1>3, <2>1, <2>2 DEF n
<1> QED  BY <1>6, <1>7

\* Closing an open token after its refund keeps the invariant.
LEMMA CloseFacts ==
  ASSUME IInv, NEW t \in Tokens, status[t] \notin Closed, RefundUnused(t),
         NEW final \in Closed, status' = [status EXCEPT ![t] = final],
         UNCHANGED <<amount, used, cutoff, expires, now>>,
         expiring' = expiring \ {t}
  PROVE  IInv'
<1>1. /\ account' \in [Users -> Account]
      /\ \A u \in Users : account'[u].locked >= 0
      /\ refunded' \in [Tokens -> Int]
      /\ refunded'[t] >= refunded[t]
      /\ refunded'[t] - refunded[t] <= Unused(t)
      /\ \A x \in Tokens \ {t} : refunded'[x] = refunded[x]
  BY RefundUnusedFacts
<1>2. /\ status' \in [Tokens -> Statuses] /\ status'[t] \in Closed
      /\ \A x \in Tokens \ {t} : status'[x] = status[x]
  BY DEF IInv, RowTypes, Statuses
<1>3. RowTypes'  BY <1>1, <1>2 DEF IInv, RowTypes
<1>4. Sound(t)'
  <2>1. /\ used[t] \in Int /\ amount[t] \in Nat /\ refunded[t] \in Int
        /\ refunded'[t] \in Int
        /\ refunded[t] = 0
    BY <1>1 DEF IInv, RowTypes, Sound
  <2>2. refunded'[t] >= 0 /\ used[t] + refunded'[t] <= amount[t]
    BY <1>1, <2>1 DEF Unused
  <2>3. status'[t] # "none"  BY <1>2 DEF Closed
  <2> QED  BY <1>2, <2>2, <2>3 DEF Sound
<1>5. ASSUME NEW x \in Tokens \ {t}  PROVE Sound(x)'
  BY <1>1, <1>2, <1>5 DEF IInv, Sound
<1> QED  BY <1>1, <1>3, <1>4, <1>5 DEF IInv

LEMMA InitFacts == Init => IInv
<1> SUFFICES ASSUME Init PROVE IInv  OBVIOUS
<1>1. EmptyAccount \in Account /\ EmptyAccount.locked >= 0  BY DEF EmptyAccount, Account
<1>2. RowTypes  BY <1>1 DEF Init, RowTypes, Zero, Statuses
<1>3. ASSUME NEW t \in Tokens  PROVE Sound(t)  BY DEF Init, Zero, Sound, Closed
<1> QED  BY <1>1, <1>2, <1>3 DEF Init, IInv

LEMMA ProvisionFacts ==
  ASSUME IInv, NEW t \in Tokens, NEW n \in Amounts,
         NEW class \in DOMAIN Limits, Provision(t, n, class)
  PROVE  IInv'
<1> DEFINE g == Granted(n, class)
           o == Owner[t]
<1>1. n \in Int /\ n > 0 /\ status[t] = "none"  BY LedgerAssumption DEF Provision
<1>2. g \in Nat /\ Limits[class].ttl \in Nat /\ SpendWindow \in Nat
  BY <1>1, GrantedFacts, TokensAssumption
<1>3. o \in Users  BY TokensAssumption
<1>4. account[o] \in Account /\ account[o].locked >= 0  BY <1>3 DEF IInv, RowTypes
<1>5. LockedUp(account[o], g) \in Account /\ LockedUp(account[o], g).locked >= 0
  BY <1>2, <1>4, LockedUpFacts
<1>6. account' = [account EXCEPT ![o] = LockedUp(account[o], g)]
  BY DEF Provision, LockFor
<1>7. /\ account' \in [Users -> Account]
      /\ \A u \in Users : account'[u].locked >= 0
  <2> HIDE DEF g, o
  <2> QED  BY <1>3, <1>5, <1>6 DEF IInv, RowTypes
<1>8. /\ status' = [status EXCEPT ![t] = "active"]
      /\ amount' = [amount EXCEPT ![t] = g]
      /\ cutoff' = [cutoff EXCEPT ![t] = now + SpendWindow]
      /\ expires' = [expires EXCEPT ![t] = now + Limits[class].ttl]
      /\ UNCHANGED <<used, refunded, now, expiring>>
  BY DEF Provision
<1> HIDE DEF g, o
<1>9. RowTypes'
  <2>1. now + SpendWindow \in Nat /\ now + Limits[class].ttl \in Nat
    BY <1>2 DEF IInv, RowTypes
  <2>2. "active" \in Statuses  BY DEF Statuses
  <2> QED  BY <1>2, <1>7, <1>8, <2>1, <2>2 DEF IInv, RowTypes
<1>10. ASSUME NEW x \in Tokens  PROVE Sound(x)'
  <2>1. Sound(x)  BY DEF IInv
  <2>2. status \in [Tokens -> Statuses] /\ amount \in [Tokens -> Nat]  BY DEF IInv, RowTypes
  <2>3. CASE x = t
    <3>1. used[t] = 0 /\ refunded[t] = 0  BY <1>1, <2>1, <2>3 DEF Sound, Closed
    <3>2. status'[t] = "active" /\ amount'[t] = g  BY <1>8, <2>2
    <3> QED  BY <1>2, <1>8, <2>3, <3>1, <3>2 DEF Sound, Closed
  <2>4. CASE x # t
    <3>1. status'[x] = status[x] /\ amount'[x] = amount[x]  BY <1>8, <2>2, <2>4
    <3> QED  BY <1>8, <2>1, <3>1 DEF Sound
  <2> QED  BY <2>3, <2>4
<1> QED  BY <1>7, <1>9, <1>10 DEF IInv

\* Both ways of recording a spend: n, of either sign, is added to what is used of an
\* active token.
LEMMA SpendFacts ==
  ASSUME IInv, NEW t \in Tokens, NEW n \in Int, n <= Unused(t),
         status[t] = "active", NEW st \in {"active", "exhausted"},
         used' = [used EXCEPT ![t] = @ + n],
         status' = [status EXCEPT ![t] = st],
         UNCHANGED <<account, amount, cutoff, expires, refunded, now, expiring>>
  PROVE  IInv'
<1>1. /\ used \in [Tokens -> Int] /\ amount \in [Tokens -> Nat]
      /\ status \in [Tokens -> Statuses]
  BY DEF IInv, RowTypes
<1>2. st \in Statuses /\ st \notin Closed /\ st # "none"  BY DEF Statuses, Closed
<1>3. used[t] + n \in Int /\ used[t] + n <= amount[t]  BY <1>1 DEF Unused
<1>4. RowTypes'  BY <1>1, <1>2, <1>3 DEF IInv, RowTypes
<1>5. ASSUME NEW x \in Tokens  PROVE Sound(x)'
  <2>1. Sound(x)  BY DEF IInv
  <2>2. CASE x = t
    <3>1. status'[t] = st /\ used'[t] = used[t] + n  BY <1>1
    <3>2. refunded[t] = 0  BY <2>1, <2>2 DEF Sound, Closed
    <3> QED  BY <1>1, <1>2, <1>3, <2>2, <3>1, <3>2 DEF Sound
  <2>3. CASE x # t
    <3>1. status'[x] = status[x] /\ used'[x] = used[x]  BY <1>1, <2>3
    <3> QED  BY <2>1, <3>1 DEF Sound
  <2> QED  BY <2>2, <2>3
<1> QED  BY <1>4, <1>5 DEF IInv

-----------------------------------------------------------------------------
LEMMA StepFacts == IInv /\ [Next]_vars => IInv'
<1> SUFFICES ASSUME IInv, [Next]_vars PROVE IInv'  OBVIOUS
<1>1. ASSUME NEW u \in Users, NEW n \in Amounts, Credit(u, n)  PROVE IInv'
  <2>1. n \in Nat  BY <1>1, LedgerAssumption DEF Credit
  <2>2. account[u] \in Account /\ account[u].locked >= 0  BY DEF IInv, RowTypes
  <2>3. Credited(account[u], n) \in Account /\ Credited(account[u], n).locked >= 0
    BY <2>1, <2>2, CreditedFacts
  <2>4. account' = [account EXCEPT ![u] = Credited(account[u], n)]  BY <1>1 DEF Credit
  <2>5. account' \in [Users -> Account] /\ \A x \in Users : account'[x].locked >= 0
    BY <2>3, <2>4 DEF IInv, RowTypes
  <2> QED  BY <1>1, <2>5 DEF Credit, IInv, RowTypes, Sound
<1>2. ASSUME NEW t \in Tokens, NEW n \in Spends, SyncSpend(t, n)  PROVE IInv'
  <2>1. n \in Int  BY TokensAssumption
  <2>2. status' = [status EXCEPT ![t] = "active"]
    BY <1>2 DEF SyncSpend, Spendable, IInv, RowTypes
  <2> QED  BY <1>2, <2>1, <2>2, SpendFacts DEF SyncSpend, Spendable, HasRoom
<1>3. ASSUME NEW t \in Tokens, NEW n \in Spends, RecordSpend(t, n)  PROVE IInv'
  <2>1. n \in Int  BY TokensAssumption
  <2>2. PICK st \in {"active", "exhausted"} : status' = [status EXCEPT ![t] = st]
    BY <1>3 DEF RecordSpend
  <2> QED  BY <1>3, <2>1, <2>2, SpendFacts DEF RecordSpend, HasRoom
<1>4. ASSUME NEW t \in Tokens, Revoke(t)  PROVE IInv'
  <2>1. expiring' = expiring \ {t}  BY <1>4 DEF Revoke, Idle
  <2> QED  BY <1>4, <2>1, CloseFacts DEF Revoke, Revocable, Closed
<1>5. ASSUME ApplySpendCutoffs  PROVE IInv'
  <2>1. /\ status' = [t \in Tokens |-> IF PastCutoff(t) THEN "spend_locked" ELSE status[t]]
        /\ UNCHANGED <<account, amount, used, cutoff, expires, refunded, now, expiring>>
    BY <1>5 DEF ApplySpendCutoffs
  <2>2. RowTypes'  BY <2>1 DEF IInv, RowTypes, Statuses
  <2>3. ASSUME NEW t \in Tokens  PROVE Sound(t)'
    BY <2>1 DEF IInv, Sound, PastCutoff, Closed
  <2> QED  BY <2>1, <2>2, <2>3 DEF IInv
<1>6. ASSUME ExpireStart  PROVE IInv'
  <2>1. /\ expiring' = {t \in Tokens : Due(t)}
        /\ UNCHANGED <<account, status, amount, used, cutoff, expires, refunded, now>>
    BY <1>6 DEF ExpireStart
  <2>2. RowTypes'  BY <2>1 DEF IInv, RowTypes
  <2>3. ASSUME NEW t \in Tokens  PROVE Sound(t)'  BY <2>1 DEF IInv, Sound, Due, Closed
  <2> QED  BY <2>1, <2>2, <2>3 DEF IInv
<1>7. ASSUME NEW t \in Tokens, ExpireOne(t)  PROVE IInv'
  <2>1. status[t] \notin Closed  BY <1>7 DEF ExpireOne, IInv, Sound
  <2>2. "expired" \in Closed  BY DEF Closed
  <2> QED  BY <1>7, <2>1, <2>2, CloseFacts DEF ExpireOne
<1>8. CASE Tick  BY <1>8 DEF Tick, IInv, RowTypes, Sound
<1>9. CASE UNCHANGED vars  BY <1>9 DEF vars, IInv, RowTypes, Sound
<1> QED
  BY <1>1, <1>2, <1>3, <1>4, <1>5, <1>6, <1>7, <1>8, <1>9, ProvisionFacts DEF Next

\* What the invariant says of the next step: a closed token's sums stay as they are.
LEMMA FinalFacts ==
  ASSUME IInv, Next, NEW t \in Tokens, status[t] \in Closed
  PROVE  used'[t] = used[t] /\ refunded'[t] = refunded[t]
<1>1. /\ used \in [Tokens -> Int] /\ status[t] # "active"
  BY DEF IInv, RowTypes, Closed
<1>2. ASSUME NEW x \in Tokens, RefundUnused(x), status[x] \notin Closed
      PROVE  refunded'[t] = refunded[t]
  BY <1>2, RefundUnusedFacts
<1>3. ASSUME NEW x \in Tokens, NEW n \in Spends, SyncSpend(x, n) \/ RecordSpend(x, n)
      PROVE  used'[t] = used[t] /\ refunded'[t] = refunded[t]
  BY <1>1, <1>3 DEF SyncSpend, RecordSpend, Spendable
<1>4. ASSUME NEW x \in Tokens, Revoke(x)
      PROVE  used'[t] = used[t] /\ refunded'[t] = refunded[t]
  BY <1>2, <1>4 DEF Revoke, Revocable
<1>5. ASSUME NEW x \in Tokens, ExpireOne(x)
      PROVE  used'[t] = used[t] /\ refunded'[t] = refunded[t]
  BY <1>2, <1>5 DEF ExpireOne, IInv, Sound
<1> QED
  BY <1>3, <1>4, <1>5
     DEF Next, Credit, Provision, ApplySpendCutoffs, ExpireStart, Tick

-----------------------------------------------------------------------------
(* LockedAccountsForTokens, which is inductive together with IInv: while no   *)
(* token of a user was closed with a usage below zero, the locked column covers *)
(* every token of the user, so a refund is complete.                          *)

LEMMA StillLockedFacts ==
  ASSUME RowTypes
  PROVE  /\ StillLocked \in [Tokens -> Int]
         /\ \A t \in Tokens : StillLocked[t] = IF status[t] \in Closed THEN used[t]
                                                                      ELSE amount[t]
         /\ \A u \in Users : IsFiniteSet(OwnedBy(u))
BY TokensAssumption, FS_Subset DEF RowTypes, StillLocked, OwnedBy

\* What is closed stays closed, with the usage it had.
StaysClosed ==
  \A x \in Tokens : status[x] \in Closed => status'[x] \in Closed /\ used'[x] = used[x]

\* A step that moves the locked column of one owner with one of its tokens, or closes
\* a token of that owner with a usage below zero.
LEMMA OneTokenFacts ==
  ASSUME LockedAccountsForTokens, RowTypes, RowTypes', StaysClosed,
         NEW t \in Tokens, NEW d \in Int,
         \/ ClosedBelowZero(Owner[t])'
         \/ account'[Owner[t]].locked = account[Owner[t]].locked + d,
         \A u \in Users \ {Owner[t]} : account'[u].locked = account[u].locked,
         StillLocked'[t] = StillLocked[t] + d,
         \A x \in Tokens \ {t} : StillLocked'[x] = StillLocked[x]
  PROVE  LockedAccountsForTokens'
<1> DEFINE f == StillLocked
           g == StillLocked'
<1>1. f \in [Tokens -> Int] /\ g \in [Tokens -> Int]
  <2>1. f \in [Tokens -> Int]
    BY StillLockedFacts
  <2>2. g \in [Tokens -> Int]
    BY DEF RowTypes, StillLocked
  <2> QED  BY <2>1, <2>2
<1>2. \A u \in Users : IsFiniteSet(OwnedBy(u)) /\ OwnedBy(u) \subseteq Tokens
  BY StillLockedFacts DEF OwnedBy
<1>3. SUFFICES ASSUME NEW u \in Users, ~ ClosedBelowZero(u)'
               PROVE  account'[u].locked = SumFunctionOnSet(g, OwnedBy(u))
  BY DEF LockedAccountsForTokens, OwnedBy
<1>4. account[u].locked = SumFunctionOnSet(f, OwnedBy(u))
  BY <1>3 DEF LockedAccountsForTokens, ClosedBelowZero, StaysClosed, OwnedBy
<1> HIDE DEF f, g
<1>5. SumFunctionOnSet(f, OwnedBy(u)) \in Int
  BY <1>1, <1>2, SumInt
<1>6. CASE u = Owner[t]
  <2>1. t \in OwnedBy(u) /\ account'[u].locked = account[u].locked + d
    BY <1>3, <1>6 DEF OwnedBy
  <2>2. SumFunctionOnSet(g, OwnedBy(u)) = SumFunctionOnSet(f, OwnedBy(u)) + g[t] - f[t]
    BY <1>1, <1>2, <2>1, SumChange DEF f, g
  <2>3. f[t] \in Int /\ g[t] = f[t] + d
    BY <1>1 DEF f, g
  <2> QED  BY <1>4, <1>5, <2>1, <2>2, <2>3
<1>7. CASE u # Owner[t]
  <2>1. \A x \in OwnedBy(u) : f[x] = g[x]
    BY <1>7 DEF OwnedBy, f, g
  <2>2. SumFunctionOnSet(f, OwnedBy(u)) = SumFunctionOnSet(g, OwnedBy(u))
    BY <1>2, <2>1, SumEqual
  <2> QED  BY <1>4, <1>7, <2>2
<1> QED  BY <1>6, <1>7

\* A step that moves no locked column and nothing that is locked for a token.
LEMMA NoTokenFacts ==
  ASSUME LockedAccountsForTokens, RowTypes, RowTypes', StaysClosed,
         \A u \in Users : account'[u].locked = account[u].locked,
         \A x \in Tokens : StillLocked'[x] = StillLocked[x]
  PROVE  LockedAccountsForTokens'
<1> SUFFICES ASSUME NEW u \in Users, ~ ClosedBelowZero(u)'
             PROVE  account'[u].locked = SumFunctionOnSet(StillLocked', OwnedBy(u))
  BY DEF LockedAccountsForTokens, OwnedBy
<1> DEFINE f == StillLocked
           g == StillLocked'
<1>1. IsFiniteSet(OwnedBy(u)) /\ \A x \in OwnedBy(u) : f[x] = g[x]
  BY StillLockedFacts DEF OwnedBy
<1>2. account[u].locked = SumFunctionOnSet(f, OwnedBy(u))
  BY DEF LockedAccountsForTokens, ClosedBelowZero, StaysClosed, OwnedBy
<1> HIDE DEF f, g
<1>3. SumFunctionOnSet(f, OwnedBy(u)) = SumFunctionOnSet(g, OwnedBy(u))
  BY <1>1, SumEqual
<1> QED  BY <1>2, <1>3 DEF g

\* What is locked of a user covers each token of the user.
LEMMA CoveredFacts ==
  ASSUME LockedAccountsForTokens, RowTypes, NEW t \in Tokens,
         ~ ClosedBelowZero(Owner[t]), StillLocked[t] >= 0
  PROVE  account[Owner[t]].locked >= StillLocked[t]
<1> DEFINE o == Owner[t]
           f == StillLocked
           S == OwnedBy(o)
<1>1. o \in Users /\ t \in S /\ IsFiniteSet(S) /\ S \subseteq Tokens
  BY StillLockedFacts, TokensAssumption DEF OwnedBy
<1>2. \A x \in S : f[x] \in Nat
  BY <1>1 DEF RowTypes, StillLocked, ClosedBelowZero, Closed
<1>3. account[o].locked = SumFunctionOnSet(f, S)
  BY <1>1 DEF LockedAccountsForTokens
<1> HIDE DEF o, f, S
<1>4. IsFiniteSet(S \ {t})
  BY <1>1, FS_Subset
<1>5. SumFunctionOnSet(f, S \ {t}) \in Nat
  BY <1>1, <1>2, <1>4, SumNat
<1>6. \A x \in S : f[x] \in Int
  BY <1>2
<1>7. SumFunctionOnSet(f, S) = f[t] + SumFunctionOnSet(f, S \ {t})
  BY <1>1, <1>6, SumRemove
<1>8. f[t] \in Nat
  BY <1>1, <1>2
<1>9. account[o].locked >= f[t]
  BY <1>3, <1>5, <1>7, <1>8
<1> QED  BY <1>9 DEF o, f

\* A refund touches the row of the owner only.
LEMMA RefundOthersFacts ==
  ASSUME RowTypes, NEW t \in Tokens, RefundUnused(t)
  PROVE  \A u \in Users \ {Owner[t]} : account'[u] = account[u]
BY DEF RowTypes, RefundUnused

\* Closing an open token: the refund is complete, and what was spent stays locked,
\* unless less than nothing was spent.
LEMMA CloseBooksFacts ==
  ASSUME IInv, RowTypes', LockedAccountsForTokens, NEW t \in Tokens,
         status[t] \notin Closed, RefundUnused(t),
         NEW final \in Closed, status' = [status EXCEPT ![t] = final],
         UNCHANGED <<amount, used>>
  PROVE  LockedAccountsForTokens'
<1> DEFINE o == Owner[t]
           a == account[o]
           n == Unused(t)
           m == -n
<1>1. RowTypes /\ o \in Users
  BY TokensAssumption DEF IInv
<1>2. /\ used[t] \in Int /\ amount[t] \in Nat /\ used[t] <= amount[t]
      /\ a \in Account /\ account \in [Users -> Account]
  <2>1. refunded[t] = 0 /\ used[t] + refunded[t] <= amount[t]
    BY DEF IInv, Sound
  <2>2. used[t] \in Int /\ amount[t] \in Nat
    BY <1>1 DEF RowTypes
  <2> QED  BY <1>1, <2>1, <2>2 DEF RowTypes
<1>3. StillLocked[t] = amount[t]
  BY <1>1, StillLockedFacts
<1>4. /\ StillLocked'[t] = used[t]
      /\ \A x \in Tokens \ {t} : StillLocked'[x] = StillLocked[x]
  BY <1>1 DEF RowTypes, StillLocked
<1>5. n \in Nat /\ n = amount[t] - used[t] /\ m \in Int /\ m = 0 - n
  BY <1>2 DEF Unused
<1>6. StillLocked'[t] = StillLocked[t] + m
  <2> HIDE DEF n, m
  <2> QED  BY <1>2, <1>3, <1>4, <1>5
<1>7. StaysClosed /\ status'[t] \in Closed
  BY <1>1 DEF StaysClosed, RowTypes
<1>8. \A u \in Users \ {o} : account'[u].locked = account[u].locked
  BY <1>1, RefundOthersFacts
<1>9. ClosedBelowZero(o)' \/ account'[o].locked = a.locked + m
  <2> SUFFICES ASSUME ~ ClosedBelowZero(o)'  PROVE account'[o].locked = a.locked + m
    OBVIOUS
  <2>1. ~ ClosedBelowZero(o)
    BY <1>7 DEF ClosedBelowZero, StaysClosed, OwnedBy
  <2>2. used[t] >= 0 /\ n <= amount[t]
    <3>1. ~ (used[t] < 0)
      BY <1>7 DEF ClosedBelowZero, OwnedBy
    <3> HIDE DEF n
    <3> QED  BY <1>2, <1>5, <3>1
  <2>3. a.locked >= amount[t] /\ a.locked \in Int
    BY <1>1, <1>2, <1>3, <2>1, CoveredFacts DEF Account
  <2>4. CASE n > 0
    <3>1. RefundAmount(a, n) = n
      <4> HIDE DEF n, a
      <4> QED  BY <1>2, <1>5, <2>2, <2>3 DEF RefundAmount
    <3>2. account' = [account EXCEPT ![o] = Refunded(a, n)]
      BY <2>4 DEF RefundUnused
    <3>3. Refunded(a, n) = Moved(a, n, m, n, 0)
      BY <3>1 DEF Refunded
    <3> HIDE DEF m, n, a, o
    <3>4. Moved(a, n, m, n, 0).locked = a.locked + m
      <4>1. a \in Account /\ n \in Int /\ m \in Int /\ n \in Nat /\ 0 \in Nat
        BY <1>2, <1>5
      <4> QED  BY <4>1, MovedFacts
    <3> QED  BY <1>1, <1>2, <3>2, <3>3, <3>4
  <2>5. CASE ~(n > 0)
    <3>1. account' = account
      BY <2>5 DEF RefundUnused
    <3> HIDE DEF m, n
    <3>2. m = 0
      BY <1>5, <2>5
    <3> QED  BY <2>3, <3>1, <3>2
  <2> QED  BY <2>4, <2>5
<1> HIDE DEF m, n
<1> QED  BY <1>1, <1>4, <1>5, <1>6, <1>7, <1>8, <1>9, OneTokenFacts

LEMMA ProvisionBooksFacts ==
  ASSUME IInv, RowTypes', LockedAccountsForTokens, NEW t \in Tokens, NEW n \in Amounts,
         NEW class \in DOMAIN Limits, Provision(t, n, class)
  PROVE  LockedAccountsForTokens'
<1> DEFINE g == Granted(n, class)
           o == Owner[t]
           a == account[o]
           m == -g
<1>1. n \in Int /\ n > 0 /\ status[t] = "none"
  BY LedgerAssumption DEF Provision
<1>2. g \in Nat /\ m \in Int
  BY <1>1, GrantedFacts
<1>3. RowTypes /\ o \in Users /\ account \in [Users -> Account] /\ a \in Account
  BY TokensAssumption DEF IInv, RowTypes
<1>4. account' = [account EXCEPT ![o] = Moved(a, m, g, 0, g)]
  BY DEF Provision, LockFor, LockedUp
<1>5. Moved(a, m, g, 0, g).locked = a.locked + g
  <2> HIDE DEF m, g, a
  <2> QED  BY <1>2, <1>3, MovedFacts
<1>6. /\ account'[o].locked = account[o].locked + g
      /\ \A u \in Users \ {o} : account'[u].locked = account[u].locked
  <2> HIDE DEF m, g, o
  <2> QED  BY <1>3, <1>4, <1>5
<1>7. status' = [status EXCEPT ![t] = "active"] /\ amount' = [amount EXCEPT ![t] = g]
      /\ used' = used
  BY DEF Provision
<1>8. amount[t] = 0
  BY <1>1 DEF IInv, Sound
<1> HIDE DEF g
<1>9. /\ StillLocked'[t] = StillLocked[t] + g
      /\ \A x \in Tokens \ {t} : StillLocked'[x] = StillLocked[x]
  BY <1>1, <1>2, <1>3, <1>7, <1>8 DEF RowTypes, StillLocked, Closed
<1>10. StaysClosed
  BY <1>1, <1>3, <1>7 DEF StaysClosed, RowTypes, Closed
<1> QED  BY <1>2, <1>3, <1>6, <1>9, <1>10, OneTokenFacts

LEMMA BooksStepFacts == IInv /\ LockedAccountsForTokens /\ [Next]_vars => LockedAccountsForTokens'
<1> SUFFICES ASSUME IInv, LockedAccountsForTokens, [Next]_vars
             PROVE  LockedAccountsForTokens'
  OBVIOUS
<1>1. RowTypes /\ RowTypes'
  BY StepFacts DEF IInv
<1>0. (status' = status /\ used' = used) => StaysClosed
  BY DEF StaysClosed
<1>2. ASSUME NEW u \in Users, NEW n \in Amounts, Credit(u, n)
      PROVE  LockedAccountsForTokens'
  <2>1. n \in Nat /\ account \in [Users -> Account] /\ account[u] \in Account
    BY <1>1, <1>2, LedgerAssumption DEF Credit, RowTypes
  <2>2. account' = [account EXCEPT ![u] = Moved(account[u], n, 0, n, 0)]
    BY <1>2 DEF Credit, Credited
  <2>3. Moved(account[u], n, 0, n, 0).locked = account[u].locked + 0 /\ account[u].locked \in Int
    BY <2>1, MovedFacts DEF Account
  <2>4. \A x \in Users : account'[x].locked = account[x].locked
    BY <2>1, <2>2, <2>3
  <2>5. \A x \in Tokens : StillLocked'[x] = StillLocked[x]
    BY <1>2 DEF Credit, StillLocked
  <2>6. StaysClosed
    BY <1>0, <1>2 DEF Credit
  <2> QED  BY <1>1, <2>4, <2>5, <2>6, NoTokenFacts
<1>3. ASSUME NEW t \in Tokens, NEW n \in Spends, SyncSpend(t, n) \/ RecordSpend(t, n)
      PROVE  LockedAccountsForTokens'
  <2>1. account' = account /\ amount' = amount
    BY <1>3 DEF SyncSpend, RecordSpend
  <2>2. /\ status[t] \notin Closed /\ status'[t] \notin Closed
        /\ \A x \in Tokens \ {t} : status'[x] = status[x] /\ used'[x] = used[x]
    BY <1>1, <1>3 DEF SyncSpend, RecordSpend, Spendable, RowTypes, Closed
  <2>3. \A x \in Tokens : StillLocked'[x] = StillLocked[x]
    BY <2>1, <2>2 DEF StillLocked
  <2>4. StaysClosed
    BY <2>2 DEF StaysClosed
  <2> QED  BY <1>1, <2>1, <2>3, <2>4, NoTokenFacts
<1>4. ASSUME NEW t \in Tokens, Revoke(t)  PROVE LockedAccountsForTokens'
  <2>1. "revoked" \in Closed /\ status[t] \notin Closed
    BY <1>4 DEF Closed, Revoke, Revocable
  <2> QED  BY <1>1, <1>4, <2>1, CloseBooksFacts DEF Revoke
<1>5. ASSUME NEW t \in Tokens, ExpireOne(t)  PROVE LockedAccountsForTokens'
  <2>1. "expired" \in Closed /\ status[t] \notin Closed
    BY <1>5 DEF Closed, ExpireOne, IInv, Sound
  <2> QED  BY <1>1, <1>5, <2>1, CloseBooksFacts DEF ExpireOne
<1>6. ASSUME ApplySpendCutoffs  PROVE LockedAccountsForTokens'
  <2>1. /\ status' = [t \in Tokens |-> IF PastCutoff(t) THEN "spend_locked" ELSE status[t]]
        /\ account' = account /\ amount' = amount /\ used' = used
    BY <1>6 DEF ApplySpendCutoffs
  <2>2. \A x \in Tokens : StillLocked'[x] = StillLocked[x]
    BY <2>1 DEF StillLocked, PastCutoff, Closed
  <2>3. StaysClosed
    BY <2>1 DEF StaysClosed, PastCutoff, Closed
  <2> QED  BY <1>1, <2>1, <2>2, <2>3, NoTokenFacts
<1>7. ASSUME ExpireStart \/ Tick \/ UNCHANGED vars  PROVE LockedAccountsForTokens'
  <2>1. UNCHANGED <<account, status, amount, used>>
    BY <1>7 DEF ExpireStart, Tick, vars
  <2>2. \A x \in Tokens : StillLocked'[x] = StillLocked[x]
    BY <2>1 DEF StillLocked
  <2> QED  BY <1>0, <1>1, <2>1, <2>2, NoTokenFacts
<1> QED
  BY <1>1, <1>2, <1>3, <1>4, <1>5, <1>6, <1>7, ProvisionBooksFacts DEF Next

LEMMA BooksInitFacts == Init => LockedAccountsForTokens
<1> SUFFICES ASSUME Init, NEW u \in Users
             PROVE  account[u].locked = SumFunctionOnSet(StillLocked, OwnedBy(u))
  BY DEF LockedAccountsForTokens
<1> DEFINE f == StillLocked
           S == OwnedBy(u)
<1>1. IsFiniteSet(S) /\ \A x \in S : f[x] = 0
  BY TokensAssumption, FS_Subset DEF Init, Zero, StillLocked, OwnedBy, Closed
<1> HIDE DEF f, S
<1>2. SumFunctionOnSet(f, S) = 0
  BY <1>1, SumZero
<1> QED  BY <1>2 DEF Init, EmptyAccount, f, S

-----------------------------------------------------------------------------
(* OperatorTasks: WithinAmount and LockedAccountsForTokens do not survive the  *)
(* operator's tasks.  That no column of a row turns negative does, and that    *)
(* money enters the ledger by credit only, because a refund pays no more than  *)
(* is locked.                                                                  *)

Held(a) == a.available + a.locked

Solvent(a) == a \in Account /\ a.available >= 0 /\ a.locked >= 0

\* No column of a balance row is negative.
SolventUsers == \A u \in Users : account[u].available >= 0 /\ account[u].locked >= 0

OpInv == /\ RowTypes /\ SolventUsers
         /\ \A t \in Tokens : used[t] <= amount[t] /\ (status[t] = "none" => used[t] = 0)

\* What a user has in both columns together changes by a credit only.
HeldUnlessCredited ==
  \A u \in Users : Held(account'[u]) = Held(account[u]) \/ \E n \in Amounts : Credit(u, n)

\* A refund paid twice is paid with the user's own money, never with new money.
OnlyCreditsAdd == [][HeldUnlessCredited]_vars

LEMMA HeldFacts ==
  ASSUME NEW a, Solvent(a), NEW n \in Nat
  PROVE  /\ Solvent(Credited(a, n))
         /\ n <= a.available =>
              Solvent(LockedUp(a, n)) /\ Held(LockedUp(a, n)) = Held(a)
         /\ Solvent(Refunded(a, n)) /\ Held(Refunded(a, n)) = Held(a)
         /\ RefundAmount(a, n) \in Int
<1> DEFINE m == -n
           r == RefundAmount(a, n)
           q == -r
<1>1. /\ a.available \in Int /\ a.locked \in Int /\ a.credits \in Nat /\ a.debits \in Nat
      /\ a.available >= 0 /\ a.locked >= 0
  BY DEF Solvent, Account
<1>2. m \in Int /\ m = 0 - n
  OBVIOUS
<1>3. r \in Nat /\ r <= a.locked
  BY <1>1 DEF RefundAmount
<1>4. q \in Int /\ q = 0 - r
  BY <1>3
<1>5. /\ Credited(a, n) = Moved(a, n, 0, n, 0) /\ LockedUp(a, n) = Moved(a, m, n, 0, n)
      /\ Refunded(a, n) = Moved(a, r, q, r, 0)
  BY DEF Credited, LockedUp, Refunded
<1> HIDE DEF m, r, q
<1>6. ASSUME NEW v \in Int, NEW l \in Int, NEW c \in Nat, NEW d \in Nat,
             a.available + v >= 0, a.locked + l >= 0
      PROVE  /\ Solvent(Moved(a, v, l, c, d))
             /\ v + l = 0 => Held(Moved(a, v, l, c, d)) = Held(a)
  BY <1>1, <1>6 DEF Solvent, Account, Moved, Held
<1>7. Solvent(Credited(a, n))
  BY <1>1, <1>5, <1>6
<1>8. ASSUME n <= a.available
      PROVE  Solvent(LockedUp(a, n)) /\ Held(LockedUp(a, n)) = Held(a)
  <2>1. a.available + m >= 0 /\ a.locked + n >= 0 /\ m + n = 0
    BY <1>1, <1>2, <1>8
  <2> QED  BY <1>2, <1>5, <1>6, <2>1
<1>9. Solvent(Refunded(a, n)) /\ Held(Refunded(a, n)) = Held(a)
  <2>1. a.available + r >= 0 /\ a.locked + q >= 0 /\ r + q = 0
    BY <1>1, <1>3, <1>4
  <2> QED  BY <1>3, <1>4, <1>5, <1>6, <2>1
<1>10. r \in Int
  BY <1>3
<1> QED  BY <1>7, <1>8, <1>9, <1>10 DEF r

\* A refund of any token in any state.
LEMMA AnyRefundFacts ==
  ASSUME OpInv, NEW t \in Tokens, RefundUnused(t)
  PROVE  /\ account' \in [Users -> Account] /\ SolventUsers'
         /\ refunded' \in [Tokens -> Int]
         /\ \A u \in Users : Held(account'[u]) = Held(account[u])
<1> DEFINE o == Owner[t]
           n == Unused(t)
<1>1. o \in Users /\ n \in Nat
  BY TokensAssumption DEF Unused, OpInv, RowTypes
<1>2. Solvent(account[o]) /\ account \in [Users -> Account] /\ refunded \in [Tokens -> Int]
  BY <1>1 DEF Solvent, OpInv, RowTypes, SolventUsers
<1>3. CASE n > 0
  <2>1. /\ account' = [account EXCEPT ![o] = Refunded(account[o], n)]
        /\ refunded' = [refunded EXCEPT ![t] = @ + RefundAmount(account[o], n)]
    BY <1>3 DEF RefundUnused
  <2>2. /\ Solvent(Refunded(account[o], n)) /\ RefundAmount(account[o], n) \in Int
        /\ Held(Refunded(account[o], n)) = Held(account[o])
    BY <1>1, <1>2, HeldFacts
  <2> HIDE DEF o, n
  <2> QED  BY <1>1, <1>2, <2>1, <2>2 DEF OpInv, SolventUsers, Solvent
<1>4. CASE ~(n > 0)
  <2>1. account' = account /\ refunded' = refunded
    BY <1>4 DEF RefundUnused
  <2> QED  BY <1>2, <2>1 DEF OpInv, SolventUsers
<1> QED  BY <1>3, <1>4

\* A token closed with a refund, from whatever status an operator may have left it in.
LEMMA AnyCloseFacts ==
  ASSUME OpInv, NEW t \in Tokens, RefundUnused(t),
         NEW final \in Closed, status' = [status EXCEPT ![t] = final],
         UNCHANGED <<amount, used, cutoff, expires, now>>, expiring' \in SUBSET Tokens
  PROVE  OpInv' /\ \A u \in Users : Held(account'[u]) = Held(account[u])
<1>1. final \in Statuses /\ final # "none"
  BY DEF Closed, Statuses
<1>2. /\ status' \in [Tokens -> Statuses]
      /\ \A x \in Tokens : status'[x] = "none" => status[x] = "none"
  BY <1>1 DEF OpInv, RowTypes
<1> QED  BY <1>2, AnyRefundFacts DEF OpInv, RowTypes

\* Statuses change, and what is due is selected; no amount moves.
LEMMA AnyStatusFacts ==
  ASSUME OpInv, UNCHANGED <<account, amount, used, cutoff, expires, refunded>>,
         status' \in [Tokens -> Statuses], now' \in Nat, expiring' \in SUBSET Tokens,
         \A t \in Tokens : status'[t] = "none" => status[t] = "none"
  PROVE  OpInv' /\ \A u \in Users : Held(account'[u]) = Held(account[u])
BY DEF OpInv, RowTypes, SolventUsers

LEMMA AnySpendFacts ==
  ASSUME OpInv, NEW t \in Tokens, NEW n \in Int, n <= Unused(t),
         used' = [used EXCEPT ![t] = @ + n], status[t] = "active",
         status' \in [Tokens -> Statuses],
         \A x \in Tokens : status'[x] = "none" => status[x] = "none",
         UNCHANGED <<account, amount, cutoff, expires, refunded, now, expiring>>
  PROVE  OpInv' /\ \A u \in Users : Held(account'[u]) = Held(account[u])
<1>1. used \in [Tokens -> Int] /\ amount \in [Tokens -> Nat]
  BY DEF OpInv, RowTypes
<1>2. used[t] + n \in Int /\ used[t] + n <= amount[t]
  BY <1>1 DEF Unused
<1>3. used' \in [Tokens -> Int] /\ \A x \in Tokens : used'[x] = IF x = t THEN used[t] + n ELSE used[x]
  BY <1>1, <1>2
<1>4. \A x \in Tokens : used'[x] <= amount'[x] /\ (status'[x] = "none" => used'[x] = 0)
  BY <1>1, <1>2, <1>3 DEF OpInv
<1> QED  BY <1>3, <1>4 DEF OpInv, RowTypes, SolventUsers

LEMMA AnyProvisionFacts ==
  ASSUME OpInv, NEW t \in Tokens, NEW n \in Amounts,
         NEW class \in DOMAIN Limits, Provision(t, n, class)
  PROVE  OpInv' /\ \A u \in Users : Held(account'[u]) = Held(account[u])
<1> DEFINE g == Granted(n, class)
           o == Owner[t]
<1>1. n \in Int /\ n > 0 /\ status[t] = "none"  BY LedgerAssumption DEF Provision
<1>2. g \in Nat /\ Limits[class].ttl \in Nat /\ SpendWindow \in Nat
  BY <1>1, GrantedFacts, TokensAssumption
<1>3. o \in Users /\ Solvent(account[o])
  BY TokensAssumption DEF OpInv, RowTypes, SolventUsers, Solvent
<1>4. g <= account[o].available
  BY DEF Provision, LockFor, Covers, Solvent, Account, OpInv
<1>5. Solvent(LockedUp(account[o], g)) /\ Held(LockedUp(account[o], g)) = Held(account[o])
  <2> HIDE DEF g, o
  <2> QED  BY <1>2, <1>3, <1>4, HeldFacts
<1>6. account' = [account EXCEPT ![o] = LockedUp(account[o], g)]
  BY DEF Provision, LockFor
<1>7. /\ status' = [status EXCEPT ![t] = "active"]
      /\ amount' = [amount EXCEPT ![t] = g]
      /\ cutoff' = [cutoff EXCEPT ![t] = now + SpendWindow]
      /\ expires' = [expires EXCEPT ![t] = now + Limits[class].ttl]
      /\ UNCHANGED <<used, refunded, now, expiring>>
  BY DEF Provision
<1> HIDE DEF g, o
<1>8. /\ account' \in [Users -> Account] /\ SolventUsers'
      /\ \A u \in Users : Held(account'[u]) = Held(account[u])
  BY <1>3, <1>5, <1>6 DEF OpInv, RowTypes, SolventUsers, Solvent
<1>9. RowTypes'
  <2>1. now + SpendWindow \in Nat /\ now + Limits[class].ttl \in Nat
    BY <1>2 DEF OpInv, RowTypes
  <2>2. "active" \in Statuses  BY DEF Statuses
  <2> QED  BY <1>2, <1>7, <1>8, <2>1, <2>2 DEF OpInv, RowTypes
<1>10. ASSUME NEW x \in Tokens
       PROVE  used'[x] <= amount'[x] /\ (status'[x] = "none" => used'[x] = 0)
  <2>1. used[x] <= amount[x] /\ (status[x] = "none" => used[x] = 0)
    BY DEF OpInv
  <2>2. status \in [Tokens -> Statuses] /\ amount \in [Tokens -> Nat]
    BY DEF OpInv, RowTypes
  <2> QED  BY <1>1, <1>2, <1>7, <2>1, <2>2
<1> QED  BY <1>8, <1>9, <1>10 DEF OpInv

LEMMA OperatedStepFacts ==
  ASSUME OpInv, [OperatedNext]_vars
  PROVE  OpInv' /\ HeldUnlessCredited
<1>0. status \in [Tokens -> Statuses] /\ expiring \in SUBSET Tokens /\ now \in Nat
  BY DEF OpInv, RowTypes
<1>1. ASSUME NEW x \in Users, NEW n \in Amounts, Credit(x, n)
      PROVE  /\ OpInv'
             /\ \A u \in Users : Held(account'[u]) = Held(account[u]) \/ Credit(u, n)
  <2>1. n \in Nat  BY <1>1, LedgerAssumption DEF Credit
  <2>2. Solvent(account[x])  BY DEF OpInv, RowTypes, SolventUsers, Solvent
  <2>3. Solvent(Credited(account[x], n))  BY <2>1, <2>2, HeldFacts
  <2>4. /\ account' = [account EXCEPT ![x] = Credited(account[x], n)]
        /\ UNCHANGED <<status, amount, used, cutoff, expires, refunded, now, expiring>>
    BY <1>1 DEF Credit
  <2>5. account' \in [Users -> Account] /\ SolventUsers'
    BY <2>3, <2>4 DEF OpInv, RowTypes, SolventUsers, Solvent
  <2>6. \A u \in Users \ {x} : account'[u] = account[u]
    BY <2>4 DEF OpInv, RowTypes
  <2> QED  BY <1>1, <2>4, <2>5, <2>6 DEF OpInv, RowTypes
<1>2. ASSUME NEW t \in Tokens, NEW n \in Spends, SyncSpend(t, n) \/ RecordSpend(t, n)
      PROVE  OpInv' /\ \A u \in Users : Held(account'[u]) = Held(account[u])
  <2>1. n \in Int /\ n <= Unused(t) /\ status[t] = "active"
    BY <1>2, TokensAssumption DEF SyncSpend, RecordSpend, Spendable, HasRoom
  <2>2. /\ used' = [used EXCEPT ![t] = @ + n]
        /\ UNCHANGED <<account, amount, cutoff, expires, refunded, now, expiring>>
    BY <1>2 DEF SyncSpend, RecordSpend
  <2>3. /\ status' \in [Tokens -> Statuses]
        /\ \A x \in Tokens : status'[x] = "none" => status[x] = "none"
    BY <1>0, <1>2 DEF SyncSpend, RecordSpend, Statuses
  <2> QED  BY <2>1, <2>2, <2>3, AnySpendFacts
<1>3. ASSUME NEW t \in Tokens, Revoke(t) \/ ExpireOne(t) \/ RefundSpecificToken(t)
      PROVE  OpInv' /\ \A u \in Users : Held(account'[u]) = Held(account[u])
  <2>1. CASE Revoke(t)
    BY <1>0, <2>1, AnyCloseFacts DEF Revoke, Revocable, Closed
  <2>2. CASE RefundSpecificToken(t)
    BY <1>0, <2>2, AnyCloseFacts DEF RefundSpecificToken, Closed
  <2>3. CASE ExpireOne(t)
    BY <1>0, <2>3, AnyCloseFacts DEF ExpireOne, Closed
  <2> QED  BY <1>3, <2>1, <2>2, <2>3
<1>4. ASSUME ApplySpendCutoffs \/ ExpireWithoutRefund \/ ExpireStart \/ Tick \/ UNCHANGED vars
      PROVE  OpInv' /\ \A u \in Users : Held(account'[u]) = Held(account[u])
  <2>1. CASE ApplySpendCutoffs
    BY <1>0, <2>1, AnyStatusFacts DEF ApplySpendCutoffs, Statuses
  <2>2. CASE ExpireWithoutRefund
    BY <1>0, <2>2, AnyStatusFacts DEF ExpireWithoutRefund, Statuses, Closed
  <2>3. CASE ExpireStart
    BY <1>0, <2>3, AnyStatusFacts DEF ExpireStart
  <2>4. CASE Tick
    BY <1>0, <2>4, AnyStatusFacts DEF Tick
  <2>5. CASE UNCHANGED vars
    BY <1>0, <2>5, AnyStatusFacts DEF vars
  <2> QED  BY <1>4, <2>1, <2>2, <2>3, <2>4, <2>5
<1> QED
  BY <1>1, <1>2, <1>3, <1>4, AnyProvisionFacts DEF OperatedNext, Next, HeldUnlessCredited

LEMMA OperatedInitFacts == Init => OpInv
<1> SUFFICES ASSUME Init PROVE OpInv  OBVIOUS
<1>1. EmptyAccount \in Account /\ EmptyAccount.locked >= 0 /\ EmptyAccount.available >= 0
  BY DEF EmptyAccount, Account
<1>2. RowTypes  BY <1>1 DEF Init, RowTypes, Zero, Statuses
<1> QED  BY <1>1, <1>2 DEF Init, OpInv, SolventUsers, Zero

-----------------------------------------------------------------------------
\* The strengthened invariant holds in every reachable state: rows are typed,
\* locked columns are never negative, every token is Sound.
THEOREM TokensInvariance == Spec => []IInv
<1>1. IInv /\ [Next]_vars => IInv'  BY StepFacts
<1> QED  BY <1>1, InitFacts, PTL DEF Spec

\* Ledger rows, token rows and the task's selection keep their types, and no
\* token is overspent, with synced amounts of any sign.
THEOREM TokensTypeCorrect == Spec => []TypeOK
<1>1. IInv => TypeOK
  <2> SUFFICES ASSUME IInv PROVE TypeOK  OBVIOUS
  <2>1. ASSUME NEW t \in Tokens  PROVE used[t] <= amount[t]
    <3>1. used[t] \in Int /\ amount[t] \in Nat /\ refunded[t] \in Int
      BY DEF IInv, RowTypes
    <3> QED  BY <3>1 DEF IInv, Sound
  <2> QED  BY <2>1 DEF IInv, TypeOK
<1> QED  BY <1>1, TokensInvariance, PTL

\* However provisioning, sync, revocation and the scheduled tasks follow each
\* other, a token never gives out more than was locked for it.
THEOREM TokensWithinAmount == Spec => []WithinAmount
<1>1. IInv => WithinAmount  BY DEF IInv, Sound, WithinAmount
<1> QED  BY <1>1, TokensInvariance, PTL

\* Unless a token was closed with a usage below zero, what its owner has locked is, to
\* the kobo, what open tokens were granted and closed ones had spent: every refund is
\* complete and at nobody else's expense.
THEOREM TokensLockedAccounts == Spec => []LockedAccountsForTokens
<1>1. IInv /\ LockedAccountsForTokens /\ [Next]_vars => LockedAccountsForTokens'
  BY BooksStepFacts
<1> QED  BY <1>1, BooksInitFacts, TokensInvariance, PTL DEF Spec

\* No step changes what a closed token has spent or had refunded.
THEOREM TokensClosedIsFinal == Spec => ClosedIsFinal
<1> DEFINE Final == \A t \in Tokens :
             status[t] \in Closed => used'[t] = used[t] /\ refunded'[t] = refunded[t]
<1>1. IInv /\ [Next]_vars => [Final]_vars  BY FinalFacts
<1> QED  BY <1>1, TokensInvariance, PTL DEF Spec, ClosedIsFinal

\* The types, and the usage within the amount, survive the operator's tasks.
THEOREM OperatedTypeCorrect == OperatedSpec => []TypeOK
<1>1. OpInv => TypeOK
  BY DEF OpInv, TypeOK
<1> QED  BY <1>1, OperatedInitFacts, OperatedStepFacts, PTL DEF OperatedSpec

\* Whatever an operator starts, and whichever token is refunded twice, no column of a
\* balance turns negative.
THEOREM OperatedSolvent == OperatedSpec => []SolventUsers
<1>1. OpInv => SolventUsers
  BY DEF OpInv
<1> QED  BY <1>1, OperatedInitFacts, OperatedStepFacts, PTL DEF OperatedSpec

\* A refund too many is paid from what is locked for the user's other tokens, never
\* with money that was not there.
THEOREM OperatedOnlyCreditsAdd == OperatedSpec => OnlyCreditsAdd
<1>1. OpInv /\ [OperatedNext]_vars => OpInv' /\ HeldUnlessCredited
  BY OperatedStepFacts
<1> QED  BY <1>1, OperatedInitFacts, OperatedStepFacts, PTL DEF OperatedSpec, OnlyCreditsAdd
=============================================================================
