---------------------------- MODULE LedgerProofs ----------------------------
(***************************************************************************)
(* Proofs about LedgerSessions, for every set of users, sessions, amounts  *)
(* and every posting bound.                                                *)
(***************************************************************************)
EXTENDS LedgerSessions, TLAPS

\* The part of NonNegative that is about one row.
Sound(a) == /\ a.locked >= 0
            /\ NoOverdrafts => a.available >= 0

\* A leg comes from a call whose overdraft flag was among those callers pass.
Allowed(leg) == NoOverdrafts => leg.op # "overdraft"

\* Between rows a and b the available balance changes by what is posted.
Backed(a, b) ==
  b.available - a.available = (b.credits - a.credits) - (b.debits - a.debits)

\* NonNegative is not inductive: what is committed next is what the sessions
\* hold in memory, so the rows in memory have to be sound as well.
IInv == /\ TypeOK
        /\ \A u \in Users : Sound(account[u])
        /\ \A s \in Sessions : \A u \in Users : Sound(row[s][u])
        /\ \A s \in Sessions : \A i \in DOMAIN legs[s] : Allowed(legs[s][i])

-----------------------------------------------------------------------------
LEMMA MovedFacts ==
  ASSUME NEW a \in Account, NEW v \in Int, NEW l \in Int, NEW c \in Nat, NEW d \in Nat
  PROVE  /\ Moved(a, v, l, c, d) \in Account
         /\ Moved(a, v, l, c, d).available = a.available + v
         /\ Moved(a, v, l, c, d).locked = a.locked + l
         /\ v = c - d => Backed(a, Moved(a, v, l, c, d))
BY DEF Moved, Account, Backed

\* What a row update does to any row it is applied to: it keeps the row typed
\* and sound, and changes the available balance by what it posts.
LEMMA ApplyLegFacts ==
  ASSUME NEW a \in Account, Sound(a), NEW leg \in Legs, Allowed(leg),
         NeedsFunds(leg) => Covers(a, leg.amount)
  PROVE  /\ ApplyLeg(leg, a) \in Account
         /\ Sound(ApplyLeg(leg, a))
         /\ Backed(a, ApplyLeg(leg, a))
<1> DEFINE n == leg.amount
           m == -n
<1>1. n \in Nat /\ m \in Int /\ leg.op \in Ops  BY DEF Legs
<1>2. m = 0 - n /\ n > 0  BY DEF Legs
<1>3. /\ a.locked \in Int /\ a.available \in Int /\ a.locked >= 0
      /\ NoOverdrafts => a.available >= 0
      /\ NeedsFunds(leg) => a.available >= n
  BY DEF Sound, Covers, Account
<1> DEFINE r == RefundAmount(a, n)
           q == -r
<1>4. r \in Nat /\ q \in Int  BY <1>1, <1>2, <1>3 DEF RefundAmount
<1>5. q = 0 - r /\ r <= a.locked  BY <1>1, <1>2, <1>3 DEF RefundAmount
<1>6. /\ leg.op = "credit" => ApplyLeg(leg, a) = Moved(a, n, 0, n, 0)
      /\ leg.op \in {"debit", "overdraft"} => ApplyLeg(leg, a) = Moved(a, m, 0, 0, n)
      /\ leg.op = "lock" => ApplyLeg(leg, a) = Moved(a, m, n, 0, n)
      /\ leg.op = "refund" => ApplyLeg(leg, a) = Moved(a, r, q, r, 0)
  BY DEF ApplyLeg, Credited, Debited, LockedUp, Refunded
<1>7. leg.op \in {"debit", "overdraft"} => (NoOverdrafts => a.available >= n)
  BY <1>3 DEF Allowed, NeedsFunds
<1>8. leg.op = "lock" => a.available >= n  BY <1>3 DEF NeedsFunds
<1> HIDE DEF n, m, r, q
<1>9. CASE leg.op = "credit"
  <2>1. /\ Moved(a, n, 0, n, 0) \in Account
        /\ Moved(a, n, 0, n, 0).available = a.available + n
        /\ Moved(a, n, 0, n, 0).locked = a.locked + 0
    BY <1>1, MovedFacts
  <2>2. Backed(a, Moved(a, n, 0, n, 0))  BY <1>1, <1>2, <1>5, MovedFacts
  <2> QED  BY <1>1, <1>3, <1>6, <1>9, <2>1, <2>2, <1>2, <1>5 DEF Sound
<1>10. CASE leg.op \in {"debit", "overdraft"}
  <2>1. /\ Moved(a, m, 0, 0, n) \in Account
        /\ Moved(a, m, 0, 0, n).available = a.available + m
        /\ Moved(a, m, 0, 0, n).locked = a.locked + 0
    BY <1>1, MovedFacts
  <2>2. Backed(a, Moved(a, m, 0, 0, n))  BY <1>1, <1>2, <1>5, MovedFacts
  <2> QED  BY <1>1, <1>3, <1>6, <1>7, <1>10, <2>1, <2>2, <1>2, <1>5 DEF Sound
<1>11. CASE leg.op = "lock"
  <2>1. /\ Moved(a, m, n, 0, n) \in Account
        /\ Moved(a, m, n, 0, n).available = a.available + m
        /\ Moved(a, m, n, 0, n).locked = a.locked + n
    BY <1>1, MovedFacts
  <2>2. Backed(a, Moved(a, m, n, 0, n))  BY <1>1, <1>2, <1>5, MovedFacts
  <2> QED  BY <1>1, <1>3, <1>6, <1>8, <1>11, <2>1, <2>2, <1>2, <1>5 DEF Sound
<1>12. CASE leg.op = "refund"
  <2>1. /\ Moved(a, r, q, r, 0) \in Account
        /\ Moved(a, r, q, r, 0).available = a.available + r
        /\ Moved(a, r, q, r, 0).locked = a.locked + q
    BY <1>4, MovedFacts
  <2>2. Backed(a, Moved(a, r, q, r, 0))  BY <1>4, <1>2, <1>5, MovedFacts
  <2> QED  BY <1>3, <1>4, <1>6, <1>12, <2>1, <2>2, <1>2, <1>5 DEF Sound
<1> QED  BY <1>1, <1>9, <1>10, <1>11, <1>12 DEF Ops

LEMMA EmptyAccountFacts == EmptyAccount \in Account /\ Sound(EmptyAccount)
BY DEF EmptyAccount, Account, Sound

\* Committing a sound row over a sound row leaves a sound row.
LEMMA MergedFacts ==
  ASSUME NEW a \in Account, NEW r \in Account, Sound(a), Sound(r), NEW w
  PROVE  Merged(a, r, w) \in Account /\ Sound(Merged(a, r, w))
<1>1. /\ Merged(a, r, w) \in Account
      /\ Merged(a, r, w).available \in {a.available, r.available}
      /\ Merged(a, r, w).locked \in {a.locked, r.locked}
  BY DEF Merged, Account
<1> QED  BY <1>1 DEF Sound

LEMMA CallsFacts ==
  ASSUME NEW u \in Users, NEW n \in Amounts, n > 0, NEW calls \in Calls(u, n)
  PROVE  calls \in Seq(Legs) /\ \A i \in DOMAIN calls : Allowed(calls[i])
<1>1. ASSUME NEW op \in Ops, NEW v \in Users, NoOverdrafts => op # "overdraft"
      PROVE  Leg(op, v, n) \in Legs /\ Allowed(Leg(op, v, n))
  BY <1>1, LedgerAssumption DEF Leg, Legs, Allowed
<1>2. ASSUME NEW a \in Legs, Allowed(a)
      PROVE  <<a>> \in Seq(Legs) /\ \A i \in DOMAIN <<a>> : Allowed(<<a>>[i])
  BY <1>2
<1>3. CASE calls \in {<<Leg("credit", u, n)>>, <<Leg("lock", u, n)>>, <<Leg("refund", u, n)>>}
  BY <1>1, <1>2, <1>3 DEF Ops
<1>4. CASE \E o \in Overdrafts : calls = <<Leg(IF o THEN "overdraft" ELSE "debit", u, n)>>
  <2>1. PICK o \in Overdrafts : calls = <<Leg(IF o THEN "overdraft" ELSE "debit", u, n)>>
    BY <1>4
  <2>2. CASE o = TRUE  BY <1>1, <1>2, <2>1, <2>2 DEF Ops, NoOverdrafts
  <2>3. CASE o = FALSE  BY <1>1, <1>2, <2>1, <2>3 DEF Ops
  <2> QED  BY <2>2, <2>3, LedgerAssumption
<1>5. CASE \E to \in Users : calls = TransferLegs(u, to, n)
  <2>1. PICK to \in Users : calls = TransferLegs(u, to, n)  BY <1>5
  <2> DEFINE a == Leg("debit", u, n)
             b == Leg("credit", to, n)
  <2>2. a \in Legs /\ b \in Legs /\ Allowed(a) /\ Allowed(b)  BY <1>1 DEF Ops
  <2>3. calls = <<a, b>>  BY <2>1 DEF TransferLegs
  <2> HIDE DEF a, b
  <2> QED  BY <2>2, <2>3
<1> QED  BY <1>3, <1>4, <1>5 DEF Calls

-----------------------------------------------------------------------------
LEMMA InitIInv == Init => IInv
BY EmptyAccountFacts DEF Init, NoRows, NoneWritten, IInv, TypeOK

LEMMA BeginIInv == ASSUME IInv, NEW s \in Sessions, Begin(s)  PROVE  IInv'
<1>0. PICK u \in Users, n \in Amounts :
        n > 0 /\ \E calls \in Calls(u, n) : legs' = [legs EXCEPT ![s] = calls]
  BY DEF Begin
<1>1. PICK calls \in Calls(u, n) : legs' = [legs EXCEPT ![s] = calls]
  BY <1>0
<1>2. calls \in Seq(Legs) /\ \A i \in DOMAIN calls : Allowed(calls[i])
  BY <1>0, CallsFacts
<1>3. TypeOK'  BY <1>1, <1>2 DEF IInv, TypeOK, Begin
<1>4. \A t \in Sessions : \A i \in DOMAIN legs'[t] : Allowed(legs'[t][i])
  BY <1>1, <1>2 DEF IInv, TypeOK
<1> QED  BY <1>3, <1>4 DEF IInv, Begin, Sound, Allowed

LEMMA ReadIInv == ASSUME IInv, NEW s \in Sessions, Read(s)  PROVE  IInv'
<1>1. legs[s] \in Seq(Legs) /\ legs[s] # <<>>  BY DEF IInv, TypeOK, Read, Pending
<1>2. Target(s) \in Users
  <2>1. Leg1(s) \in Legs  BY <1>1 DEF Leg1
  <2> QED  BY <2>1 DEF Target, Legs
<1>3. LoadedRow(Target(s)) \in Account /\ Sound(LoadedRow(Target(s)))
  BY <1>2 DEF IInv, TypeOK, LoadedRow, Account, Sound
<1>4. TypeOK'  BY <1>2, <1>3 DEF IInv, TypeOK, Read
<1>5. \A t \in Sessions : \A u \in Users : Sound(row'[t][u])
  BY <1>2, <1>3 DEF IInv, TypeOK, Read
<1> QED  BY <1>4, <1>5 DEF IInv, Read, Sound, Allowed

LEMMA FlushIInv == ASSUME IInv, NEW s \in Sessions, Flush(s)  PROVE  IInv'
<1> DEFINE u == Target(s)
           after == ApplyLeg(Leg1(s), row[s][u])
<1>1. legs[s] \in Seq(Legs) /\ legs[s] # <<>>  BY DEF IInv, TypeOK, Flush, Pending
<1>2. Leg1(s) \in Legs /\ u \in Users /\ Allowed(Leg1(s))
  <2>1. Leg1(s) \in Legs  BY <1>1 DEF Leg1
  <2>2. 1 \in DOMAIN legs[s] /\ Leg1(s) = legs[s][1]  BY <1>1 DEF Leg1
  <2>3. Target(s) \in Users  BY <2>1 DEF Target, Legs
  <2> QED  BY <2>1, <2>2, <2>3 DEF IInv
<1>3. row[s][u] \in Account /\ Sound(row[s][u])  BY <1>2 DEF IInv, TypeOK
<1>4. after \in Account /\ Sound(after)
  BY <1>2, <1>3, ApplyLegFacts DEF Flush, Covered
<1>5. WrittenColumns(row[s][u], after) \in SUBSET Columns
  BY DEF WrittenColumns, Columns
<1>6. Tail(legs[s]) \in Seq(Legs) /\ \A i \in DOMAIN Tail(legs[s]) : Allowed(Tail(legs[s])[i])
  BY <1>1 DEF IInv
<1>7. TypeOK'  BY <1>2, <1>4, <1>5, <1>6 DEF IInv, TypeOK, Flush
<1>8. \A t \in Sessions : \A v \in Users : Sound(row'[t][v])
  BY <1>2, <1>4 DEF IInv, TypeOK, Flush
<1>9. \A t \in Sessions : \A i \in DOMAIN legs'[t] : Allowed(legs'[t][i])
  BY <1>6 DEF IInv, TypeOK, Flush
<1> QED  BY <1>7, <1>8, <1>9 DEF IInv, Flush, Sound

\* A session that ends leaves the invariant to the committed rows.
LEMMA EndIInv ==
  ASSUME IInv, NEW s \in Sessions, End(s),
         account' \in [Users -> Account], \A u \in Users : Sound(account[u])'
  PROVE  IInv'
<1>1. NoRows \in [Users -> Account] /\ \A u \in Users : Sound(NoRows[u])
  BY EmptyAccountFacts DEF NoRows
<1>2. TypeOK'  BY <1>1 DEF IInv, TypeOK, End, NoneWritten
<1>3. \A t \in Sessions : \A u \in Users : Sound(row'[t][u])
  BY <1>1 DEF IInv, TypeOK, End
<1>4. \A t \in Sessions : \A i \in DOMAIN legs'[t] : Allowed(legs'[t][i])
  BY DEF IInv, TypeOK, End
<1> QED  BY <1>2, <1>3, <1>4 DEF IInv, Sound, Allowed

LEMMA CommitIInv == ASSUME IInv, NEW s \in Sessions, Commit(s)  PROVE  IInv'
<1>1. \A u \in Users : account'[u] \in Account /\ Sound(account'[u])
  BY MergedFacts DEF IInv, TypeOK, Commit
<1>2. account' \in [Users -> Account]  BY <1>1 DEF Commit
<1> QED  BY <1>1, <1>2, EndIInv DEF Commit, Sound

LEMMA RollbackIInv == ASSUME IInv, NEW s \in Sessions, Rollback(s)  PROVE  IInv'
BY EndIInv DEF IInv, TypeOK, Rollback, Sound

LEMMA NextIInv == IInv /\ [Next]_vars => IInv'
<1> SUFFICES ASSUME IInv, [Next]_vars  PROVE IInv'  OBVIOUS
<1>1. ASSUME NEW s \in Sessions, Begin(s) \/ Flush(s) \/ Step(s) \/ Crash(s)  PROVE IInv'
  <2>1. CASE Refuse(s) \/ DeadlockVictim(s) \/ Crash(s)
    BY <2>1, RollbackIInv DEF Refuse, DeadlockVictim, Crash
  <2> QED  BY <1>1, <2>1, BeginIInv, ReadIInv, FlushIInv, CommitIInv DEF Step
<1>2. CASE UNCHANGED vars
  BY <1>2 DEF vars, work, IInv, TypeOK, Sound, Allowed
<1> QED  BY <1>1, <1>2 DEF Next

-----------------------------------------------------------------------------
\* IInv is an invariant of the service.
THEOREM Invariance == Spec => []IInv
BY InitIInv, NextIInv, PTL DEF Spec

\* Every variable keeps its type: no side of the entries is ever posted a
\* negative amount, a refund of an empty row included.
THEOREM TypeCorrect == Spec => []TypeOK
<1>1. IInv => TypeOK  BY DEF IInv
<1> QED  BY <1>1, Invariance, PTL

\* No interleaving of calls, crashes and deadlock aborts commits a negative
\* locked sum, or (without overdrafts) a negative available balance.
THEOREM BalancesNonNegative == Spec => []NonNegative
<1>1. IInv => NonNegative  BY DEF IInv, NonNegative, Sound
<1> QED  BY <1>1, Invariance, PTL

-----------------------------------------------------------------------------
(* The lost update is the only way a balance leaves its entries.           *)

\* What a session has posted for a row accounts for what it changed in memory
\* since it loaded it, and an untouched available column was never changed.
RowsBacked ==
  \A s \in Sessions : \A u \in Users :
    /\ seen[s][u].credits = 0 /\ seen[s][u].debits = 0
    /\ Backed(seen[s][u], row[s][u])
    /\ "available" \notin written[s][u] => row[s][u].available = seen[s][u].available

LEMMA BackedTransitive ==
  ASSUME NEW a \in Account, NEW b \in Account, NEW c \in Account, Backed(a, b), Backed(b, c)
  PROVE  Backed(a, c)
BY DEF Backed, Account

LEMMA NoRowsBacked ==
  \A u \in Users : /\ NoRows[u].credits = 0 /\ NoRows[u].debits = 0
                   /\ Backed(NoRows[u], NoRows[u])
BY DEF NoRows, EmptyAccount, Backed

LEMMA InitRowsBacked == Init => RowsBacked
BY NoRowsBacked DEF Init, RowsBacked

LEMMA EndRowsBacked ==
  ASSUME IInv, RowsBacked, NEW s \in Sessions, End(s)  PROVE  RowsBacked'
<1>1. /\ seen' = [seen EXCEPT ![s] = NoRows] /\ row' = [row EXCEPT ![s] = NoRows]
      /\ written' = [written EXCEPT ![s] = NoneWritten]
  BY DEF End
<1>2. ASSUME NEW t \in Sessions, NEW u \in Users
      PROVE  /\ seen'[t][u].credits = 0 /\ seen'[t][u].debits = 0
             /\ Backed(seen'[t][u], row'[t][u])
             /\ "available" \notin written'[t][u] => row'[t][u].available = seen'[t][u].available
  <2>1. CASE t = s
    <3>1. seen'[t] = NoRows /\ row'[t] = NoRows  BY <1>1, <2>1 DEF IInv, TypeOK
    <3> QED  BY <3>1, NoRowsBacked
  <2>2. CASE t # s
    <3>1. seen'[t] = seen[t] /\ row'[t] = row[t] /\ written'[t] = written[t]
      BY <1>1, <2>2 DEF IInv, TypeOK
    <3> QED  BY <3>1 DEF RowsBacked
  <2> QED  BY <2>1, <2>2
<1> QED  BY <1>2 DEF RowsBacked, Backed

LEMMA FlushFacts ==
  ASSUME IInv, NEW s \in Sessions, Flush(s)
  PROVE  LET after == ApplyLeg(Leg1(s), row[s][Target(s)])
         IN  /\ Target(s) \in Users /\ Leg1(s) \in Legs
             /\ row[s][Target(s)] \in Account
             /\ after \in Account /\ Backed(row[s][Target(s)], after)
<1>1. legs[s] \in Seq(Legs) /\ legs[s] # <<>>  BY DEF IInv, TypeOK, Flush, Pending
<1>2. Leg1(s) \in Legs /\ Leg1(s) = legs[s][1] /\ 1 \in DOMAIN legs[s]  BY <1>1 DEF Leg1
<1>3. Target(s) \in Users  BY <1>2 DEF Target, Legs
<1>4. row[s][Target(s)] \in Account /\ Sound(row[s][Target(s)])
  BY <1>3 DEF IInv, TypeOK
<1>5. Allowed(Leg1(s))  BY <1>2 DEF IInv
<1> QED  BY <1>2, <1>3, <1>4, <1>5, ApplyLegFacts DEF Flush, Covered

LEMMA NextRowsBacked == IInv /\ RowsBacked /\ [Next]_vars => RowsBacked'
<1> SUFFICES ASSUME IInv, RowsBacked, [Next]_vars  PROVE RowsBacked'  OBVIOUS
<1>1. ASSUME NEW s \in Sessions, Begin(s)  PROVE RowsBacked'
  BY <1>1 DEF Begin, RowsBacked, Backed
<1>2. ASSUME NEW s \in Sessions, Read(s)  PROVE RowsBacked'
  <2> DEFINE u == Target(s)
             loadedRow == LoadedRow(u)
  <2>1. legs[s] \in Seq(Legs) /\ legs[s] # <<>>
    BY <1>2 DEF IInv, TypeOK, Read, Pending
  <2>2. Leg1(s) \in Legs  BY <2>1 DEF Leg1
  <2>3. u \in Users  BY <2>2 DEF Target, Legs
  <2>4. loadedRow.credits = 0 /\ loadedRow.debits = 0 /\ Backed(loadedRow, loadedRow)
    BY <2>3 DEF LoadedRow, Backed, IInv, TypeOK, Account
  <2>5. /\ seen' = [seen EXCEPT ![s][u] = loadedRow] /\ row' = [row EXCEPT ![s][u] = loadedRow]
        /\ written' = written
    BY <1>2 DEF Read
  <2> HIDE DEF u, loadedRow
  <2>6. ASSUME NEW t \in Sessions, NEW v \in Users
        PROVE  /\ seen'[t][v].credits = 0 /\ seen'[t][v].debits = 0
               /\ Backed(seen'[t][v], row'[t][v])
               /\ "available" \notin written'[t][v] => row'[t][v].available = seen'[t][v].available
    <3>1. CASE t = s /\ v = u
      <4>1. seen'[t][v] = loadedRow /\ row'[t][v] = loadedRow
        BY <2>3, <2>5, <3>1 DEF IInv, TypeOK
      <4> QED  BY <2>4, <4>1
    <3>2. CASE ~(t = s /\ v = u)
      <4>1. seen'[t][v] = seen[t][v] /\ row'[t][v] = row[t][v] /\ written'[t][v] = written[t][v]
        BY <2>3, <2>5, <3>2 DEF IInv, TypeOK
      <4> QED  BY <4>1 DEF RowsBacked
    <3> QED  BY <3>1, <3>2
  <2> QED  BY <2>6 DEF RowsBacked, Backed
<1>3. ASSUME NEW s \in Sessions, Flush(s)  PROVE RowsBacked'
  <2> DEFINE u == Target(s)
             before == row[s][u]
             after == ApplyLeg(Leg1(s), before)
             columns == written[s][u] \cup WrittenColumns(before, after)
  <2>1. u \in Users /\ before \in Account /\ after \in Account /\ Backed(before, after)
    BY <1>3, FlushFacts
  <2>2. "available" \notin columns =>
          "available" \notin written[s][u] /\ after.available = before.available
    BY DEF WrittenColumns
  <2>3. /\ row' = [row EXCEPT ![s][u] = after] /\ seen' = seen
        /\ written' = [written EXCEPT ![s][u] = columns]
    BY <1>3 DEF Flush
  <2>4. /\ Backed(seen[s][u], before) /\ seen[s][u] \in Account
        /\ "available" \notin written[s][u] => before.available = seen[s][u].available
    BY <2>1 DEF RowsBacked, IInv, TypeOK
  <2>5. before = row[s][u]  OBVIOUS
  <2> HIDE DEF u, before, after, columns
  <2>6. Backed(seen[s][u], after)  BY <2>1, <2>4, BackedTransitive
  <2>7. ASSUME NEW t \in Sessions, NEW v \in Users
        PROVE  /\ seen'[t][v].credits = 0 /\ seen'[t][v].debits = 0
               /\ Backed(seen'[t][v], row'[t][v])
               /\ "available" \notin written'[t][v] => row'[t][v].available = seen'[t][v].available
    <3>1. CASE t = s /\ v = u
      <4>1. row'[t][v] = after /\ written'[t][v] = columns /\ seen'[t][v] = seen[s][u]
        BY <2>1, <2>3, <3>1 DEF IInv, TypeOK
      <4> QED  BY <2>1, <2>2, <2>4, <2>6, <4>1 DEF RowsBacked
    <3>2. CASE ~(t = s /\ v = u)
      <4>1. seen'[t][v] = seen[t][v] /\ row'[t][v] = row[t][v] /\ written'[t][v] = written[t][v]
        BY <2>1, <2>3, <3>2 DEF IInv, TypeOK
      <4> QED  BY <4>1 DEF RowsBacked
    <3> QED  BY <3>1, <3>2
  <2> QED  BY <2>7 DEF RowsBacked, Backed
<1>4. ASSUME NEW s \in Sessions, Refuse(s) \/ Commit(s) \/ DeadlockVictim(s) \/ Crash(s)
      PROVE RowsBacked'
  BY <1>4, EndRowsBacked DEF Refuse, Commit, DeadlockVictim, Crash, Rollback
<1>5. CASE UNCHANGED vars
  BY <1>5 DEF vars, work, RowsBacked, Backed
<1> QED  BY <1>1, <1>2, <1>3, <1>4, <1>5 DEF Next, Step

\* A commit moves a balance away from its entries only over a stale row.
LEMMA CommitDrift ==
  ASSUME IInv, RowsBacked, NEW s \in Sessions, Commit(s), NEW u \in Users,
         Drift(u)' # Drift(u)
  PROVE  StaleWrite(s, u)
<1> DEFINE a == account[u]
           r == row[s][u]
<1>1. account'[u] = Merged(a, r, written[s][u])  BY DEF Commit
<1>2. a \in Account /\ r \in Account /\ seen[s][u] \in Account  BY DEF IInv, TypeOK
<1>3. r.available - seen[s][u].available = r.credits - r.debits
  BY <1>2 DEF RowsBacked, Backed, Account
<1>4. Drift(u)' = account'[u].available - (account'[u].credits - account'[u].debits)
  BY DEF Drift
<1>5. /\ account'[u].credits = a.credits + r.credits
      /\ account'[u].debits = a.debits + r.debits
      /\ "available" \in written[s][u] => account'[u].available = r.available
      /\ "available" \notin written[s][u] => account'[u].available = a.available
  BY <1>1 DEF Merged
<1>6. CASE "available" \notin written[s][u]
  <2>1. r.available = seen[s][u].available  BY <1>6 DEF RowsBacked
  <2> QED  BY <1>2, <1>3, <1>4, <1>5, <1>6, <2>1 DEF Drift, Account
<1>7. CASE "available" \in written[s][u]
  <2>1. seen[s][u].available # a.available
    BY <1>2, <1>3, <1>4, <1>5, <1>7 DEF Drift, Account
  <2> QED  BY <1>7, <2>1 DEF StaleWrite, Holds
<1> QED  BY <1>6, <1>7

\* Whatever the sessions do, a balance comes apart from its entries only in a
\* commit over a row that another session changed after it was read.
THEOREM DriftOnlyFromStaleWrites == Spec => OnlyStaleWritesDrift
<1>1. IInv /\ RowsBacked /\ [Next]_vars =>
        [\A u \in Users : Drift(u)' # Drift(u) => \E s \in Sessions : StaleWrite(s, u)]_vars
  <2> SUFFICES ASSUME IInv, RowsBacked, Next, NEW u \in Users, Drift(u)' # Drift(u)
               PROVE  \E s \in Sessions : StaleWrite(s, u)
    OBVIOUS
  <2>1. PICK s \in Sessions : Begin(s) \/ Flush(s) \/ Step(s) \/ Crash(s)  BY DEF Next
  <2>2. CASE Commit(s)  BY <2>2, CommitDrift
  <2>3. CASE account' = account  BY <2>3 DEF Drift
  <2> QED
    BY <2>1, <2>2, <2>3 DEF Begin, Flush, Step, Read, Refuse, DeadlockVictim, Crash, Rollback
<1> QED
  BY <1>1, Invariance, InitRowsBacked, NextRowsBacked, PTL DEF Spec, OnlyStaleWritesDrift

-----------------------------------------------------------------------------
(* With one session at a time the service is the atomic ledger.            *)

\* The rows as they would be if session s committed now.
Virtual(s, u) == Merged(account[u], row[s][u], written[s][u])
VirtualRows(s) == [u \in Users |-> Virtual(s, u)]

\* Loaded rows are current, the others untouched.
InStep(s) ==
  \A u \in Users :
    /\ u \in loaded[s] => /\ row[s][u].available = Virtual(s, u).available
                          /\ row[s][u].locked = Virtual(s, u).locked
    /\ u \notin loaded[s] => row[s][u] = EmptyAccount /\ written[s][u] = {}

\* Rows b are what some call of the atomic ledger makes of rows a.
MadeByDebit(a, b, u, n) ==
  \E o \in Overdrafts : (o \/ Covers(a[u], n)) /\ b = [a EXCEPT ![u] = Debited(@, n)]
MadeByTransfer(a, b, u, n) ==
  /\ Covers(a[u], n)
  /\ \E to \in Users : b = [[a EXCEPT ![u] = Debited(@, n)] EXCEPT ![to] = Credited(@, n)]
MadeBy(a, b, u, n) ==
  \/ b = [a EXCEPT ![u] = Credited(@, n)]
  \/ MadeByDebit(a, b, u, n)
  \/ MadeByTransfer(a, b, u, n)
  \/ Covers(a[u], n) /\ b = [a EXCEPT ![u] = LockedUp(@, n)]
  \/ b = [a EXCEPT ![u] = Refunded(@, n)]
AtomicStep(a, b) == \E u \in Users, n \in Amounts : n > 0 /\ MadeBy(a, b, u, n)

\* The instance has the row operators under names of its own.
LEMMA AtomicOperators ==
  ASSUME NEW a, NEW n
  PROVE  /\ Atomic!Credited(a, n) = Credited(a, n)
         /\ Atomic!Debited(a, n) = Debited(a, n)
         /\ Atomic!LockedUp(a, n) = LockedUp(a, n)
         /\ Atomic!Refunded(a, n) = Refunded(a, n)
         /\ Covers(a, n) => Atomic!Covers(a, n)
BY DEF Covers, Credited, Debited, LockedUp, Refunded, RefundAmount, Moved, Atomic!Covers,
       Atomic!Credited, Atomic!Debited, Atomic!LockedUp, Atomic!Refunded,
       Atomic!RefundAmount, Atomic!Moved

LEMMA AtomicStepIsNext ==
  ASSUME AtomicStep(account, account')  PROVE Atomic!Next
<1>1. PICK u \in Users, n \in Amounts : n > 0 /\ MadeBy(account, account', u, n)
  BY DEF AtomicStep
<1>2. CASE account' = [account EXCEPT ![u] = Credited(@, n)]
  <2>1. Atomic!Credit(u, n)  BY <1>1, <1>2, AtomicOperators DEF Atomic!Credit
  <2> QED  BY <2>1 DEF Atomic!Next
<1>3. CASE MadeByDebit(account, account', u, n)
  <2>1. PICK o \in Overdrafts : o \/ Covers(account[u], n)  BY Zenon, <1>3 DEF MadeByDebit
  <2>2. account' = [account EXCEPT ![u] = Atomic!Debited(@, n)]
    BY <1>3, AtomicOperators DEF MadeByDebit
  <2>3. Atomic!Debit(u, n, o)
    BY Zenon, <1>1, <2>1, <2>2, AtomicOperators DEF Atomic!Debit
  <2> QED  BY Zenon, <2>3 DEF Atomic!Next
<1>4. CASE MadeByTransfer(account, account', u, n)
  <2>1. PICK to \in Users :
          account' = [[account EXCEPT ![u] = Debited(@, n)] EXCEPT ![to] = Credited(@, n)]
    BY <1>4 DEF MadeByTransfer
  <2>2. Atomic!Transfer(u, to, n)
    BY <1>1, <1>4, <2>1, AtomicOperators DEF Atomic!Transfer, MadeByTransfer
  <2> QED  BY <2>2 DEF Atomic!Next
<1>5. CASE Covers(account[u], n) /\ account' = [account EXCEPT ![u] = LockedUp(@, n)]
  <2>1. Atomic!LockForOfflineToken(u, n)
    BY <1>1, <1>5, AtomicOperators DEF Atomic!LockForOfflineToken
  <2> QED  BY <2>1 DEF Atomic!Next
<1>6. CASE account' = [account EXCEPT ![u] = Refunded(@, n)]
  <2>1. Atomic!UnlockAndRefund(u, n)
    BY <1>1, <1>6, AtomicOperators DEF Atomic!UnlockAndRefund
  <2> QED  BY <2>1 DEF Atomic!Next
<1> QED  BY <1>1, <1>2, <1>3, <1>4, <1>5, <1>6 DEF MadeBy

LEMMA AccountRecord ==
  ASSUME NEW a \in Account
  PROVE  a = [available |-> a.available, locked |-> a.locked,
              credits |-> a.credits, debits |-> a.debits]
BY DEF Account

LEMMA MergedEmpty == ASSUME NEW a \in Account  PROVE Merged(a, EmptyAccount, {}) = a
BY AccountRecord DEF Merged, EmptyAccount, Account

\* Flushing a change over a current row changes the virtual row alike.
LEMMA MergedMoved ==
  ASSUME NEW a \in Account, NEW b \in Account, NEW W,
         NEW v \in Int, NEW l \in Int, NEW c \in Int, NEW d \in Int,
         b.available = Merged(a, b, W).available, b.locked = Merged(a, b, W).locked
  PROVE  LET after == Moved(b, v, l, c, d)
         IN  /\ Merged(a, after, W \cup WrittenColumns(b, after))
                  = Moved(Merged(a, b, W), v, l, c, d)
             /\ after.available = Moved(Merged(a, b, W), v, l, c, d).available
             /\ after.locked = Moved(Merged(a, b, W), v, l, c, d).locked
<1> DEFINE after == Moved(b, v, l, c, d)
           X == W \cup WrittenColumns(b, after)
<1>1. /\ after.available = b.available + v /\ after.locked = b.locked + l
      /\ after.credits = b.credits + c /\ after.debits = b.debits + d
  BY DEF Moved
<1>2. /\ ("available" \in X) = ("available" \in W \/ after.available # b.available)
      /\ ("locked" \in X) = ("locked" \in W \/ after.locked # b.locked)
  BY DEF WrittenColumns
<1>3. (IF "available" \in X THEN after.available ELSE a.available) = b.available + v
  BY <1>1, <1>2 DEF Merged, Account
<1>4. (IF "locked" \in X THEN after.locked ELSE a.locked) = b.locked + l
  BY <1>1, <1>2 DEF Merged, Account
<1>5. a.credits + after.credits = (a.credits + b.credits) + c
  BY <1>1 DEF Account
<1>6. a.debits + after.debits = (a.debits + b.debits) + d
  BY <1>1 DEF Account
<1>7. Merged(a, after, X) = Moved(Merged(a, b, W), v, l, c, d)
  <2>1. /\ Merged(a, b, W).credits = a.credits + b.credits
        /\ Merged(a, b, W).debits = a.debits + b.debits
    BY DEF Merged
  <2>2. Moved(Merged(a, b, W), v, l, c, d) =
          [available |-> b.available + v, locked |-> b.locked + l,
           credits |-> (a.credits + b.credits) + c, debits |-> (a.debits + b.debits) + d]
    BY <2>1 DEF Moved
  <2> HIDE DEF after, X
  <2>3. Merged(a, after, X) =
          [available |-> b.available + v, locked |-> b.locked + l,
           credits |-> (a.credits + b.credits) + c, debits |-> (a.debits + b.debits) + d]
    BY <1>3, <1>4, <1>5, <1>6 DEF Merged
  <2> QED  BY <2>2, <2>3
<1>8. /\ after.available = Moved(Merged(a, b, W), v, l, c, d).available
      /\ after.locked = Moved(Merged(a, b, W), v, l, c, d).locked
  BY <1>1 DEF Moved
<1> QED  BY <1>7, <1>8

LEMMA MergedApply ==
  ASSUME NEW a \in Account, NEW b \in Account, NEW W, NEW leg \in Legs,
         b.available = Merged(a, b, W).available, b.locked = Merged(a, b, W).locked
  PROVE  LET after == ApplyLeg(leg, b)
             virtual == ApplyLeg(leg, Merged(a, b, W))
         IN  /\ Merged(a, after, W \cup WrittenColumns(b, after)) = virtual
             /\ after.available = virtual.available
             /\ after.locked = virtual.locked
<1> DEFINE n == leg.amount
           m == -n
           V == Merged(a, b, W)
           r == RefundAmount(b, n)
           q == -r
<1>1. n \in Int /\ m \in Int /\ r \in Int /\ q \in Int /\ leg.op \in Ops
  BY DEF Legs, RefundAmount, Account
<1>2. r = RefundAmount(V, n)  BY DEF RefundAmount
<1>3. \/ ApplyLeg(leg, b) = Moved(b, n, 0, n, 0) /\ ApplyLeg(leg, V) = Moved(V, n, 0, n, 0)
      \/ ApplyLeg(leg, b) = Moved(b, m, 0, 0, n) /\ ApplyLeg(leg, V) = Moved(V, m, 0, 0, n)
      \/ ApplyLeg(leg, b) = Moved(b, m, n, 0, n) /\ ApplyLeg(leg, V) = Moved(V, m, n, 0, n)
      \/ ApplyLeg(leg, b) = Moved(b, r, q, r, 0) /\ ApplyLeg(leg, V) = Moved(V, r, q, r, 0)
  <2> HIDE DEF r, V
  <2>1. r = RefundAmount(b, n)  BY DEF r
  <2> QED
    BY <1>1, <1>2, <2>1 DEF Ops, ApplyLeg, Credited, Debited, LockedUp, Refunded
<1> HIDE DEF n, m, r, q
<1>4. CASE ApplyLeg(leg, b) = Moved(b, n, 0, n, 0) /\ ApplyLeg(leg, V) = Moved(V, n, 0, n, 0)
  BY <1>1, <1>4, MergedMoved
<1>5. CASE ApplyLeg(leg, b) = Moved(b, m, 0, 0, n) /\ ApplyLeg(leg, V) = Moved(V, m, 0, 0, n)
  BY <1>1, <1>5, MergedMoved
<1>6. CASE ApplyLeg(leg, b) = Moved(b, m, n, 0, n) /\ ApplyLeg(leg, V) = Moved(V, m, n, 0, n)
  BY <1>1, <1>6, MergedMoved
<1>7. CASE ApplyLeg(leg, b) = Moved(b, r, q, r, 0) /\ ApplyLeg(leg, V) = Moved(V, r, q, r, 0)
  BY <1>1, <1>7, MergedMoved
<1> QED  BY <1>3, <1>4, <1>5, <1>6, <1>7

LEMMA FlushVirtual ==
  ASSUME IInv, NEW s \in Sessions, InStep(s), Flush(s)
  PROVE  /\ InStep(s)'
         /\ VirtualRows(s)' =
              [VirtualRows(s) EXCEPT ![Target(s)] = ApplyLeg(Leg1(s), @)]
<1> DEFINE u == Target(s)
           before == row[s][u]
           after == ApplyLeg(Leg1(s), before)
           columns == written[s][u] \cup WrittenColumns(before, after)
           V == Virtual(s, u)
<1>1. u \in Users /\ Leg1(s) \in Legs /\ before \in Account  BY FlushFacts
<1>2. account[u] \in Account  BY <1>1 DEF IInv, TypeOK
<1>3. before.available = V.available /\ before.locked = V.locked
  BY <1>1 DEF InStep, Flush, Loaded
<1>4. /\ Merged(account[u], after, columns) = ApplyLeg(Leg1(s), V)
      /\ after.available = ApplyLeg(Leg1(s), V).available
      /\ after.locked = ApplyLeg(Leg1(s), V).locked
  BY <1>1, <1>2, <1>3, MergedApply DEF Virtual
<1>5. /\ account' = account /\ loaded' = loaded /\ u \in loaded[s]
      /\ row'[s][u] = after /\ written'[s][u] = columns
      /\ \A v \in Users \ {u} : row'[s][v] = row[s][v] /\ written'[s][v] = written[s][v]
  BY <1>1 DEF Flush, Loaded, IInv, TypeOK
<1> HIDE DEF u, before, after, columns
<1>6. ASSUME NEW v \in Users
      PROVE  Virtual(s, v)' = IF v = u THEN ApplyLeg(Leg1(s), V) ELSE Virtual(s, v)
  <2>1. Virtual(s, v)' = Merged(account[v], row'[s][v], written'[s][v])
    BY <1>5 DEF Virtual, Merged
  <2> QED  BY <1>4, <1>5, <2>1 DEF Virtual
<1>7. ASSUME NEW v \in Users
      PROVE  /\ v \in loaded'[s] => /\ row'[s][v].available = Virtual(s, v)'.available
                                    /\ row'[s][v].locked = Virtual(s, v)'.locked
             /\ v \notin loaded'[s] => row'[s][v] = EmptyAccount /\ written'[s][v] = {}
  <2>1. CASE v = u  BY <1>4, <1>5, <1>6, <2>1
  <2>2. CASE v # u  BY <1>5, <1>6, <2>2 DEF InStep
  <2> QED  BY <2>1, <2>2
<1>8. InStep(s)'  BY <1>7 DEF InStep
<1>9. VirtualRows(s)' = [v \in Users |-> IF v = u THEN ApplyLeg(Leg1(s), V) ELSE Virtual(s, v)]
  BY <1>6 DEF VirtualRows
<1>10. VirtualRows(s)' = [VirtualRows(s) EXCEPT ![u] = ApplyLeg(Leg1(s), @)]
  BY <1>1, <1>9 DEF VirtualRows, V
<1> QED  BY <1>8, <1>10 DEF u

-----------------------------------------------------------------------------
\* How far the call of an open session has come: nothing is applied yet, only
\* the payer of a transfer is debited, or the whole call is.
Entered(s) ==
  \E u \in Users, n \in Amounts : n > 0 /\ legs[s] \in Calls(u, n) /\ VirtualRows(s) = account
Paid(s) ==
  \E u \in Users, to \in Users, n \in Amounts :
    /\ n > 0 /\ Covers(account[u], n)
    /\ legs[s] = <<Leg("credit", to, n)>>
    /\ VirtualRows(s) = [account EXCEPT ![u] = Debited(@, n)]
Served(s) == legs[s] = <<>> /\ AtomicStep(account, VirtualRows(s))

Progress(s) == /\ InStep(s)
               /\ s \notin open => loaded[s] = {}
               /\ s \in open => Entered(s) \/ Paid(s) \/ Served(s)

Serial == \A s \in Sessions : Progress(s)

\* A session that has loaded nothing would commit nothing.
LEMMA NothingLoaded ==
  ASSUME IInv, NEW s \in Sessions, InStep(s), loaded[s] = {}
  PROVE  VirtualRows(s) = account
<1>1. \A u \in Users : Virtual(s, u) = account[u]
  BY MergedEmpty DEF InStep, Virtual, IInv, TypeOK
<1> QED  BY <1>1 DEF VirtualRows, IInv, TypeOK

LEMMA InitSerial == Init => Serial
<1> SUFFICES ASSUME Init, NEW s \in Sessions  PROVE Progress(s)  BY DEF Serial
<1>1. InStep(s)  BY DEF Init, InStep, NoRows, NoneWritten
<1> QED  BY <1>1 DEF Init, Progress

LEMMA EndSerial == ASSUME IInv, NEW s \in Sessions, End(s)  PROVE Progress(s)'
BY DEF End, Progress, InStep, NoRows, NoneWritten, IInv, TypeOK

LEMMA BeginSerial ==
  ASSUME IInv, NEW s \in Sessions, Progress(s), Begin(s)  PROVE Progress(s)'
<1>1. InStep(s) /\ loaded[s] = {}  BY DEF Begin, Progress
<1>2. InStep(s)' /\ VirtualRows(s)' = VirtualRows(s)
  BY <1>1 DEF Begin, InStep, VirtualRows, Virtual, Merged
<1>3. VirtualRows(s)' = account'  BY <1>1, <1>2, NothingLoaded DEF Begin
<1>4. PICK u \in Users, n \in Amounts :
        n > 0 /\ \E calls \in Calls(u, n) : legs' = [legs EXCEPT ![s] = calls]
  BY DEF Begin
<1>5. legs'[s] \in Calls(u, n)  BY <1>4 DEF IInv, TypeOK
<1>6. Entered(s)'  BY <1>3, <1>4, <1>5 DEF Entered, Calls
<1> QED  BY <1>2, <1>6 DEF Progress, Begin

LEMMA ReadSerial ==
  ASSUME IInv, NEW s \in Sessions, Progress(s), Read(s)  PROVE Progress(s)'
<1> DEFINE u == Target(s)
           current == LoadedRow(u)
<1>1. legs[s] \in Seq(Legs) /\ legs[s] # <<>>  BY DEF IInv, TypeOK, Read, Pending
<1>2. Leg1(s) \in Legs  BY <1>1 DEF Leg1
<1>3. u \in Users  BY <1>2 DEF Target, Legs
<1>4. row[s][u] = EmptyAccount /\ written[s][u] = {} /\ account[u] \in Account
  BY <1>3 DEF Progress, InStep, Read, Loaded, IInv, TypeOK
<1>5. Virtual(s, u) = account[u]  BY <1>4, MergedEmpty DEF Virtual
<1>6. /\ Merged(account[u], current, {}) = account[u]
      /\ current.available = account[u].available /\ current.locked = account[u].locked
  BY <1>4, AccountRecord DEF LoadedRow, Merged, Account
<1>7. /\ account' = account /\ legs' = legs /\ open' = open /\ written' = written
      /\ loaded'[s] = loaded[s] \cup {u} /\ row'[s][u] = current
      /\ \A v \in Users \ {u} : row'[s][v] = row[s][v]
  BY <1>3 DEF Read, IInv, TypeOK
<1> HIDE DEF u, current
<1>8. ASSUME NEW v \in Users
      PROVE  Virtual(s, v)' = Virtual(s, v)
  <2>1. Virtual(s, v)' = Merged(account[v], row'[s][v], written[s][v])
    BY <1>7 DEF Virtual, Merged
  <2>2. CASE v = u  BY <1>4, <1>5, <1>6, <1>7, <2>1, <2>2
  <2>3. CASE v # u  BY <1>7, <2>1, <2>3 DEF Virtual
  <2> QED  BY <2>2, <2>3
<1>9. ASSUME NEW v \in Users
      PROVE  /\ v \in loaded'[s] => /\ row'[s][v].available = Virtual(s, v)'.available
                                    /\ row'[s][v].locked = Virtual(s, v)'.locked
             /\ v \notin loaded'[s] => row'[s][v] = EmptyAccount /\ written'[s][v] = {}
  <2>1. CASE v = u  BY <1>5, <1>6, <1>7, <1>8, <2>1
  <2>2. CASE v # u  BY <1>7, <1>8, <2>2 DEF Progress, InStep
  <2> QED  BY <2>1, <2>2
<1>10. InStep(s)'  BY <1>9 DEF InStep
<1>11. VirtualRows(s)' = VirtualRows(s)  BY <1>8 DEF VirtualRows
<1>12. s \in open /\ s \in open'  BY <1>7 DEF Read, Pending
<1>13. Entered(s) => Entered(s)'  BY <1>7, <1>11 DEF Entered, Calls
<1>14. Paid(s) => Paid(s)'  BY <1>7, <1>11 DEF Paid
<1>15. ~Served(s)  BY <1>1 DEF Served
<1> QED  BY <1>10, <1>12, <1>13, <1>14, <1>15 DEF Progress

\* A call of one row update is served by its only flush.
LEMMA SingleStep ==
  ASSUME IInv, NEW u \in Users, NEW n \in Amounts, n > 0, NEW op \in Ops,
         op = "overdraft" => TRUE \in Overdrafts,
         op = "debit" => FALSE \in Overdrafts,
         op \in {"debit", "lock"} => Covers(account[u], n)
  PROVE  AtomicStep(account, [account EXCEPT ![u] = ApplyLeg(Leg(op, u, n), @)])
<1> DEFINE b == [account EXCEPT ![u] = ApplyLeg(Leg(op, u, n), @)]
<1>1. /\ op = "credit" => b = [account EXCEPT ![u] = Credited(@, n)]
      /\ op \in {"debit", "overdraft"} => b = [account EXCEPT ![u] = Debited(@, n)]
      /\ op = "lock" => b = [account EXCEPT ![u] = LockedUp(@, n)]
      /\ op = "refund" => b = [account EXCEPT ![u] = Refunded(@, n)]
  BY DEF ApplyLeg, Leg
<1> HIDE DEF b
<1>2. op = "credit" => MadeBy(account, b, u, n)  BY <1>1 DEF MadeBy
<1>3. ASSUME op \in {"debit", "overdraft"}  PROVE MadeBy(account, b, u, n)
  <2>1. b = [account EXCEPT ![u] = Debited(@, n)]  BY <1>1, <1>3
  <2>2. \E o \in Overdrafts : o \/ Covers(account[u], n)  BY <1>3
  <2>3. MadeByDebit(account, b, u, n)  BY Zenon, <2>1, <2>2 DEF MadeByDebit
  <2> QED  BY <2>3 DEF MadeBy
<1>4. op = "lock" => MadeBy(account, b, u, n)  BY <1>1 DEF MadeBy
<1>5. op = "refund" => MadeBy(account, b, u, n)  BY <1>1 DEF MadeBy
<1>6. MadeBy(account, b, u, n)  BY <1>2, <1>3, <1>4, <1>5 DEF Ops
<1> QED  BY <1>6 DEF b, AtomicStep

\* A call is one row update, or the two of a transfer.
LEMMA CallShapes ==
  ASSUME NEW u \in Users, NEW n \in Amounts, NEW calls \in Calls(u, n)
  PROVE  \/ \E op \in Ops : /\ calls = <<Leg(op, u, n)>>
                            /\ op = "overdraft" => TRUE \in Overdrafts
                            /\ op = "debit" => FALSE \in Overdrafts
         \/ \E to \in Users : calls = TransferLegs(u, to, n)
<1>1. CASE \E o \in Overdrafts : calls = <<Leg(IF o THEN "overdraft" ELSE "debit", u, n)>>
  <2>1. PICK o \in Overdrafts : calls = <<Leg(IF o THEN "overdraft" ELSE "debit", u, n)>>
    BY <1>1
  <2>2. CASE o = TRUE  BY <2>1, <2>2 DEF Ops
  <2>3. CASE o = FALSE  BY <2>1, <2>3 DEF Ops
  <2> QED  BY <2>2, <2>3, LedgerAssumption
<1> QED  BY <1>1 DEF Calls, Ops

LEMMA FlushSerial ==
  ASSUME IInv, NEW s \in Sessions, Progress(s), Flush(s)  PROVE Progress(s)'
<1>1. legs[s] # <<>> /\ s \in open /\ s \in open'  BY DEF Flush, Pending
<1>2. /\ InStep(s)' /\ account' = account /\ legs'[s] = Tail(legs[s])
      /\ VirtualRows(s)' = [VirtualRows(s) EXCEPT ![Target(s)] = ApplyLeg(Leg1(s), @)]
  BY FlushVirtual DEF Progress, Flush, IInv, TypeOK
<1>3. ASSUME Entered(s)  PROVE Paid(s)' \/ Served(s)'
  <2>1. PICK u \in Users, n \in Amounts :
          n > 0 /\ legs[s] \in Calls(u, n) /\ VirtualRows(s) = account
    BY <1>3 DEF Entered
  <2>2. ASSUME NeedsFunds(Leg1(s)), Target(s) = u, Leg1(s).amount = n
        PROVE  Covers(account[u], n)
    <3>1. row[s][u].available = Virtual(s, u).available
      BY <2>2 DEF Flush, Loaded, Progress, InStep
    <3>2. Virtual(s, u) = account[u]  BY <2>1 DEF VirtualRows, IInv, TypeOK
    <3> QED  BY <2>2, <3>1, <3>2 DEF Flush, Covered, Covers
  <2>3. ASSUME NEW op \in Ops, legs[s] = <<Leg(op, u, n)>>,
               op = "overdraft" => TRUE \in Overdrafts, op = "debit" => FALSE \in Overdrafts
        PROVE  Served(s)'
    <3>1. Leg1(s) = Leg(op, u, n) /\ Tail(legs[s]) = <<>>  BY <2>3 DEF Leg1
    <3>2. Target(s) = u /\ Leg1(s).amount = n /\ Leg1(s).op = op
      BY <3>1 DEF Target, Leg
    <3>3. op \in {"debit", "lock"} => Covers(account[u], n)
      BY <2>2, <3>2 DEF NeedsFunds
    <3>4. AtomicStep(account, [account EXCEPT ![u] = ApplyLeg(Leg(op, u, n), @)])
      BY <2>1, <2>3, <3>3, SingleStep
    <3>5. VirtualRows(s)' = [account EXCEPT ![u] = ApplyLeg(Leg(op, u, n), @)]
      BY <1>2, <2>1, <3>1, <3>2
    <3> QED  BY <1>2, <3>1, <3>4, <3>5 DEF Served
  <2>4. ASSUME NEW to \in Users, legs[s] = TransferLegs(u, to, n)
        PROVE  Paid(s)'
    <3>1. Leg1(s) = Leg("debit", u, n) /\ Tail(legs[s]) = <<Leg("credit", to, n)>>
      BY <2>4 DEF Leg1, TransferLegs
    <3>2. Target(s) = u /\ Leg1(s).amount = n /\ NeedsFunds(Leg1(s))
      BY <3>1 DEF Target, Leg, NeedsFunds
    <3>3. Covers(account[u], n)  BY <2>2, <3>2
    <3>4. \A a : ApplyLeg(Leg("debit", u, n), a) = Debited(a, n)  BY DEF ApplyLeg, Leg
    <3>5. VirtualRows(s)' = [account EXCEPT ![u] = Debited(@, n)]
      BY <1>2, <2>1, <3>1, <3>2, <3>4
    <3>6. /\ n > 0 /\ Covers(account'[u], n) /\ legs'[s] = <<Leg("credit", to, n)>>
          /\ VirtualRows(s)' = [account' EXCEPT ![u] = Debited(@, n)]
      BY <1>2, <2>1, <3>1, <3>3, <3>5
    <3> QED  BY <3>6 DEF Paid, Covers, Leg, Debited, Moved
  <2> QED  BY <2>1, <2>3, <2>4, CallShapes
<1>4. ASSUME Paid(s)  PROVE Served(s)'
  <2>1. PICK u \in Users, to \in Users, n \in Amounts :
          /\ n > 0 /\ Covers(account[u], n)
          /\ legs[s] = <<Leg("credit", to, n)>>
          /\ VirtualRows(s) = [account EXCEPT ![u] = Debited(@, n)]
    BY <1>4 DEF Paid
  <2>2. Leg1(s) = Leg("credit", to, n) /\ Tail(legs[s]) = <<>>  BY <2>1 DEF Leg1
  <2>3. Target(s) = to  BY <2>2 DEF Target, Leg
  <2>4. \A a : ApplyLeg(Leg("credit", to, n), a) = Credited(a, n)  BY DEF ApplyLeg, Leg
  <2>5. VirtualRows(s)' = [[account EXCEPT ![u] = Debited(@, n)] EXCEPT ![to] = Credited(@, n)]
    BY <1>2, <2>1, <2>2, <2>3, <2>4
  <2>6. AtomicStep(account, VirtualRows(s)')
    BY <2>1, <2>5 DEF AtomicStep, MadeBy, MadeByTransfer
  <2> QED  BY <1>2, <2>2, <2>6 DEF Served
<1>5. ~Served(s)  BY <1>1 DEF Served
<1> QED  BY <1>1, <1>2, <1>3, <1>4, <1>5 DEF Progress

LEMMA CommitSerial ==
  ASSUME IInv, NEW s \in Sessions, Progress(s), Commit(s)
  PROVE  AtomicStep(account, account') /\ Atomic!Next
<1>1. legs[s] = <<>> /\ s \in open /\ account' = VirtualRows(s)
  BY DEF Commit, VirtualRows, Virtual
<1>2. ~Entered(s)
  <2> SUFFICES ASSUME NEW u \in Users, NEW n \in Amounts, legs[s] \in Calls(u, n)
               PROVE  FALSE
    BY DEF Entered
  <2>1. CASE \E op \in Ops : legs[s] = <<Leg(op, u, n)>>
    <3>1. PICK leg : legs[s] = <<leg>>  BY <2>1
    <3> QED  BY <1>1, <3>1
  <2>2. CASE \E to \in Users : legs[s] = TransferLegs(u, to, n)
    BY <1>1, <2>2 DEF TransferLegs
  <2> QED  BY <2>1, <2>2, CallShapes
<1>3. ~Paid(s)  BY <1>1 DEF Paid
<1>4. AtomicStep(account, account')  BY <1>1, <1>2, <1>3 DEF Progress, Served
<1> QED  BY <1>4, AtomicStepIsNext

LEMMA NextSerial ==
  ASSUME NEW s, Sessions = {s}, IInv, Serial, [Next]_vars
  PROVE  Serial' /\ [Atomic!Next]_account
<1>1. s \in Sessions /\ Progress(s)  BY DEF Serial
<1>2. CASE Begin(s)
  BY <1>1, <1>2, BeginSerial DEF Begin, Serial
<1>3. CASE Read(s)  BY <1>1, <1>3, ReadSerial DEF Read, Serial
<1>4. CASE Flush(s)  BY <1>1, <1>4, FlushSerial DEF Flush, Serial
<1>5. CASE Commit(s)
  BY <1>1, <1>5, CommitSerial, EndSerial DEF Commit, Serial
<1>6. CASE Refuse(s) \/ DeadlockVictim(s) \/ Crash(s)
  BY <1>1, <1>6, EndSerial DEF Refuse, DeadlockVictim, Crash, Rollback, Serial
<1>7. CASE UNCHANGED vars
  <2>1. Progress(s)'
    <3>1. /\ account' = account /\ legs' = legs /\ open' = open /\ loaded' = loaded
          /\ row' = row /\ written' = written
      BY <1>7 DEF vars, work
    <3>2. VirtualRows(s)' = VirtualRows(s)  BY <3>1 DEF VirtualRows, Virtual, Merged
    <3>3. InStep(s)'  BY <1>1, <3>1 DEF Progress, InStep, Virtual, Merged
    <3>4. Entered(s) => Entered(s)'  BY <3>1, <3>2 DEF Entered, Calls
    <3>5. Paid(s) => Paid(s)'  BY <3>1, <3>2 DEF Paid, Covers, Debited, Moved, Leg
    <3>6. Served(s) => Served(s)'  BY <3>1, <3>2 DEF Served
    <3> QED  BY <1>1, <3>1, <3>3, <3>4, <3>5, <3>6 DEF Progress
  <2> QED  BY <1>7, <2>1 DEF vars, Serial
<1> QED  BY <1>2, <1>3, <1>4, <1>5, <1>6, <1>7 DEF Next, Step

\* Run one session at a time, and LedgerService is the atomic ledger of Ledger:
\* every commit is one of its steps, every other step leaves the rows alone.
THEOREM SerialImplementsLedger ==
  ASSUME NEW s, Sessions = {s}  PROVE Spec => LedgerSpec
<1>1. Init => Atomic!Init
  BY DEF Init, NoRows, EmptyAccount, Atomic!Init, Atomic!EmptyAccount
<1>2. IInv /\ Serial /\ [Next]_vars => Serial' /\ [Atomic!Next]_account
  BY NextSerial
<1> QED
  BY <1>1, <1>2, Invariance, InitSerial, PTL DEF Spec, LedgerSpec, Atomic!Spec

-----------------------------------------------------------------------------
(* With one session at a time balances are the sums of their entries.      *)

\* Every update of a row posts what it changes of the available balance.
LEMMA UpdatesBacked ==
  ASSUME NEW a \in Account, a.locked >= 0, NEW n \in Nat
  PROVE  /\ Credited(a, n) \in Account /\ Backed(a, Credited(a, n))
         /\ Debited(a, n) \in Account /\ Backed(a, Debited(a, n))
         /\ LockedUp(a, n) \in Account /\ Backed(a, LockedUp(a, n))
         /\ Refunded(a, n) \in Account /\ Backed(a, Refunded(a, n))
<1> DEFINE m == -n
           r == RefundAmount(a, n)
           q == -r
<1>1. a.locked \in Int  BY DEF Account
<1>2. m \in Int /\ r \in Nat /\ q \in Int  BY <1>1 DEF RefundAmount
<1>3. m = 0 - n  OBVIOUS
<1>4. /\ Credited(a, n) = Moved(a, n, 0, n, 0)
      /\ Debited(a, n) = Moved(a, m, 0, 0, n)
      /\ LockedUp(a, n) = Moved(a, m, n, 0, n)
      /\ Refunded(a, n) = Moved(a, r, q, r, 0)
  BY DEF Credited, Debited, LockedUp, Refunded
<1> HIDE DEF m, r, q
<1>5. Credited(a, n) \in Account /\ Backed(a, Credited(a, n))  BY <1>2, <1>4, MovedFacts
<1>6. Debited(a, n) \in Account /\ Backed(a, Debited(a, n))
  BY <1>2, <1>3, <1>4, MovedFacts
<1>7. LockedUp(a, n) \in Account /\ Backed(a, LockedUp(a, n))
  BY <1>2, <1>3, <1>4, MovedFacts
<1>8. Refunded(a, n) \in Account /\ Backed(a, Refunded(a, n))  BY <1>2, <1>4, MovedFacts
<1> QED  BY <1>5, <1>6, <1>7, <1>8

LEMMA BackedDerivable ==
  ASSUME NEW a \in Account, NEW b \in Account, DerivableAccount(a), Backed(a, b)
  PROVE  DerivableAccount(b)
BY DEF DerivableAccount, Backed, Account

\* A step of the atomic ledger keeps every balance the sum of its entries.
LEMMA AtomicStepDerivable ==
  ASSUME IInv, Derivable, AtomicStep(account, account')  PROVE Derivable'
<1>1. PICK u \in Users, n \in Amounts : n > 0 /\ MadeBy(account, account', u, n)
  BY DEF AtomicStep
<1>2. n \in Nat  BY <1>1, LedgerAssumption
<1>3. ASSUME NEW x \in Users
      PROVE  /\ account[x] \in Account /\ account[x].locked >= 0
             /\ DerivableAccount(account[x])
  BY DEF IInv, TypeOK, Sound, Derivable
<1>4. account \in [Users -> Account]  BY DEF IInv, TypeOK
<1>5. ASSUME NEW b \in Account, Backed(account[u], b), account' = [account EXCEPT ![u] = b]
      PROVE  Derivable'
  <2>1. DerivableAccount(b)  BY <1>3, <1>5, BackedDerivable
  <2> QED  BY <1>3, <1>4, <1>5, <2>1 DEF Derivable
<1>6. CASE account' = [account EXCEPT ![u] = Credited(@, n)]
  BY <1>2, <1>3, <1>5, <1>6, UpdatesBacked
<1>7. CASE MadeByDebit(account, account', u, n)
  BY <1>2, <1>3, <1>5, <1>7, UpdatesBacked DEF MadeByDebit
<1>8. CASE MadeByTransfer(account, account', u, n)
  <2>1. PICK to \in Users :
          account' = [[account EXCEPT ![u] = Debited(@, n)] EXCEPT ![to] = Credited(@, n)]
    BY <1>8 DEF MadeByTransfer
  <2> DEFINE paid == [account EXCEPT ![u] = Debited(@, n)]
  <2>2. /\ Debited(account[u], n) \in Account
        /\ DerivableAccount(Debited(account[u], n))
        /\ Debited(account[u], n).locked >= 0
    <3>1. /\ Debited(account[u], n) \in Account
          /\ Backed(account[u], Debited(account[u], n))
      BY <1>2, <1>3, UpdatesBacked
    <3>2. Debited(account[u], n).locked = account[u].locked + 0  BY DEF Debited, Moved
    <3>3. account[u].locked \in Int  BY <1>3 DEF Account
    <3> QED  BY <1>3, <3>1, <3>2, <3>3, BackedDerivable
  <2>3. /\ paid \in [Users -> Account]
        /\ \A x \in Users : DerivableAccount(paid[x]) /\ paid[x].locked >= 0
    BY <1>3, <1>4, <2>2
  <2> HIDE DEF paid
  <2>4. /\ Credited(paid[to], n) \in Account
        /\ DerivableAccount(Credited(paid[to], n))
    <3>1. paid[to] \in Account /\ paid[to].locked >= 0 /\ DerivableAccount(paid[to])
      BY <2>3
    <3> QED  BY <1>2, <3>1, UpdatesBacked, BackedDerivable
  <2>5. account' = [paid EXCEPT ![to] = Credited(paid[to], n)]  BY <2>1 DEF paid
  <2> QED  BY <2>3, <2>4, <2>5 DEF Derivable
<1>9. CASE account' = [account EXCEPT ![u] = LockedUp(@, n)]
  BY <1>2, <1>3, <1>5, <1>9, UpdatesBacked
<1>10. CASE account' = [account EXCEPT ![u] = Refunded(@, n)]
  BY <1>2, <1>3, <1>5, <1>10, UpdatesBacked
<1> QED  BY <1>1, <1>6, <1>7, <1>8, <1>9, <1>10 DEF MadeBy

\* One session at a time, every balance can be re-derived from its entries.
THEOREM SerialDerivable ==
  ASSUME NEW s, Sessions = {s}  PROVE Spec => []Derivable
<1>1. Init => Derivable
  <2> SUFFICES ASSUME Init, NEW u \in Users  PROVE DerivableAccount(account[u])
    BY DEF Derivable
  <2>1. account[u] = EmptyAccount  BY DEF Init, NoRows
  <2> QED  BY <2>1 DEF EmptyAccount, DerivableAccount
<1>2. IInv /\ Serial /\ Derivable /\ [Next]_vars => Derivable'
  <2> SUFFICES ASSUME IInv, Serial, Derivable, [Next]_vars  PROVE Derivable'  OBVIOUS
  <2>1. s \in Sessions /\ Progress(s)  BY DEF Serial
  <2>2. CASE Commit(s)  BY <2>1, <2>2, CommitSerial, AtomicStepDerivable
  <2>3. CASE account' = account  BY <2>3 DEF Derivable
  <2> QED
    BY <2>2, <2>3
       DEF Next, Begin, Flush, Step, Read, Refuse, DeadlockVictim, Crash, Rollback, vars
<1>3. IInv /\ Serial /\ [Next]_vars => Serial'  BY NextSerial
<1> QED  BY <1>1, <1>2, <1>3, Invariance, InitSerial, PTL DEF Spec

\* So the integrity check, which adds what is locked to the balance, fails for a
\* user exactly when something is locked.
THEOREM SerialIntegrityIffUnlocked ==
  ASSUME NEW s, Sessions = {s}  PROVE Spec => []IntegrityIffUnlocked
<1>1. IInv /\ Derivable => IntegrityIffUnlocked
  <2> SUFFICES ASSUME IInv, Derivable, NEW u \in Users
               PROVE  VerifyBalanceIntegrity(account[u]) <=> account[u].locked = 0
    BY DEF IntegrityIffUnlocked
  <2>1. account[u] \in Account /\ DerivableAccount(account[u])
    BY DEF IInv, TypeOK, Derivable
  <2> QED  BY <2>1 DEF DerivableAccount, VerifyBalanceIntegrity, Account
<1> QED  BY <1>1, Invariance, SerialDerivable, PTL
=============================================================================
