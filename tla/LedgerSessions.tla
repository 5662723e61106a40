--------------------------- MODULE LedgerSessions ---------------------------
(***************************************************************************)
(* LedgerService as it runs: each call belongs to a database session under *)
(* READ COMMITTED.  A session loads a balance row once (the identity map   *)
(* keeps the object), changes the object in memory, and flushes absolute   *)
(* column values with an UPDATE that takes the row lock until the session  *)
(* ends.  No SELECT ... FOR UPDATE is issued.                              *)
(***************************************************************************)
EXTENDS LedgerRows

CONSTANTS Sessions,   \* concurrent database sessions
          MaxPosted   \* bound: no call begins on an account with this much posted

ASSUME SessionsAssumption == MaxPosted \in Nat

VARIABLES
  account,  \* committed rows and entry sums
  legs,     \* row updates each session's call still has to make
  open,     \* sessions whose unit of work has begun and not ended
  loaded,   \* users whose row each session has loaded
  seen,     \* the row as the session loaded it
  row,      \* the in-memory object; its credits and debits are the entries added
  written   \* columns the session's UPDATEs set; a row with any is locked by it

work == <<legs, open, loaded, seen, row, written>>
vars == <<account, work>>

Columns == {"available", "locked", "updated_at"}

TypeOK == /\ account \in [Users -> Account]
          /\ legs \in [Sessions -> Seq(Legs)]
          /\ open \in SUBSET Sessions
          /\ loaded \in [Sessions -> SUBSET Users]
          /\ seen \in [Sessions -> [Users -> Account]]
          /\ row \in [Sessions -> [Users -> Account]]
          /\ written \in [Sessions -> [Users -> SUBSET Columns]]

NoRows == [u \in Users |-> EmptyAccount]
NoneWritten == [u \in Users |-> {}]

Init == /\ account = NoRows
        /\ legs = [s \in Sessions |-> <<>>]
        /\ open = {}
        /\ loaded = [s \in Sessions |-> {}]
        /\ seen = [s \in Sessions |-> NoRows]
        /\ row = [s \in Sessions |-> NoRows]
        /\ written = [s \in Sessions |-> NoneWritten]

\* The calls a session can make, as the row updates they consist of.
Calls(u, n) ==
  {<<Leg("credit", u, n)>>, <<Leg("lock", u, n)>>, <<Leg("refund", u, n)>>}
    \cup {<<Leg(IF o THEN "overdraft" ELSE "debit", u, n)>> : o \in Overdrafts}
    \cup {TransferLegs(u, to, n) : to \in Users}

-----------------------------------------------------------------------------
Pending(s) == s \in open /\ legs[s] # <<>>
Leg1(s) == Head(legs[s])
Target(s) == Leg1(s).user
Loaded(s) == Target(s) \in loaded[s]
Covered(s) == NeedsFunds(Leg1(s)) => Covers(row[s][Target(s)], Leg1(s).amount)

Holds(s, u) == written[s][u] # {}
LockFree(s, u) == \A t \in Sessions \ {s} : ~Holds(t, u)

\* A call with a positive amount enters its session.
Begin(s) ==
  /\ s \notin open
  /\ \E u \in Users, n \in Amounts :
       /\ n > 0
       /\ account[u].credits + account[u].debits < MaxPosted
       /\ \E calls \in Calls(u, n) : legs' = [legs EXCEPT ![s] = calls]
  /\ open' = open \cup {s}
  /\ UNCHANGED <<account, loaded, seen, row, written>>

\* get_or_create_balance: the first SELECT loads the committed row.
LoadedRow(u) == [available |-> account[u].available, locked |-> account[u].locked,
                 credits |-> 0, debits |-> 0]

Read(s) ==
  /\ Pending(s) /\ ~Loaded(s)
  /\ loaded' = [loaded EXCEPT ![s] = @ \cup {Target(s)}]
  /\ seen' = [seen EXCEPT ![s][Target(s)] = LoadedRow(Target(s))]
  /\ row' = [row EXCEPT ![s][Target(s)] = LoadedRow(Target(s))]
  /\ UNCHANGED <<account, legs, open, written>>

\* Only changed columns are part of the UPDATE; updated_at always is.
WrittenColumns(before, after) ==
  {"updated_at"} \cup (IF after.available # before.available THEN {"available"} ELSE {})
                 \cup (IF after.locked # before.locked THEN {"locked"} ELSE {})

\* The check, the in-memory change and the flush, which waits for the row lock.
Flush(s) ==
  LET u == Target(s)
      after == ApplyLeg(Leg1(s), row[s][u])
  IN  /\ Pending(s) /\ Loaded(s) /\ Covered(s) /\ LockFree(s, u)
      /\ row' = [row EXCEPT ![s][u] = after]
      /\ written' = [written EXCEPT ![s][u] = @ \cup WrittenColumns(row[s][u], after)]
      /\ legs' = [legs EXCEPT ![s] = Tail(@)]
      /\ UNCHANGED <<account, open, loaded, seen>>

\* The session is closed and its objects are dropped.
End(s) == /\ legs' = [legs EXCEPT ![s] = <<>>]
          /\ open' = open \ {s}
          /\ loaded' = [loaded EXCEPT ![s] = {}]
          /\ seen' = [seen EXCEPT ![s] = NoRows]
          /\ row' = [row EXCEPT ![s] = NoRows]
          /\ written' = [written EXCEPT ![s] = NoneWritten]

Rollback(s) == End(s) /\ UNCHANGED account

\* InsufficientFundsError leaves the service and get_session rolls back.
MutantRefuse(s) == Pending(s) /\ Loaded(s) /\ ~Covered(s) /\ UNCHANGED vars
Refuse(s) == Pending(s) /\ Loaded(s) /\ ~Covered(s) /\ Rollback(s)

\* The UPDATEs write absolute values, the INSERTed entries add up.
MutantMerged(a, r, columns) ==
  [a EXCEPT !.available = r.available, !.locked = r.locked]
Merged(a, r, columns) ==
  [available |-> IF "available" \in columns THEN r.available ELSE a.available,
   locked    |-> IF "locked" \in columns THEN r.locked ELSE a.locked,
   credits   |-> a.credits + r.credits,
   debits    |-> a.debits + r.debits]

Commit(s) ==
  /\ s \in open /\ legs[s] = <<>>
  /\ account' = [u \in Users |-> Merged(account[u], row[s][u], written[s][u])]
  /\ End(s)

\* The process dies or the database drops the connection.
Crash(s) == s \in open /\ Rollback(s)

WaitsFor(s, t) ==
  s # t /\ Pending(s) /\ Loaded(s) /\ Covered(s) /\ Holds(t, Target(s))

\* Postgres aborts a member of a cycle of waiting transactions.
DeadlockVictim(s) ==
  /\ \E S \in SUBSET Sessions :
       /\ s \in S
       /\ \A t \in S : (\E r \in S : WaitsFor(t, r)) /\ (\E r \in S : WaitsFor(r, t))
  /\ Rollback(s)

Step(s) == Read(s) \/ Refuse(s) \/ Commit(s) \/ DeadlockVictim(s)

Next == \E s \in Sessions : Begin(s) \/ Flush(s) \/ Step(s) \/ Crash(s)

\* A session that can go on does, and the lock queue of a row is served in order.
Fairness == \A s \in Sessions : WF_vars(Step(s)) /\ SF_vars(Flush(s))

Spec == Init /\ [][Next]_vars /\ Fairness

-----------------------------------------------------------------------------
\* See Ledger: the same statement, of the committed rows.
Derivable == \A u \in Users : DerivableAccount(account[u])

\* "Verify that balance matches sum of entries": verify_balance_integrity, the
\* reconciliation safety net, finds every committed row in order.
BalanceMatchesEntries == \A u \in Users : VerifyBalanceIntegrity(account[u])

\* It does so exactly while none of the user's money is locked in a token: a lock
\* posts a debit entry for money that the row still counts, until the refund.
IntegrityIffUnlocked ==
  \A u \in Users :
    VerifyBalanceIntegrity(account[u]) <=> account[u].locked = 0

\* However sessions overlap, no committed balance is negative: every session
\* commits values it computed from a row it had checked, even when stale.
NonNegative ==
  \A u \in Users :
    /\ account[u].locked >= 0
    /\ NoOverdrafts => account[u].available >= 0

\* How far the available balance is from the sum of the entries.
Drift(u) == account[u].available - (account[u].credits - account[u].debits)

\* s has updated u's row on the strength of a row that has changed since.
StaleWrite(s, u) ==
  Holds(s, u) /\ seen[s][u].available # account[u].available

\* A balance comes apart from its entries only when a session commits over a row
\* another session changed after it was read (the lost update): no other step,
\* crash, refusal or deadlock abort can.
OnlyStaleWritesDrift ==
  [][\A u \in Users : Drift(u)' # Drift(u) => \E s \in Sessions : StaleWrite(s, u)]_vars

\* Every call ends, whatever it has to wait for: also two transfers that lock
\* their payer's row and then want each other's.
CallsEnd == \A s \in Sessions : s \in open ~> s \notin open

\* A single session at a time is the atomic ledger.
Atomic == INSTANCE Ledger WITH account <- account
LedgerSpec == Atomic!Spec
=============================================================================
