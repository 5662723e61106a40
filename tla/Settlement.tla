----------------------------- MODULE Settlement -----------------------------
(***************************************************************************)
(* The settlement of one verified transaction by concurrent calls of       *)
(* process_settlement, each a database session under READ COMMITTED, with  *)
(* Nomba's transfer API and its webhooks.  "settling" and "processing" are *)
(* only ever written inside a session that overwrites them before it       *)
(* commits, so they are places of that session and not committed values.   *)
(*                                                                         *)
(* merchantTxRef is the transaction's id, so Nomba keeps one transfer for  *)
(* the transaction and answers a repeated request with it or an error.     *)
(***************************************************************************)
EXTENDS Naturals, Sequences

CONSTANTS Sessions,    \* concurrent calls, in API and worker processes
          HashSeed,    \* the hash seed of a session's process, on which hash(tx_id) depends
          MaxAttempts  \* get_pending_retry(max_attempts)

ASSUME SettlementAssumption ==
  MaxAttempts \in Nat

VARIABLES
  status,    \* committed transactions.status
  rows,      \* committed settlements of the transaction, in the order of their commits
  transfer,  \* Nomba's side
  pc,        \* how far each session has come
  swallows,  \* whether the session's task catches the exception and commits
  attempts   \* what the session will write in settlements.attempts

session == <<pc, swallows, attempts>>
vars == <<status, rows, transfer, session>>

Rows == [status : {"completed", "failed"}, attempts : Nat, transfer : BOOLEAN]
Places == {"idle", "begun", "checked", "unsettled", "locked", "settling", "answered", "failed"}

TypeOK == /\ status \in {"verified", "settled", "settlement_failed"}
          /\ rows \in Seq(Rows)
          /\ transfer \in {"none", "pending", "paid", "failed"}
          /\ pc \in [Sessions -> Places]
          /\ swallows \in [Sessions -> BOOLEAN]
          /\ attempts \in [Sessions -> Nat]

Init == /\ status = "verified"
        /\ rows = <<>>
        /\ transfer = "none"
        /\ pc = [s \in Sessions |-> "idle"]
        /\ swallows = [s \in Sessions |-> FALSE]
        /\ attempts = [s \in Sessions |-> 0]

-----------------------------------------------------------------------------
Begin(s, b) ==
  /\ pc[s] = "idle"
  /\ pc' = [pc EXCEPT ![s] = "begun"]
  /\ swallows' = [swallows EXCEPT ![s] = b]
  /\ UNCHANGED <<status, rows, transfer, attempts>>

\* The API route and the celery task roll back when the service raises.
ProcessSettlement(s) == Begin(s, FALSE)

\* The batch task catches the exception and commits what the session holds.
ProcessBatchSettlements(s) == Begin(s, TRUE)

RetryDue ==
  \E i \in 1..Len(rows) : rows[i].status = "failed" /\ rows[i].attempts < MaxAttempts

\* So does the scheduled task, which starts from the failed rows.
RetryFailedSettlements(s) == RetryDue /\ Begin(s, TRUE)

Goto(s, place) == pc' = [pc EXCEPT ![s] = place]

\* The session ends; its locks are released.
End(s) == /\ Goto(s, "idle")
          /\ swallows' = [swallows EXCEPT ![s] = FALSE]
          /\ attempts' = [attempts EXCEPT ![s] = 0]

\* It ends without having changed anything.
Rollback(s) == End(s) /\ UNCHANGED <<status, rows, transfer>>

\* The status the session loads is not read again.
MayProceed == status = "verified"

CheckStatus(s) ==
  /\ pc[s] = "begun"
  /\ MayProceed
  /\ Goto(s, "checked")
  /\ UNCHANGED <<status, rows, transfer, swallows, attempts>>

RefuseStatus(s) == pc[s] = "begun" /\ ~MayProceed /\ Rollback(s)

\* get_by_tx_id: nothing, or the only row; with several rows it raises.
CheckExisting(s) ==
  /\ pc[s] = "checked"
  /\ \/ rows = <<>> /\ attempts' = [attempts EXCEPT ![s] = 1]
     \/ /\ Len(rows) = 1 /\ rows[1].status # "completed"
        /\ attempts' = [attempts EXCEPT ![s] = rows[1].attempts + 1]
  /\ Goto(s, "unsettled")
  /\ UNCHANGED <<status, rows, transfer, swallows>>

ReturnExisting(s) ==
  /\ pc[s] = "checked"
  /\ Len(rows) > 1 \/ (Len(rows) = 1 /\ rows[1].status = "completed")
  /\ Rollback(s)

\* pg_try_advisory_xact_lock of abs(hash(tx_id)): a key per hash seed.
LockHeld(s) ==
  \E t \in Sessions \ {s} :
    HashSeed[t] = HashSeed[s] /\ pc[t] \in {"locked", "settling", "answered", "failed"}

AcquireAdvisoryLock(s) ==
  /\ pc[s] = "unsettled" /\ ~LockHeld(s)
  /\ Goto(s, "locked")
  /\ UNCHANGED <<status, rows, transfer, swallows, attempts>>

RefuseLock(s) == pc[s] = "unsettled" /\ LockHeld(s) /\ Rollback(s)

\* The session's UPDATE of the transaction locks its row until it ends.
Updating(s) == pc[s] \in {"settling", "answered", "failed"}

\* As if the checks had locked the row FOR SHARE, which the UPDATE then upgrades.
MutantRowFree(s) ==
  \A t \in Sessions \ {s} : pc[t] \in {"idle", "begun"}
RowFree(s) == \A t \in Sessions \ {s} : ~Updating(t)

\* The settlement row is inserted, the UPDATE to "settling" waits for the row.
MarkSettling(s) ==
  /\ pc[s] = "locked" /\ RowFree(s)
  /\ Goto(s, "settling")
  /\ UNCHANGED <<status, rows, transfer, swallows, attempts>>

\* A request that reaches Nomba starts the transfer or finds the earlier one.
Accepted == IF transfer = "none" THEN "pending" ELSE transfer

\* Nomba answers with the transfer's id; the status in its answer is ignored.
TransferAnswered(s) ==
  /\ pc[s] = "settling"
  /\ transfer' = Accepted
  /\ Goto(s, "answered")
  /\ UNCHANGED <<status, rows, swallows, attempts>>

\* The request is refused, never sent, or its answer is lost.
MutantAfterFailure == "answered"
AfterFailure == "failed"

TransferFails(s) ==
  /\ pc[s] = "settling"
  /\ transfer' \in {transfer, Accepted}
  /\ Goto(s, AfterFailure)
  /\ UNCHANGED <<status, rows, swallows, attempts>>

\* The unique column nomba_transfer_id.
MutantTransferIsNew == TRUE
TransferIsNew == \A i \in 1..Len(rows) : ~rows[i].transfer

NewRow(s, result) ==
  [status |-> result, attempts |-> attempts[s], transfer |-> result = "completed"]

\* mark_completed, mark_settled, commit.
Complete(s) ==
  /\ pc[s] = "answered" /\ TransferIsNew
  /\ rows' = Append(rows, NewRow(s, "completed"))
  /\ status' = "settled"
  /\ End(s)
  /\ UNCHANGED transfer

\* The UPDATE violates the constraint, after which only a rollback is possible.
Conflict(s) == pc[s] = "answered" /\ ~TransferIsNew /\ Rollback(s)

\* mark_failed and update_status count only where the exception is caught.
MutantKeepsFailure(s) == TRUE
KeepsFailure(s) == swallows[s]

RecordFailure(s) ==
  /\ pc[s] = "failed" /\ KeepsFailure(s)
  /\ rows' = Append(rows, NewRow(s, "failed"))
  /\ status' = "settlement_failed"
  /\ End(s)
  /\ UNCHANGED transfer

ForgetFailure(s) == pc[s] = "failed" /\ ~KeepsFailure(s) /\ Rollback(s)

\* The process dies, the task runs into its time limit, or another transaction
\* of the same batch has aborted the session.
Crash(s) == pc[s] # "idle" /\ Rollback(s)

-----------------------------------------------------------------------------
\* Nomba executes the transfer.
TransferEnds ==
  /\ transfer = "pending"
  /\ transfer' \in {"paid", "failed"}
  /\ UNCHANGED <<status, rows, session>>

\* The handlers update the transaction, which waits for its row, and then its
\* settlement if there is one; with several, get_by_tx_id raises and all of it is
\* rolled back.  Nomba repeats a webhook, so they run any number of times.
Marked(result) ==
  IF rows = <<>> THEN rows
  ELSE <<[status |-> result, attempts |-> rows[1].attempts,
          transfer |-> rows[1].transfer \/ result = "completed"]>>

MutantForgottenRow == rows
MutantVocabulary == Marked("settlement_failed")
FailedRow == Marked("failed")

ProcessTransferSuccessWebhook ==
  /\ transfer = "paid"
  /\ \A s \in Sessions : ~Updating(s)
  /\ Len(rows) <= 1
  /\ status' = "settled"
  /\ rows' = Marked("completed")
  /\ UNCHANGED <<transfer, session>>

ProcessTransferFailedWebhook ==
  /\ transfer = "failed"
  /\ \A s \in Sessions : ~Updating(s)
  /\ Len(rows) <= 1
  /\ status' = "settlement_failed"
  /\ rows' = FailedRow
  /\ UNCHANGED <<transfer, session>>

-----------------------------------------------------------------------------
Step(s) ==
  \/ CheckStatus(s) \/ RefuseStatus(s)
  \/ CheckExisting(s) \/ ReturnExisting(s)
  \/ AcquireAdvisoryLock(s) \/ RefuseLock(s)
  \/ TransferAnswered(s) \/ TransferFails(s)
  \/ Complete(s) \/ Conflict(s)
  \/ RecordFailure(s) \/ ForgetFailure(s)

Next ==
  \/ \E s \in Sessions :
       \/ ProcessSettlement(s) \/ ProcessBatchSettlements(s) \/ RetryFailedSettlements(s)
       \/ Step(s) \/ MarkSettling(s) \/ Crash(s)
  \/ TransferEnds
  \/ ProcessTransferSuccessWebhook \/ ProcessTransferFailedWebhook

\* A session goes on (requests to Nomba have timeouts), the queue of the row lock
\* is served in order, and beat starts the retry task every 5 minutes.
Fairness ==
  /\ \A s \in Sessions : WF_vars(Step(s)) /\ SF_vars(MarkSettling(s))
  /\ SF_vars(\E s \in Sessions : RetryFailedSettlements(s))

Spec == Init /\ [][Next]_vars /\ Fairness

-----------------------------------------------------------------------------
\* Only one settlement ever records the transfer, although the advisory lock is
\* taken after the checks and not shared by all processes, so that several
\* sessions may hold themselves to be the one that settles.
RecordedOnce ==
  \A i, j \in 1..Len(rows) : rows[i].transfer /\ rows[j].transfer => i = j

\* The transaction's status is what its latest settlement says, in whatever order
\* sessions and webhooks commit; in particular a transaction with a settlement is
\* never "verified", the only status process_settlement goes on from.
LatestRowDecides ==
  LET n == Len(rows)
  IN  n > 0 => status = IF rows[n].status = "completed" THEN "settled" ELSE "settlement_failed"

\* Nothing is called settled before Nomba has accepted the transfer, not even by
\* a session whose request failed or was repeated.
SettledWasAccepted ==
  (status = "settled" \/ \E i \in 1..Len(rows) : rows[i].transfer) => transfer # "none"

\* A settled transaction whose transfer has not failed is taken back only by a
\* task that keeps its failure, having found the transaction verified before it
\* was settled: the checks are not repeated under the lock.
OnlyStaleFailuresUnsettle ==
  [][status = "settled" /\ status' # "settled"
       => transfer = "failed" \/ \E s \in Sessions : pc[s] = "failed" /\ swallows[s]]_vars

\* Every call ends: it waits for the row lock only, and whoever holds that lock
\* waits for nothing but Nomba.
CallsEnd == \A s \in Sessions : pc[s] # "idle" ~> pc[s] = "idle"

\* "Failed settlements retry automatically": one that has attempts left is settled
\* or gets as far as another attempt.
FailedRetried ==
  RetryDue ~> (status = "settled" \/ \E s \in Sessions : pc[s] = "settling")
=============================================================================
