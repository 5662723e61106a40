---------------------------- MODULE OperatorTasks ----------------------------
(***************************************************************************)
(* OfflineTokens with the two tasks that are registered but that neither   *)
(* celery beat nor any code starts: an operator does.                      *)
(***************************************************************************)
EXTENDS OfflineTokens

\* refund_specific_token skips a token that is expired, not one that is revoked.
RefundSpecificToken(t) ==
  /\ Idle /\ status[t] \notin {"none", "expired"}
  /\ RefundUnused(t)
  /\ status' = [status EXCEPT ![t] = "expired"]
  /\ UNCHANGED <<amount, used, cutoff, expires, now, expiring>>

\* The expire_tokens of the reconciliation worker: one UPDATE, no refund.
Lapsed(t) == status[t] = "active" /\ expires[t] < now

ExpireWithoutRefund ==
  /\ Idle /\ \E t \in Tokens : Lapsed(t)
  /\ status' = [t \in Tokens |-> IF Lapsed(t) THEN "expired" ELSE status[t]]
  /\ UNCHANGED <<account, amount, used, cutoff, expires, refunded, now, expiring>>

OperatedNext == \/ Next
                \/ \E t \in Tokens : RefundSpecificToken(t)
                \/ ExpireWithoutRefund

OperatedSpec == Init /\ [][OperatedNext]_vars
=============================================================================
