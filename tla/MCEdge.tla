------------------------------- MODULE MCEdge -------------------------------
(***************************************************************************)
(* What surrounds the payments: Authentication, Webhooks, Wallet,          *)
(* RedisKeys and TokenClosing.  They share at most the order in which      *)
(* events arrived, so the behaviours of each are explored with the others  *)
(* at rest.                                                                *)
(***************************************************************************)
EXTENDS Authentication, Webhooks, Wallet, RedisKeys, TokenClosing, TLC

CONSTANTS e1, e2, a1, a2, p1, t1, t2, t3

ThePayees == a1 :> p1 @@ a2 :> p1
TheExpected == a1 :> 0 @@ a2 :> 1
TheDeposits == e1 :> a1 @@ e2 :> a2
TheReceived == e1 :> 1 @@ e2 :> 2
TheAmounts == t1 :> 1 @@ t2 :> 2 @@ t3 :> 1
TheUsed == t1 :> 0 @@ t2 :> 1 @@ t3 :> -1

VARIABLE explored \* the component

edgeVars == <<authVars, hookVars, store, work, keyVars, closingVars, explored>>

Init == /\ explored \in {"authentication", "webhooks", "wallet", "keys", "closing"}
        /\ AuthInit /\ WebhooksInit /\ WalletInit /\ KeysInit /\ ClosingInit

Authenticating ==
  /\ explored = "authentication" /\ AuthNext
  /\ UNCHANGED <<hookVars, store, work, keyVars, closingVars, explored>>

Receiving ==
  /\ explored = "webhooks" /\ WebhooksNext
  /\ UNCHANGED <<authVars, store, work, keyVars, closingVars, explored>>

Funding ==
  /\ explored = "wallet" /\ WalletNext
  /\ UNCHANGED <<authVars, acked, dropped, misread, hookAt, hookFor, keyVars, closingVars,
                 explored>>

Expiring ==
  /\ explored = "keys" /\ KeysNext
  /\ UNCHANGED <<authVars, hookVars, store, work, closingVars, explored>>

Closing ==
  /\ explored = "closing" /\ ClosingNext
  /\ UNCHANGED <<authVars, hookVars, store, work, keyVars, explored>>

Next == Authenticating \/ Receiving \/ Funding \/ Expiring \/ Closing

Spec == Init /\ [][Next]_edgeVars

\* The type invariants of all five components.
EdgeTypeOK ==
  AuthTypeOK /\ WebhooksTypeOK /\ WalletTypeOK /\ KeysTypeOK /\ ClosingTypeOK
=============================================================================
