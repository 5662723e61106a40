------------------------------- MODULE MCTrust -------------------------------
(***************************************************************************)
(* What stands before a user is given an offline token: the components     *)
(* IdentityVerification and DeviceTrust.  They share no state, so the      *)
(* behaviours of each are explored with the other at rest.                 *)
(***************************************************************************)
EXTENDS IdentityVerification, DeviceTrust

VARIABLE gate \* the component explored

gateVars == <<identityVars, trustVars, gate>>

TheDays == [d \in Devices |-> 31]
TheFindings == {{"double_spend_attempt"}}

Init == gate \in {"identity", "trust"} /\ IdentityInit /\ TrustInit

Identifying == gate = "identity" /\ IdentityNext /\ UNCHANGED <<trustVars, gate>>
Trusting == gate = "trust" /\ TrustNext /\ UNCHANGED <<identityVars, gate>>

Next == Identifying \/ Trusting

Spec == Init /\ [][Next]_gateVars /\ (gate = "trust" => TrustFairness)

\* The type invariants of both components.
GateTypeOK == IdentityTypeOK /\ TrustTypeOK
==============================================================================
