------------------------------ MODULE MCNomba ------------------------------
(***************************************************************************)
(* What is asked of Nomba: Settlement, with two sessions whose processes   *)
(* share a hash seed and one of another host, and the client it is asked   *)
(* through, CircuitBreaker, with its default settings but a failure        *)
(* threshold of 3 for 5, and a unit of time of 15 seconds.  To a           *)
(* settlement a refused request is one that failed, which may happen to it *)
(* at any time, so each is explored with the other at rest.                *)
(***************************************************************************)
EXTENDS Settlement, CircuitBreaker, TLC

CONSTANTS a1, a2, b1,       \* sessions
          payout, listing   \* an idempotent request of the client and another

MCHashSeed == a1 :> 1 @@ a2 :> 1 @@ b1 :> 2

VARIABLE explored \* the component

nombaVars == <<vars, breakerVars, explored>>

NombaInit == explored \in {"settlement", "client"} /\ Init /\ BreakerInit

Settling == explored = "settlement" /\ Next /\ UNCHANGED <<breakerVars, explored>>
Requesting == explored = "client" /\ BreakerNext /\ UNCHANGED <<vars, explored>>

NombaNext == Settling \/ Requesting

\* At rest, nothing of Settlement's Fairness or the client's Progress is due.
NombaSpec ==
  /\ NombaInit /\ [][NombaNext]_nombaVars
  /\ Fairness /\ Progress
  /\ \A r \in Requests : WF_nombaVars(Requesting /\ Call(r))

\* The type invariants of both components.
NombaTypeOK == TypeOK /\ BreakerTypeOK
=============================================================================
