--------------------------- MODULE MCOfflineTokens ---------------------------
(* Values for the constants of OfflineTokens.  A unit of time is 24 hours    *)
(* and a unit of money the limit of a software-only device.                  *)
EXTENDS OfflineTokens, TLC

CONSTANTS u1, u2, t1, t2, t3

MCOwner == t1 :> u1 @@ t2 :> u1 @@ t3 :> u2

\* Hardware-backed devices get 72 hours, software-only devices 24.
MCLimits == [hardware_pass |-> [max_token |-> 2, ttl |-> 3],
             software_pass |-> [max_token |-> 1, ttl |-> 1],
             blocked       |-> [max_token |-> 0, ttl |-> 0]]

MCAmounts == {1, 2}

\* A payment of -1 is one nobody's app makes, and the service accepts.
MCSpends == {-1, 1, 2}

MCLeastUsed == -1
=============================================================================
