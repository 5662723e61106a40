--------------------------- MODULE MCFailedChecks ---------------------------
(***************************************************************************)
(* DeviceTrust with a count, that the program does not keep, of the Play   *)
(* Integrity checks that failed and led to a refusal.                      *)
(***************************************************************************)
EXTENDS DeviceTrust

TheDays == [d \in Devices |-> 31]
TheFindings == {{"double_spend_attempt"}}

VARIABLE failed \* of each fingerprint in the last 7 days, from 3 on not told apart

CountedInit == TrustInit /\ failed = [f \in Prints |-> 0]

FailsCheck(s) ==
  /\ RefuseUntrusted(s) /\ ~attested[s]
  /\ failed' = [failed EXCEPT ![print[s]] = IF @ = 3 THEN 3 ELSE @ + 1]

FailureAges(f) ==
  /\ failed[f] > 0
  /\ failed' = [failed EXCEPT ![f] = @ - 1]
  /\ UNCHANGED trustVars

CountedNext ==
  \/ \E s \in Checks : FailsCheck(s)
  \/ TrustNext /\ UNCHANGED failed
  \/ \E f \in Prints : FailureAges(f)

CountedSpec == CountedInit /\ [][CountedNext]_<<trustVars, failed>>

\* "Triggers if device has [...] 3+ Play Integrity fails": a fingerprint whose third
\* check within 7 days has failed is on the blacklist.
FailuresAreListed == \A f \in Prints : failed[f] = 3 => f \in listed
=============================================================================
