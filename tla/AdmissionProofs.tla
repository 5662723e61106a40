--------------------------- MODULE AdmissionProofs ---------------------------
(* Theorems about what stands before a token is issued: IdentityVerification  *)
(* and DeviceTrust, for any number of requests.                               *)
EXTENDS MCTrust, SumTheorems, TLAPS

-----------------------------------------------------------------------------
(* Identity.                                                               *)

\* What is on record was confirmed by the provider.
RecordsConfirmed ==
  /\ \A t \in IdTypes : verifiedRows[t] > 0 => <<t, t>> \in confirmed
  /\ \A t \in matched : <<"face", t>> \in confirmed /\ verifiedRows[t] > 0
  /\ "nin" \in flags => <<"nin", "nin">> \in confirmed
  /\ "face" \in flags => matched # {}

\* What a request is about to record was confirmed, and a face is only compared with
\* a document that is on record.
RequestConfirmed(v) ==
  /\ idStage[v] \in {"idle", "asking"} => idResult[v] = "pending"
  /\ idResult[v] = "verified" => <<idAsks[v], idAgainst[v]>> \in confirmed
  /\ idAsks[v] = "face" => verifiedRows[idAgainst[v]] > 0
  /\ idAsks[v] # "face" => idAgainst[v] = idAsks[v]

IdIInv == /\ IdentityTypeOK
          /\ RecordsConfirmed
          /\ \A v \in Verifiers : RequestConfirmed(v)

LEMMA IdReturnsFacts ==
  ASSUME IdIInv, NEW v \in Verifiers, IdReturns(v)
  PROVE  /\ idStage' \in [Verifiers -> {"idle", "asking", "answered", "flushed"}]
         /\ idAsks' \in [Verifiers -> {"nin", "bvn", "face"}]
         /\ idAgainst' \in [Verifiers -> IdTypes]
         /\ idResult' \in [Verifiers -> {"pending", "verified", "failed"}]
         /\ idResult'[v] = "pending" /\ idAsks'[v] = "nin" /\ idAgainst'[v] = "nin"
         /\ \A w \in Verifiers \ {v} : /\ idAsks'[w] = idAsks[w] /\ idAgainst'[w] = idAgainst[w]
                                       /\ idResult'[w] = idResult[w]
BY DEF IdIInv, IdentityTypeOK, IdReturns, IdTypes

LEMMA OpensFacts ==
  ASSUME IdIInv, NEW v \in Verifiers, NEW what \in {"nin", "bvn", "face"}, NEW t \in IdTypes,
         what # "face" => t = what, what = "face" => verifiedRows[t] > 0,
         Opens(v, what, t)
  PROVE  IdIInv'
<1>1. IdentityTypeOK'
  BY DEF IdIInv, IdentityTypeOK, Opens, idStore
<1>2. RecordsConfirmed'
  BY DEF IdIInv, RecordsConfirmed, Opens, idStore
<1>3. \A w \in Verifiers : RequestConfirmed(w)'
  BY DEF IdIInv, IdentityTypeOK, RequestConfirmed, Opens, idStore
<1> QED  BY <1>1, <1>2, <1>3 DEF IdIInv

LEMMA AnswerFacts ==
  ASSUME IdIInv, NEW v \in Verifiers, ProviderConfirms(v) \/ ProviderDenies(v)
  PROVE  IdIInv'
<1>1. /\ idStage[v] = "asking" /\ idStage' = [idStage EXCEPT ![v] = "answered"]
      /\ UNCHANGED <<verifiedRows, failedRows, flags, matched, idAsks, idAgainst>>
  BY DEF ProviderConfirms, ProviderDenies, Answered
<1>2. \/ /\ idResult' = [idResult EXCEPT ![v] = "verified"]
         /\ confirmed' = confirmed \cup {<<idAsks[v], idAgainst[v]>>}
      \/ idResult' = [idResult EXCEPT ![v] = "failed"] /\ confirmed' = confirmed
  BY DEF ProviderConfirms, ProviderDenies, Answered, ResultOfDenial
<1>3. <<idAsks[v], idAgainst[v]>> \in Confirmations
  BY DEF IdIInv, IdentityTypeOK, RequestConfirmed, Confirmations, IdTypes
<1>4. confirmed \subseteq confirmed' /\ confirmed' \in SUBSET Confirmations
  BY <1>2, <1>3 DEF IdIInv, IdentityTypeOK
<1>5. IdentityTypeOK'
  BY <1>1, <1>2, <1>4 DEF IdIInv, IdentityTypeOK
<1>6. RecordsConfirmed'
  BY <1>1, <1>4 DEF IdIInv, RecordsConfirmed
<1>7. \A w \in Verifiers : RequestConfirmed(w)'
  BY <1>1, <1>2, <1>4 DEF IdIInv, IdentityTypeOK, RequestConfirmed
<1> QED  BY <1>5, <1>6, <1>7 DEF IdIInv

LEMMA FlushFacts ==
  ASSUME IdIInv, NEW v \in Verifiers, FlushResult(v)
  PROVE  IdIInv'
BY DEF IdIInv, IdentityTypeOK, RecordsConfirmed, RequestConfirmed, FlushResult, idStore

\* What is recorded of a request is what the provider had confirmed.
LEMMA RecordFacts ==
  ASSUME IdIInv, NEW v \in Verifiers, RecordResult(v)
  PROVE  IdIInv'
<1>0. IdentityTypeOK /\ RecordsConfirmed /\ RequestConfirmed(v) /\ IdReturns(v)
  BY DEF IdIInv, RecordResult
<1>1. confirmed' = confirmed
  BY DEF RecordResult
<1>2. /\ verifiedRows' \in [IdTypes -> Nat] /\ failedRows' \in [IdTypes -> Nat]
      /\ \A t \in IdTypes : verifiedRows'[t] >= verifiedRows[t]
      /\ \A t \in IdTypes : verifiedRows'[t] > verifiedRows[t]
                           => t = idAsks[v] /\ idResult[v] = "verified"
  <2>1. CASE idAsks[v] = "face"
    BY <1>0, <2>1 DEF RecordResult, IdentityTypeOK
  <2>2. CASE idAsks[v] # "face"
    <3>1. idAsks[v] \in IdTypes
      BY <1>0, <2>2 DEF IdentityTypeOK, IdTypes
    <3>2. \/ verifiedRows' = verifiedRows
          \/ /\ idResult[v] = "verified"
             /\ verifiedRows' = [verifiedRows EXCEPT ![idAsks[v]] = @ + 1]
      BY <2>2 DEF RecordResult, OneMore
    <3>3. failedRows' \in [IdTypes -> Nat]
      BY <1>0, <2>2, <3>1 DEF RecordResult, OneMore, IdentityTypeOK
    <3> QED  BY <1>0, <3>1, <3>2, <3>3 DEF IdentityTypeOK
  <2> QED  BY <2>1, <2>2
<1>3. /\ matched' \in SUBSET IdTypes /\ matched \subseteq matched'
      /\ \A t \in matched' \ matched : /\ t = idAgainst[v] /\ idAsks[v] = "face"
                                      /\ idResult[v] = "verified"
      /\ idAsks[v] = "face" /\ idResult[v] = "verified" => idAgainst[v] \in matched'
  BY <1>0 DEF RecordResult, IdentityTypeOK
<1>4. /\ flags' \in SUBSET {"nin", "bvn", "face"}
      /\ \A x \in flags' \ flags : x = idAsks[v] /\ idResult[v] = "verified"
  BY <1>0 DEF RecordResult, IdentityTypeOK
<1>5. IdentityTypeOK'
  BY <1>0, <1>1, <1>2, <1>3, <1>4, IdReturnsFacts DEF IdentityTypeOK
<1>6. RecordsConfirmed'
  <2>1. \A t \in IdTypes : verifiedRows'[t] > 0 => <<t, t>> \in confirmed
    BY <1>0, <1>2 DEF RecordsConfirmed, RequestConfirmed, IdentityTypeOK, IdTypes
  <2>2. \A t \in matched' : <<"face", t>> \in confirmed /\ verifiedRows'[t] > 0
    <3> SUFFICES ASSUME NEW t \in matched'
                 PROVE  <<"face", t>> \in confirmed /\ verifiedRows'[t] > 0
      OBVIOUS
    <3>1. <<"face", t>> \in confirmed /\ verifiedRows[t] > 0
      <4>1. CASE t \in matched
        BY <1>0, <4>1 DEF RecordsConfirmed
      <4>2. CASE t \notin matched
        BY <1>0, <1>3, <4>2 DEF RequestConfirmed
      <4> QED  BY <4>1, <4>2
    <3>2. verifiedRows[t] \in Nat /\ verifiedRows'[t] \in Nat /\ verifiedRows'[t] >= verifiedRows[t]
      BY <1>0, <1>2, <1>3 DEF IdentityTypeOK
    <3> QED  BY <3>1, <3>2
  <2>3. "nin" \in flags' => <<"nin", "nin">> \in confirmed
    BY <1>0, <1>4 DEF RecordsConfirmed, RequestConfirmed
  <2>4. "face" \in flags' => matched' # {}
    BY <1>0, <1>3, <1>4 DEF RecordsConfirmed
  <2> QED  BY <1>1, <2>1, <2>2, <2>3, <2>4 DEF RecordsConfirmed
<1>7. \A w \in Verifiers : RequestConfirmed(w)'
  <2> SUFFICES ASSUME NEW w \in Verifiers PROVE RequestConfirmed(w)'
    OBVIOUS
  <2>1. CASE w = v
    BY <1>0, <2>1, IdReturnsFacts DEF RequestConfirmed
  <2>2. CASE w # v
    <3>1. /\ idAsks'[w] = idAsks[w] /\ idAgainst'[w] = idAgainst[w]
          /\ idResult'[w] = idResult[w] /\ idStage'[w] = idStage[w]
      BY <1>0, <2>2 DEF IdReturns, IdentityTypeOK
    <3>2. idAgainst[w] \in IdTypes /\ RequestConfirmed(w)
      BY <1>0 DEF IdentityTypeOK, IdIInv
    <3>3. verifiedRows[idAgainst[w]] > 0 => verifiedRows'[idAgainst[w]] > 0
      BY <1>0, <1>2, <3>2 DEF IdentityTypeOK
    <3> QED  BY <1>1, <3>1, <3>2, <3>3 DEF RequestConfirmed
  <2> QED  BY <2>1, <2>2
<1> QED  BY <1>5, <1>6, <1>7 DEF IdIInv

LEMMA LostFacts ==
  ASSUME IdIInv, NEW v \in Verifiers, IdLost(v)
  PROVE  IdIInv'
<1>1. IdReturns(v) /\ UNCHANGED idStore
  BY DEF IdLost
<1>2. IdentityTypeOK' /\ RecordsConfirmed'
  BY <1>1, IdReturnsFacts DEF IdIInv, IdentityTypeOK, RecordsConfirmed, idStore
<1>3. \A w \in Verifiers : RequestConfirmed(w)'
  <2> SUFFICES ASSUME NEW w \in Verifiers PROVE RequestConfirmed(w)'
    OBVIOUS
  <2>1. CASE w = v
    BY <1>1, <2>1, IdReturnsFacts DEF RequestConfirmed
  <2>2. CASE w # v
    <3>1. /\ idAsks'[w] = idAsks[w] /\ idAgainst'[w] = idAgainst[w]
          /\ idResult'[w] = idResult[w] /\ idStage'[w] = idStage[w]
      BY <1>1, <2>2 DEF IdReturns, IdIInv, IdentityTypeOK
    <3> QED  BY <1>1, <3>1 DEF IdIInv, RequestConfirmed, idStore
  <2> QED  BY <2>1, <2>2
<1> QED  BY <1>2, <1>3 DEF IdIInv

LEMMA IdentityNextFacts ==
  ASSUME IdIInv, [IdentityNext]_identityVars
  PROVE  IdIInv'
<1>1. CASE UNCHANGED identityVars
  BY <1>1 DEF identityVars, idStore, idRequest, IdIInv, IdentityTypeOK, RecordsConfirmed,
              RequestConfirmed
<1>2. CASE IdentityNext
  <2>1. PICK v \in Verifiers :
          \/ \E t \in IdTypes : InitiateVerification(v, t) \/ VerifyFace(v, t) \/ RefuseFace(v, t)
          \/ IdStep(v) \/ IdLost(v)
    BY <1>2 DEF IdentityNext
  <2>2. CASE \E t \in IdTypes : InitiateVerification(v, t)
    BY <2>2, OpensFacts DEF InitiateVerification, IdTypes
  <2>3. CASE \E t \in IdTypes : VerifyFace(v, t)
    BY <2>3, OpensFacts DEF VerifyFace, Comparable
  <2>4. CASE \E t \in IdTypes : RefuseFace(v, t)
    BY <2>4 DEF RefuseFace, identityVars, idStore, idRequest, IdIInv, IdentityTypeOK,
                RecordsConfirmed, RequestConfirmed
  <2>5. CASE IdStep(v)
    BY <2>5, AnswerFacts, FlushFacts, RecordFacts DEF IdStep
  <2> QED  BY <2>1, <2>2, <2>3, <2>4, <2>5, LostFacts
<1> QED  BY <1>1, <1>2

\* The types of the tables and the requests, and where what is on record comes from.
THEOREM IdentityInvariance == IdentitySpec => []IdIInv
<1>1. IdentityInit => IdIInv
  BY DEF IdentityInit, IdIInv, IdentityTypeOK, RecordsConfirmed, RequestConfirmed, IdTypes
<1>2. IdIInv /\ [IdentityNext]_identityVars => IdIInv'
  BY IdentityNextFacts
<1> QED  BY <1>1, <1>2, PTL DEF IdentitySpec

LEMMA EligibleFacts == IdIInv => EligibleWasConfirmed
<1> SUFFICES ASSUME IdIInv, CanProvisionToken
             PROVE  /\ <<"nin", "nin">> \in confirmed
                    /\ \E t \in matched : /\ {<<t, t>>, <<"face", t>>} \subseteq confirmed
                                         /\ verifiedRows[t] > 0
  BY DEF EligibleWasConfirmed
<1>1. PICK t \in matched : TRUE
  BY DEF IdIInv, RecordsConfirmed, CanProvisionToken
<1>2. t \in IdTypes /\ verifiedRows[t] > 0 /\ <<"face", t>> \in confirmed
  BY DEF IdIInv, RecordsConfirmed, IdentityTypeOK
<1>3. <<t, t>> \in confirmed
  BY <1>2 DEF IdIInv, RecordsConfirmed
<1> QED  BY <1>2, <1>3 DEF IdIInv, RecordsConfirmed, CanProvisionToken

\* Whoever can_user_provision_token lets through was confirmed by the provider, in
\* person and on paper.
THEOREM IdentityEligibleWasConfirmed == IdentitySpec => []EligibleWasConfirmed
BY EligibleFacts, IdentityInvariance, PTL

-----------------------------------------------------------------------------
(* Devices.                                                                *)

LateTypes ==
  /\ listed \in SUBSET Prints
  /\ late \in [Prints -> [Checks -> Nat]]
  /\ stage \in [Checks -> Stages]
  /\ kind \in [Checks -> {"provisioning", "settlement"}]
  /\ print \in [Checks -> Prints]

\* Only a listed fingerprint has had a late token.
LateMeansListed == \A f \in Prints, s \in Checks : late[f][s] > 0 => f \in listed

\* A provisioning that has passed the blacklist has not issued a late token to its
\* fingerprint: it passed while the fingerprint was not listed.
Passed(s) == kind[s] = "provisioning" /\ stage[s] \notin {"idle", "begun"}
PassedWithoutLate == \A s \in Checks : Passed(s) => late[print[s]][s] = 0

LateIInv == LateTypes /\ LateMeansListed /\ PassedWithoutLate /\ AtMostOneLateToken

\* What most steps come to: no token is issued, no fingerprint comes off the list, and
\* a provisioning gets no further past the check than it was.
LEMMA QuietTrustFacts ==
  ASSUME LateIInv, LateTypes', late' = late, listed \subseteq listed',
         \A s \in Checks : Passed(s)' => /\ print'[s] = print[s]
                                         /\ Passed(s) \/ print[s] \notin listed
  PROVE  LateIInv'
<1>1. LateMeansListed' /\ AtMostOneLateToken'
  BY DEF LateIInv, LateMeansListed, AtMostOneLateToken
<1>2. PassedWithoutLate'
  <2> SUFFICES ASSUME NEW s \in Checks, Passed(s)' PROVE (late[print[s]][s] = 0)'
    BY DEF PassedWithoutLate
  <2>0. print'[s] = print[s] /\ late' = late /\ (Passed(s) \/ print[s] \notin listed)
    OBVIOUS
  <2>1. late[print[s]][s] = 0
    <3>1. CASE Passed(s)
      BY <3>1 DEF LateIInv, PassedWithoutLate
    <3>2. CASE print[s] \notin listed
      <4>1. print[s] \in Prints /\ late[print[s]][s] \in Nat
        BY DEF LateIInv, LateTypes
      <4> QED  BY <3>2, <4>1 DEF LateIInv, LateMeansListed
    <3> QED  BY <2>0, <3>1, <3>2
  <2> QED  BY <2>0, <2>1
<1> QED  BY <1>1, <1>2 DEF LateIInv

\* Leaving changes no other session.
LEMMA LeaveFacts ==
  ASSUME LateIInv, NEW s \in Checks, Leave(s)
  PROVE  /\ stage' \in [Checks -> Stages]
         /\ kind' \in [Checks -> {"provisioning", "settlement"}]
         /\ print' \in [Checks -> Prints]
         /\ ~Passed(s)'
         /\ \A r \in Checks \ {s} : /\ stage'[r] = stage[r] /\ kind'[r] = kind[r]
                                    /\ print'[r] = print[r]
<1>1. AnyPrint \in Prints
  BY DEF AnyPrint, LateIInv, LateTypes
<1> QED  BY <1>1 DEF LateIInv, LateTypes, Leave, Stages, Passed

LEMMA LeavesFacts ==
  ASSUME LateIInv, NEW s \in Checks, Leave(s), late' = late, listed \subseteq listed',
         listed' \in SUBSET Prints
  PROVE  LateIInv'
<1>1. LateTypes'
  BY LeaveFacts DEF LateIInv, LateTypes
<1>2. \A r \in Checks : Passed(r)' => Passed(r) /\ print'[r] = print[r]
  BY LeaveFacts DEF Passed
<1> QED  BY <1>1, <1>2, QuietTrustFacts

\* Going on keeps the fingerprint; only the check itself passes it.
LEMMA EnterFacts ==
  ASSUME LateIInv, NEW s \in Checks, NEW p \in Stages, Enter(s, p),
         UNCHANGED <<kind, print, late, listed>>,
         Passed(s) \/ print[s] \notin listed \/ kind[s] = "settlement"
  PROVE  LateIInv'
<1>1. stage' = [stage EXCEPT ![s] = p]
  BY DEF Enter
<1>2. LateTypes'
  BY <1>1 DEF LateIInv, LateTypes
<1>3. \A r \in Checks : Passed(r)' => /\ print'[r] = print[r]
                                      /\ Passed(r) \/ print[r] \notin listed
  BY <1>1 DEF Passed, LateIInv, LateTypes
<1> QED  BY <1>2, <1>3, QuietTrustFacts

LEMMA BeginFacts ==
  ASSUME LateIInv, NEW s \in Checks, BeginProvisioning(s) \/ BeginSettlementCheck(s)
  PROVE  LateIInv'
<1>1. UNCHANGED <<late, listed>>
  BY DEF BeginProvisioning, BeginSettlementCheck, Reading, issued
<1>2. PICK f \in Prints : print' = [print EXCEPT ![s] = f]
  BY DEF BeginProvisioning, BeginSettlementCheck
<1>3. \/ stage' = [stage EXCEPT ![s] = "begun"] /\ kind' = kind
      \/ /\ stage' = [stage EXCEPT ![s] = "trusted"]
         /\ kind' = [kind EXCEPT ![s] = "settlement"]
  BY DEF BeginProvisioning, BeginSettlementCheck, Enter
<1>4. LateTypes'
  BY <1>1, <1>2, <1>3 DEF LateIInv, LateTypes, Stages
<1>5. \A r \in Checks : Passed(r)' => Passed(r) /\ print'[r] = print[r]
  BY <1>2, <1>3 DEF Passed, LateIInv, LateTypes
<1> QED  BY <1>1, <1>4, <1>5, QuietTrustFacts

\* A token: late only for a fingerprint listed since the check, and the first one.
LEMMA IssueFacts ==
  ASSUME LateIInv, NEW s \in Checks, IssueToken(s)
  PROVE  LateIInv'
<1> DEFINE f == print[s]
<1>0. f \in Prints /\ Passed(s) /\ late[f][s] = 0
  BY DEF LateIInv, LateTypes, IssueToken, PassedWithoutLate, Passed
<1>1. Leave(s) /\ listed \subseteq listed' /\ listed' \in SUBSET Prints
  BY <1>0 DEF IssueToken, Recorded, LateIInv, LateTypes
<1>2. \/ late' = late
      \/ f \in listed /\ late' = [late EXCEPT ![f] = [late[f] EXCEPT ![s] = @ + 1]]
  <2>1. late' = [late EXCEPT ![f][s] = IF f \in listed THEN @ + 1 ELSE @]
    BY DEF IssueToken
  <2>2. late \in [Prints -> [Checks -> Nat]]
    BY DEF LateIInv, LateTypes
  <2>3. CASE f \in listed
    BY <2>1, <2>3
  <2>4. CASE f \notin listed
    BY <1>0, <2>1, <2>2, <2>4
  <2> QED  BY <2>3, <2>4
<1>3. CASE late' = late
  BY <1>1, <1>3, LeavesFacts
<1>4. CASE f \in listed /\ late' = [late EXCEPT ![f] = [late[f] EXCEPT ![s] = @ + 1]]
  <2>1. late \in [Prints -> [Checks -> Nat]]
    BY DEF LateIInv, LateTypes
  <2>2. late' \in [Prints -> [Checks -> Nat]]
    BY <1>0, <1>4, <2>1
  <2>3. /\ late'[f][s] = 1
        /\ \A g \in Prints, r \in Checks : g # f \/ r # s => late'[g][r] = late[g][r]
    BY <1>0, <1>4, <2>1
  <2>4. LateTypes'
    BY <1>1, <2>2, LeaveFacts DEF LateIInv, LateTypes
  <2>5. LateMeansListed' /\ AtMostOneLateToken'
    BY <1>1, <1>4, <2>3 DEF LateIInv, LateMeansListed, AtMostOneLateToken
  <2>6. \A r \in Checks : Passed(r)' => r # s /\ Passed(r) /\ print'[r] = print[r]
    BY <1>1, LeaveFacts DEF Passed
  <2>7. PassedWithoutLate'
    BY <2>3, <2>6 DEF LateIInv, LateTypes, PassedWithoutLate
  <2> QED  BY <2>4, <2>5, <2>7 DEF LateIInv
<1> QED  BY <1>2, <1>3, <1>4

LEMMA CheckFacts ==
  ASSUME LateIInv, NEW s \in Checks, CheckStep(s) \/ Abort(s)
  PROVE  LateIInv'
<1>0. listed \in SUBSET Prints /\ print[s] \in Prints
      /\ kind[s] \in {"provisioning", "settlement"}
  BY DEF LateIInv, LateTypes
<1>1. CASE CheckBlacklist(s)
  <2>1. Enter(s, "evaluated") /\ UNCHANGED <<kind, print, late, listed>> /\ print[s] \notin listed
    BY <1>1 DEF CheckBlacklist, Unlisted, payload, Reading, issued
  <2> QED  BY <2>1, EnterFacts DEF Stages
<1>2. CASE RefuseListed(s) \/ ListedMeanwhile(s) \/ Abort(s)
  <2>1. Leave(s) /\ UNCHANGED <<late, listed>>
    BY <1>2 DEF RefuseListed, ListedMeanwhile, Abort, RollBack, issued
  <2> QED  BY <1>0, <2>1, LeavesFacts
<1>3. CASE RefuseUntrusted(s) \/ RefuseFraud(s)
  <2>1. Leave(s) /\ UNCHANGED <<late, listed>>
    BY <1>3 DEF RefuseUntrusted, RefuseFraud, RollBack, issued
  <2> QED  BY <1>0, <2>1, LeavesFacts
<1>4. CASE EvaluateTrust(s) \/ RecordSignals(s) \/ CheckAutoBlacklist(s) \/ AutoBlacklist(s)
  <2>1. /\ UNCHANGED <<kind, print, late, listed>>
        /\ stage[s] \in {"evaluated", "trusted", "recorded", "offending"}
    BY <1>4 DEF EvaluateTrust, RecordSignals, CheckAutoBlacklist, AutoBlacklist, payload,
                Reading, issued
  <2>2. \E p \in Stages : Enter(s, p)
    BY <1>4 DEF EvaluateTrust, RecordSignals, CheckAutoBlacklist, AutoBlacklist, Stages
  <2>3. Passed(s) \/ kind[s] = "settlement"
    BY <1>0, <2>1 DEF Passed
  <2> QED  BY <2>1, <2>2, <2>3, EnterFacts
<1>5. CASE CommitSettlementCheck(s)
  <2>1. Leave(s) /\ late' = late /\ listed \subseteq listed' /\ listed' \in SUBSET Prints
    BY <1>0, <1>5 DEF CommitSettlementCheck, Recorded, issued
  <2> QED  BY <2>1, LeavesFacts
<1> QED  BY <1>1, <1>2, <1>3, <1>4, <1>5, IssueFacts DEF CheckStep

\* What is done without a session of a check.
LEMMA OthersFacts ==
  ASSUME LateIInv,
         \/ \E d \in Devices : RegisterDevice(d) \/ RevokeDevice(d)
         \/ \E f \in Prints : BlacklistDevice(f) \/ SignalAges(f)
         \/ ScanStep /\ scanAdds \subseteq Prints
         \/ UNCHANGED trustVars
  PROVE  LateIInv'
<1>1. UNCHANGED <<late, stage, kind, print>>
  BY DEF RegisterDevice, RevokeDevice, BlacklistDevice, SignalAges, ScanStep, ScanStart,
         ScanLook, ScanInsert, ScanConflict, ScanCommit, issued, session, trustVars
<1>2. listed \subseteq listed' /\ (listed' \in SUBSET Prints)
  BY DEF RegisterDevice, RevokeDevice, BlacklistDevice, SignalAges, ScanStep, ScanStart,
         ScanLook, ScanInsert, ScanConflict, ScanCommit, trustVars, LateIInv, LateTypes
<1>3. LateTypes' /\ \A s \in Checks : Passed(s)' => Passed(s) /\ print'[s] = print[s]
  BY <1>1, <1>2 DEF LateIInv, LateTypes, Passed
<1> QED  BY <1>1, <1>2, <1>3, QuietTrustFacts

ScanTypes == todo \in SUBSET Prints /\ scanned \in SUBSET Prints /\ scanAdds \in SUBSET Prints

LEMMA ScanFacts ==
  ASSUME ScanTypes, [TrustNext]_trustVars
  PROVE  ScanTypes'
<1>1. CASE UNCHANGED scan
  BY <1>1 DEF ScanTypes, scan
<1>2. CASE ScanStep
  <2>1. CASE ScanStart
    BY <2>1 DEF ScanTypes, ScanStart, Candidates
  <2>2. CASE ScanLook
    BY <2>2 DEF ScanTypes, ScanLook
  <2>3. CASE ScanInsert
    BY <2>3 DEF ScanTypes, ScanInsert
  <2>4. CASE ScanConflict \/ ScanCommit
    BY <2>4 DEF ScanTypes, ScanConflict, ScanCommit, ScanEnds
  <2> QED  BY <1>2, <2>1, <2>2, <2>3, <2>4 DEF ScanStep
<1>3. CASE \/ \E d \in Devices : RegisterDevice(d) \/ RevokeDevice(d)
           \/ \E f \in Prints : BlacklistDevice(f) \/ SignalAges(f)
           \/ UNCHANGED trustVars
  BY <1>1, <1>3 DEF RegisterDevice, RevokeDevice, BlacklistDevice, SignalAges, trustVars
<1>4. CASE \E s \in Checks : BeginProvisioning(s) \/ BeginSettlementCheck(s) \/ Abort(s)
  BY <1>1, <1>4 DEF BeginProvisioning, BeginSettlementCheck, Abort, RollBack, Reading
<1>5. CASE \E s \in Checks : CheckStep(s)
  BY <1>1, <1>5 DEF CheckStep, CheckBlacklist, RefuseListed, EvaluateTrust, RefuseUntrusted,
     RecordSignals, CheckAutoBlacklist, AutoBlacklist, ListedMeanwhile, RefuseFraud,
     IssueToken, CommitSettlementCheck, RollBack, Reading
<1> QED  BY <1>2, <1>3, <1>4, <1>5 DEF TrustNext

LEMMA TrustNextFacts ==
  ASSUME LateIInv, ScanTypes, [TrustNext]_trustVars
  PROVE  LateIInv'
<1>1. CASE \E s \in Checks : \/ BeginProvisioning(s) \/ BeginSettlementCheck(s)
                             \/ CheckStep(s) \/ Abort(s)
  BY <1>1, BeginFacts, CheckFacts
<1>2. CASE \/ \E d \in Devices : RegisterDevice(d) \/ RevokeDevice(d)
           \/ \E f \in Prints : BlacklistDevice(f) \/ SignalAges(f)
           \/ ScanStep \/ UNCHANGED trustVars
  BY <1>2, OthersFacts DEF ScanTypes
<1> QED  BY <1>1, <1>2 DEF TrustNext

LEMMA LateInitFacts == TrustInit => LateIInv /\ ScanTypes
BY TrustAssumption
DEF TrustInit, LateIInv, LateTypes, LateMeansListed, PassedWithoutLate, Passed,
    AtMostOneLateToken, ScanTypes, Stages, AnyPrint

\* The types of the tokens, the list and the sessions, and who can still be late.
THEOREM TrustInvariance == TrustSpec => [](LateIInv /\ ScanTypes)
<1>1. TrustInit => LateIInv /\ ScanTypes
  BY LateInitFacts
<1>2. LateIInv /\ ScanTypes /\ [TrustNext]_trustVars => (LateIInv /\ ScanTypes)'
  BY TrustNextFacts, ScanFacts
<1> QED  BY <1>1, <1>2, PTL DEF TrustSpec

\* A blacklisted fingerprint gets at most one more token from each session that had
\* passed the check before, and none from any other.
THEOREM TrustAtMostOneLateToken == TrustSpec => []AtMostOneLateToken
<1>1. LateIInv => AtMostOneLateToken
  BY DEF LateIInv
<1> QED  BY <1>1, TrustInvariance, PTL

-----------------------------------------------------------------------------
(* Evidence: what a session is about to record of a device.                *)
SessionTypes ==
  /\ stage \in [Checks -> Stages]
  /\ kind \in [Checks -> {"provisioning", "settlement"}]
  /\ row \in [Checks -> Devices] /\ print \in [Checks -> Prints]
  /\ seen \in [Checks -> Levels]
  /\ attested \in [Checks -> BOOLEAN] /\ backed \in [Checks -> BOOLEAN]
  /\ found \in [Checks -> SUBSET Types]
  /\ history \in [Checks -> Nat]
  /\ adds \in [Checks -> BOOLEAN]

RecordTypes ==
  /\ recent \in [Prints -> [Types -> Nat]]
  /\ listed \in SUBSET Prints
  /\ level \in [Devices -> Levels]
  /\ verdict \in [Devices -> {"none", "MEETS_DEVICE_INTEGRITY"}]
  /\ fails \in [Devices -> Nat]
  /\ keyed \in [Devices -> BOOLEAN]
  /\ logs \in [Devices -> Nat] /\ logged \in [Devices -> Nat]
  /\ tokens \in [Prints -> Nat]
  /\ late \in [Prints -> [Checks -> Nat]]

\* A candidate is chosen from those to do, and only between two of the scan's steps.
ScanSound ==
  /\ scanning \in {"idle", "listing", "inserting"}
  /\ todo \in SUBSET Prints /\ scanned \in SUBSET todo /\ scanAdds \in SUBSET Prints
  /\ scanning # "inserting" => scanned = {}

\* A provisioning that has passed the evaluation is of a device with a score, and has
\* found nothing but, perhaps, that the key is in software.
CheckSound(s) ==
  /\ kind[s] = "settlement" => /\ found[s] \subseteq SettlementTypes
                               /\ stage[s] \notin {"idle", "begun", "evaluated"}
  /\ kind[s] = "provisioning" =>
       /\ found[s] \subseteq {"hardware_key_missing"}
       /\ stage[s] \in {"trusted", "recorded", "offending", "deciding"} => NewScore(s) >= 40

\* EvidenceComesWithTokens without the recalculation, and why that finds enough: the
\* scores a device has logged average 40 or more.
OnRecord ==
  /\ \A f \in Prints : \A t \in ProvisionTypes :
       recent[f][t] <= IF t = "hardware_key_missing" THEN tokens[f] ELSE 0
  /\ \A d \in Devices : /\ fails[d] = 0 /\ (logs[d] = 0 <=> verdict[d] = "none")
                        /\ logged[d] >= 40 * logs[d]
  /\ SumFunction(logs) = SumFunction(tokens)

EvidenceIInv ==
  /\ SessionTypes /\ RecordTypes /\ ScanSound
  /\ \A s \in Checks : CheckSound(s)
  /\ OnRecord

LEMMA TypesAreApart == SettlementTypes \cap ProvisionTypes = {}
BY DEF SettlementTypes, ProvisionTypes

LEMMA TypesAreFinite == IsFiniteSet(Types)
<1>1. \A x : IsFiniteSet({x})
  BY FS_Singleton
<1> DEFINE A == {"token_replay", "serial_mismatch"}
           B == A \cup {"invalid_signature"}
           C == B \cup {"amount_manipulation"}
           D == {"play_integrity_no_token", "play_integrity_fail"}
           F == D \cup {"hardware_key_missing"}
<1>2. IsFiniteSet(A) /\ IsFiniteSet(D)
  <2>1. /\ IsFiniteSet({"token_replay"} \cup {"serial_mismatch"})
        /\ IsFiniteSet({"play_integrity_no_token"} \cup {"play_integrity_fail"})
    BY <1>1, FS_Union
  <2>2. /\ A = {"token_replay"} \cup {"serial_mismatch"}
        /\ D = {"play_integrity_no_token"} \cup {"play_integrity_fail"}
    OBVIOUS
  <2> QED  BY <2>1, <2>2
<1>3. IsFiniteSet(B) /\ IsFiniteSet(F)
  BY <1>1, <1>2, FS_Union
<1>4. IsFiniteSet(C)
  BY <1>1, <1>3, FS_Union
<1>5. /\ SettlementTypes = C \cup {"double_spend_attempt"}
      /\ ProvisionTypes = F \cup {"low_trust_score"}
  BY DEF SettlementTypes, ProvisionTypes
<1>6. IsFiniteSet(SettlementTypes) /\ IsFiniteSet(ProvisionTypes)
  BY <1>1, <1>3, <1>4, <1>5, FS_Union
<1> QED  BY <1>6, FS_Union DEF Types

LEMMA HistoryFacts ==
  ASSUME RecordTypes, NEW f \in Prints
  PROVE  HistoricalScore(f) \in Nat
<1> DEFINE g == [t \in Types |-> SignalScore[t] * recent[f][t]]
<1>1. \A a, b \in Nat : a * b \in Nat
  OBVIOUS
<1>2. \A t \in Types : SignalScore[t] \in Nat
  BY DEF SignalScore
<1>3. \A t \in Types : recent[f][t] \in Nat
  BY DEF RecordTypes
<1>4. \A t \in DOMAIN g : g[t] \in Nat
  BY <1>1, <1>2, <1>3
<1>5. IsFiniteSet(DOMAIN g)
  BY TypesAreFinite
<1>6. SumFunction(g) \in Nat
  <2> HIDE DEF g
  <2> QED  BY <1>4, <1>5, SumNat DEF SumFunction
<1> QED  BY <1>6 DEF HistoricalScore

\* Counting one more in one place makes the sum one more.
LEMMA CountsUpFacts ==
  ASSUME NEW S, IsFiniteSet(S), NEW f \in [S -> Nat], NEW t \in S
  PROVE  SumFunction([f EXCEPT ![t] = @ + 1]) = SumFunction(f) + 1
<1> DEFINE g == [f EXCEPT ![t] = @ + 1]
<1>1. DOMAIN f = S /\ DOMAIN g = S
  OBVIOUS
<1>2. /\ \A s \in S : f[s] \in Int /\ g[s] \in Int
      /\ \A s \in S \ {t} : f[s] = g[s]
      /\ g[t] = f[t] + 1
  OBVIOUS
<1> HIDE DEF g
<1>3. SumFunctionOnSet(g, S) = SumFunctionOnSet(f, S) + g[t] - f[t]
  BY <1>2, SumChange
<1>4. SumFunctionOnSet(f, S) \in Int
  BY <1>2, SumInt
<1>5. SumFunctionOnSet(g, S) = SumFunctionOnSet(f, S) + 1
  BY <1>2, <1>3, <1>4
<1>6. SumFunction(g) = SumFunction(f) + 1
  BY <1>1, <1>5 DEF SumFunction
<1> QED  BY <1>6 DEF g

LEMMA NewScoreFacts ==
  ASSUME SessionTypes, NEW s \in Checks
  PROVE  NewScore(s) \in Nat
<1>1. Days[row[s]] \in Nat
  BY TrustAssumption DEF SessionTypes
<1>2. \A n \in Int : Within0To100(n) \in Nat
  BY DEF Within0To100
<1>3. SeniorityScore(Days[row[s]]) \in Int
  BY <1>1 DEF SeniorityScore, If
<1>4. If(backed[s], 25) \in Int /\ If(seen[s] = "standard", 15) \in Int
  BY DEF If
<1> DEFINE a == IF attested[s] THEN 40 ELSE -30
           b == If(backed[s], 25)
           c == If(seen[s] = "standard", 15)
           d == SeniorityScore(Days[row[s]])
<1>5. a \in Int
  OBVIOUS
<1>6. NewScore(s) = Within0To100(a + b + c + d)
  BY DEF NewScore, TrustScore
<1>7. a + b + c + d \in Int
  <2>1. b \in Int /\ c \in Int /\ d \in Int
    BY <1>3, <1>4
  <2> HIDE DEF a, b, c, d
  <2> QED  BY <1>5, <2>1
<1> QED  BY <1>2, <1>6, <1>7

SameCheck(r) ==
  /\ stage'[r] = stage[r] /\ kind'[r] = kind[r] /\ row'[r] = row[r]
  /\ seen'[r] = seen[r] /\ attested'[r] = attested[r] /\ backed'[r] = backed[r]
  /\ found'[r] = found[r]

LEMMA SameCheckFacts ==
  ASSUME NEW r \in Checks, CheckSound(r), SameCheck(r)
  PROVE  CheckSound(r)'
BY DEF CheckSound, SameCheck, NewScore

\* A session that ends is sound, and the others stay what they were.
LEMMA LeaveSoundFacts ==
  ASSUME EvidenceIInv, NEW s \in Checks, Leave(s)
  PROVE  SessionTypes' /\ \A r \in Checks : CheckSound(r)'
<1>1. AnyDevice \in Devices /\ AnyPrint \in Prints
  BY TrustAssumption DEF AnyDevice, AnyPrint
<1>2. SessionTypes'
  BY <1>1 DEF EvidenceIInv, SessionTypes, Leave, Stages, Levels
<1>3. /\ stage'[s] = "idle" /\ kind'[s] = "provisioning" /\ found'[s] = {}
      /\ \A r \in Checks \ {s} : SameCheck(r)
  BY DEF EvidenceIInv, SessionTypes, Leave, SameCheck
<1>4. CheckSound(s)'
  BY <1>3 DEF CheckSound
<1> QED  BY <1>2, <1>3, <1>4, SameCheckFacts DEF EvidenceIInv

\* A session ends, and what is on record is sound.
LEMMA LeavesEvidenceFacts ==
  ASSUME EvidenceIInv, NEW s \in Checks, Leave(s), UNCHANGED scan, RecordTypes', OnRecord'
  PROVE  EvidenceIInv'
<1>1. ScanSound'
  BY DEF EvidenceIInv, ScanSound, scan
<1> QED  BY <1>1, LeaveSoundFacts DEF EvidenceIInv

LEMMA SameRecordFacts ==
  ASSUME EvidenceIInv, UNCHANGED <<recent, level, verdict, fails, keyed, logs, logged, issued>>,
         listed' \in SUBSET Prints
  PROVE  RecordTypes' /\ OnRecord'
BY DEF EvidenceIInv, RecordTypes, OnRecord, issued

\* A session goes on, and nothing is committed.
LEMMA GoesOnEvidenceFacts ==
  ASSUME EvidenceIInv, NEW s \in Checks, Reading,
         SessionTypes', CheckSound(s)', \A r \in Checks \ {s} : SameCheck(r)
  PROVE  EvidenceIInv'
<1>1. RecordTypes' /\ OnRecord'
  <2>1. listed \in SUBSET Prints
    BY DEF EvidenceIInv, RecordTypes
  <2> QED  BY <2>1, SameRecordFacts DEF Reading, rows
<1>2. ScanSound'
  BY DEF EvidenceIInv, ScanSound, scan, Reading
<1>3. \A r \in Checks \ {s} : CheckSound(r)'
  BY SameCheckFacts DEF EvidenceIInv
<1> QED  BY <1>1, <1>2, <1>3 DEF EvidenceIInv

\* A check begins without findings, whichever it is; settlement data names its own types.
LEMMA BeginEvidenceFacts ==
  ASSUME EvidenceIInv, NEW s \in Checks, BeginProvisioning(s) \/ BeginSettlementCheck(s)
  PROVE  EvidenceIInv'
<1>0. SessionTypes /\ CheckSound(s) /\ Reading /\ stage[s] = "idle" /\ kind[s] \in {"provisioning", "settlement"}
  BY DEF EvidenceIInv, SessionTypes, BeginProvisioning, BeginSettlementCheck
<1>1. CASE BeginProvisioning(s)
  <2>1. PICK d \in Devices, f \in Prints, a, h \in BOOLEAN :
          /\ row' = [row EXCEPT ![s] = d] /\ print' = [print EXCEPT ![s] = f]
          /\ seen' = [seen EXCEPT ![s] = level[d]]
          /\ attested' = [attested EXCEPT ![s] = a] /\ backed' = [backed EXCEPT ![s] = h]
    BY <1>1 DEF BeginProvisioning
  <2>2. /\ stage' = [stage EXCEPT ![s] = "begun"] /\ UNCHANGED <<kind, found, history, adds>>
        /\ level[d] \in Levels
    BY <1>1 DEF BeginProvisioning, Enter, EvidenceIInv, RecordTypes
  <2>3. SessionTypes'
    BY <1>0, <2>1, <2>2 DEF SessionTypes, Stages
  <2>4. stage'[s] = "begun" /\ \A r \in Checks \ {s} : SameCheck(r)
    BY <1>0, <2>1, <2>2 DEF SessionTypes, SameCheck
  <2>5. CheckSound(s)'
    BY <1>0, <2>2, <2>4 DEF CheckSound
  <2> QED  BY <1>0, <2>3, <2>4, <2>5, GoesOnEvidenceFacts
<1>2. CASE BeginSettlementCheck(s)
  <2>1. PICK f \in Prints, E \in SettlementFindings :
          print' = [print EXCEPT ![s] = f] /\ found' = [found EXCEPT ![s] = E]
    BY <1>2 DEF BeginSettlementCheck
  <2>2. /\ stage' = [stage EXCEPT ![s] = "trusted"] /\ kind' = [kind EXCEPT ![s] = "settlement"]
        /\ UNCHANGED <<row, seen, attested, backed, history, adds>>
    BY <1>2 DEF BeginSettlementCheck, Enter
  <2>3. E \subseteq SettlementTypes /\ E \subseteq Types
    BY TrustAssumption DEF Types
  <2>4. SessionTypes'
    BY <1>0, <2>1, <2>2, <2>3 DEF SessionTypes, Stages
  <2>5. /\ stage'[s] = "trusted" /\ kind'[s] = "settlement" /\ found'[s] = E
        /\ \A r \in Checks \ {s} : SameCheck(r)
    BY <1>0, <2>1, <2>2 DEF SessionTypes, SameCheck
  <2>6. CheckSound(s)'
    BY <2>3, <2>5 DEF CheckSound
  <2> QED  BY <1>0, <2>4, <2>5, <2>6, GoesOnEvidenceFacts
<1> QED  BY <1>1, <1>2

\* The evaluation lets through only what Play Integrity attests and scores 40 or more.
LEMMA EvaluateTrustFacts ==
  ASSUME EvidenceIInv, NEW s \in Checks, EvaluateTrust(s)
  PROVE  EvidenceIInv'
<1>1. /\ stage[s] = "evaluated" /\ Trusted(s) /\ stage' = [stage EXCEPT ![s] = "trusted"]
      /\ found' = [found EXCEPT ![s] = ProvisioningSignals(s)]
      /\ UNCHANGED <<kind, row, print, seen, attested, backed, history, adds>> /\ Reading
  BY DEF EvaluateTrust, Enter, payload
<1>2. SessionTypes /\ CheckSound(s)
  BY DEF EvidenceIInv
<1>3. attested[s] /\ NewScore(s) >= 40
  BY <1>1 DEF Trusted, IsTrusted, Limits
<1>4. ProvisioningSignals(s) \subseteq {"hardware_key_missing"}
  <2>1. NewScore(s) \in Nat
    BY <1>2, NewScoreFacts
  <2> QED  BY <1>3, <2>1 DEF ProvisioningSignals
<1>5. ProvisioningSignals(s) \subseteq Types
  BY DEF ProvisioningSignals, Types
<1>6. SessionTypes'
  BY <1>1, <1>2, <1>5 DEF SessionTypes, Stages
<1>7. /\ kind'[s] = "provisioning" /\ found'[s] = ProvisioningSignals(s)
      /\ \A r \in Checks \ {s} : SameCheck(r)
  BY <1>1, <1>2 DEF SessionTypes, SameCheck, CheckSound
<1>8. NewScore(s)' = NewScore(s)
  BY <1>1 DEF NewScore
<1>9. CheckSound(s)'
  BY <1>3, <1>4, <1>7, <1>8 DEF CheckSound
<1> QED  BY <1>1, <1>6, <1>7, <1>9, GoesOnEvidenceFacts

\* A session goes on with its findings.
LEMMA ProceedsFacts ==
  ASSUME EvidenceIInv, NEW s \in Checks, Enter(s, stage'[s]), stage'[s] \in Stages \ {"idle"},
         UNCHANGED <<payload, found>>, Reading,
         history' \in [Checks -> Nat], adds' \in [Checks -> BOOLEAN],
         \/ stage[s] = "begun" /\ stage'[s] = "evaluated"
         \/ /\ stage[s] \in {"trusted", "recorded", "offending"}
            /\ stage'[s] \in {"recorded", "offending", "deciding"}
  PROVE  EvidenceIInv'
<1>1. SessionTypes /\ CheckSound(s) /\ stage' = [stage EXCEPT ![s] = stage'[s]]
  BY DEF EvidenceIInv, Enter
<1>2. SessionTypes'
  BY <1>1 DEF SessionTypes, payload
<1>3. \A r \in Checks \ {s} : SameCheck(r)
  BY <1>1 DEF SessionTypes, SameCheck, payload
<1>4. NewScore(s)' = NewScore(s)
  BY DEF NewScore, payload
<1>5. CheckSound(s)'
  BY <1>1, <1>4 DEF CheckSound, payload
<1> QED  BY <1>2, <1>3, <1>5, GoesOnEvidenceFacts

LEMMA ReadsFacts ==
  ASSUME EvidenceIInv, NEW s \in Checks,
         CheckBlacklist(s) \/ RecordSignals(s) \/ CheckAutoBlacklist(s) \/ AutoBlacklist(s)
  PROVE  EvidenceIInv'
<1>0. SessionTypes /\ RecordTypes
  BY DEF EvidenceIInv
<1>1. /\ UNCHANGED <<payload, found>> /\ Reading
      /\ stage[s] \in {"begun", "trusted", "recorded", "offending"}
  BY DEF CheckBlacklist, RecordSignals, CheckAutoBlacklist, AutoBlacklist
<1>2. PICK p \in Stages \ {"idle"} :
        /\ Enter(s, p)
        /\ \/ stage[s] = "begun" /\ p = "evaluated"
           \/ /\ stage[s] \in {"trusted", "recorded", "offending"}
              /\ p \in {"recorded", "offending", "deciding"}
  BY DEF CheckBlacklist, RecordSignals, CheckAutoBlacklist, AutoBlacklist, Stages
<1>3. stage'[s] = p
  BY <1>0, <1>2 DEF Enter, SessionTypes
<1>4. history' \in [Checks -> Nat] /\ adds' \in [Checks -> BOOLEAN]
  <2>1. CASE RecordSignals(s)
    <3>1. print[s] \in Prints
      BY <1>0 DEF SessionTypes
    <3>2. HistoricalScore(print[s]) \in Nat
      BY <1>0, <3>1, HistoryFacts
    <3> QED  BY <1>0, <2>1, <3>2 DEF RecordSignals, SessionTypes
  <2>2. CASE CheckBlacklist(s) \/ CheckAutoBlacklist(s) \/ AutoBlacklist(s)
    BY <1>0, <2>2 DEF CheckBlacklist, CheckAutoBlacklist, AutoBlacklist, SessionTypes
  <2> QED  BY <2>1, <2>2
<1> QED  BY <1>1, <1>2, <1>3, <1>4, ProceedsFacts

\* What a session adds to the signals of its fingerprint.
LEMMA WithOwnFacts ==
  ASSUME RecordTypes, SessionTypes, NEW s \in Checks
  PROVE  /\ WithOwn(s) \in [Types -> Nat]
         /\ [recent EXCEPT ![print[s]] = WithOwn(s)] \in [Prints -> [Types -> Nat]]
         /\ \A t \in Types : t \notin found[s] => WithOwn(s)[t] = recent[print[s]][t]
         /\ \A t \in Types : WithOwn(s)[t] <= recent[print[s]][t] + 1
<1>1. print[s] \in Prints /\ recent[print[s]] \in [Types -> Nat]
  BY DEF RecordTypes, SessionTypes
<1>2. \A t \in Types : /\ recent[print[s]][t] + If(t \in found[s], 1) \in Nat
                       /\ recent[print[s]][t] + If(t \in found[s], 1) <= recent[print[s]][t] + 1
                       /\ t \notin found[s] => recent[print[s]][t] + If(t \in found[s], 1)
                                                 = recent[print[s]][t]
  BY <1>1 DEF If
<1>3. WithOwn(s) \in [Types -> Nat]
  BY <1>2 DEF WithOwn
<1>4. \A t \in Types : WithOwn(s)[t] = recent[print[s]][t] + If(t \in found[s], 1)
  BY DEF WithOwn
<1>5. [recent EXCEPT ![print[s]] = WithOwn(s)] \in [Prints -> [Types -> Nat]]
  BY <1>1, <1>3 DEF RecordTypes
<1> QED  BY <1>2, <1>3, <1>4, <1>5

\* Nothing a refusal or the loss of a session keeps is evidence.
LEMMA RefusesFacts ==
  ASSUME EvidenceIInv, NEW s \in Checks,
         \/ RefuseListed(s) \/ ListedMeanwhile(s) \/ Abort(s)
         \/ RefuseUntrusted(s) \/ RefuseFraud(s)
  PROVE  EvidenceIInv'
<1>0. SessionTypes /\ RecordTypes /\ row[s] \in Devices /\ print[s] \in Prints
  BY DEF EvidenceIInv, SessionTypes
<1>1. Leave(s) /\ UNCHANGED <<listed, level, verdict, keyed, logs, logged, issued, scan>>
  BY DEF RefuseListed, ListedMeanwhile, Abort, RollBack, RefuseUntrusted, RefuseFraud, rows
<1>2. fails' = fails /\ recent' = recent
  <2>1. CASE RefuseListed(s) \/ ListedMeanwhile(s) \/ Abort(s)
    BY <2>1 DEF RefuseListed, ListedMeanwhile, Abort, RollBack, rows
  <2>2. CASE RefuseUntrusted(s)
    BY <2>2 DEF RefuseUntrusted, RollBack, rows
  <2>3. CASE RefuseFraud(s)
    BY <1>0, <2>3 DEF RefuseFraud, SignalsKept, rows, RecordTypes
  <2> QED  BY <2>1, <2>2, <2>3
<1>3. RecordTypes' /\ OnRecord'
  <2>1. listed' \in SUBSET Prints
    BY <1>0, <1>1 DEF RecordTypes
  <2> QED  BY <1>1, <1>2, <2>1, SameRecordFacts
<1> QED  BY <1>1, <1>3, LeavesEvidenceFacts

LEMMA CommitSettlementCheckFacts ==
  ASSUME EvidenceIInv, NEW s \in Checks, CommitSettlementCheck(s)
  PROVE  EvidenceIInv'
<1>0. SessionTypes /\ RecordTypes /\ CheckSound(s) /\ print[s] \in Prints /\ OnRecord
  BY DEF EvidenceIInv, SessionTypes
<1>1. /\ kind[s] = "settlement" /\ Leave(s) /\ UNCHANGED <<rows, issued, scan>>
      /\ recent' = [recent EXCEPT ![print[s]] = WithOwn(s)]
      /\ listed' = IF adds[s] THEN listed \cup {print[s]} ELSE listed
  BY DEF CommitSettlementCheck, Recorded
<1>2. RecordTypes'
  BY <1>0, <1>1, WithOwnFacts DEF RecordTypes, rows, issued
<1>3. \A f \in Prints : \A t \in ProvisionTypes : recent'[f][t] = recent[f][t]
  <2> SUFFICES ASSUME NEW f \in Prints, NEW t \in ProvisionTypes
               PROVE  recent'[f][t] = recent[f][t]
    OBVIOUS
  <2>1. t \in Types /\ t \notin found[s]
    BY <1>0, <1>1, TypesAreApart DEF CheckSound, Types
  <2>2. WithOwn(s)[t] = recent[print[s]][t]
    BY <1>0, <2>1, WithOwnFacts
  <2> QED  BY <1>0, <1>1, <2>2 DEF RecordTypes
<1>4. OnRecord'
  BY <1>0, <1>1, <1>3 DEF OnRecord, rows, issued
<1> QED  BY <1>1, <1>2, <1>4, LeavesEvidenceFacts

\* A token comes with a log entry of its score, a clean record, and no signal but one.
LEMMA IssueTokenFacts ==
  ASSUME EvidenceIInv, NEW s \in Checks, IssueToken(s)
  PROVE  EvidenceIInv'
<1> DEFINE d == row[s]
           f == print[s]
           n == NewScore(s)
<1>0. /\ SessionTypes /\ RecordTypes /\ CheckSound(s) /\ OnRecord
      /\ f \in Prints /\ d \in Devices
  BY DEF EvidenceIInv, SessionTypes
<1>1. /\ stage[s] = "deciding" /\ kind[s] = "provisioning" /\ Leave(s)
      /\ recent' = [recent EXCEPT ![f] = WithOwn(s)]
      /\ listed' = IF adds[s] THEN listed \cup {f} ELSE listed
      /\ tokens' = [tokens EXCEPT ![f] = @ + 1]
      /\ late' = [late EXCEPT ![f][s] = IF f \in listed THEN @ + 1 ELSE @]
      /\ verdict' = [verdict EXCEPT ![d] = "MEETS_DEVICE_INTEGRITY"]
      /\ fails' = [fails EXCEPT ![d] = 0]
      /\ keyed' = [keyed EXCEPT ![d] = backed[s]]
      /\ logs' = [logs EXCEPT ![d] = @ + 1]
      /\ logged' = [logged EXCEPT ![d] = @ + n]
      /\ UNCHANGED <<level, scan>>
  BY DEF IssueToken, Recorded
<1>2. n \in Nat /\ n >= 40 /\ found[s] \subseteq {"hardware_key_missing"}
  BY <1>0, <1>1, NewScoreFacts DEF CheckSound
<1>3. backed[s] \in BOOLEAN
  BY <1>0 DEF SessionTypes
<1> HIDE DEF n, d, f
<1>4. /\ late' \in [Prints -> [Checks -> Nat]]
  <2>1. late[f] \in [Checks -> Nat] /\ late[f][s] \in Nat
    BY <1>0 DEF RecordTypes
  <2> DEFINE m == IF f \in listed THEN late[f][s] + 1 ELSE late[f][s]
  <2>2. m \in Nat
    BY <2>1
  <2>3. late' = [late EXCEPT ![f] = [late[f] EXCEPT ![s] = m]]
    BY <1>0, <1>1, <2>1 DEF RecordTypes
  <2> HIDE DEF m
  <2>4. [late[f] EXCEPT ![s] = m] \in [Checks -> Nat]
    BY <2>1, <2>2
  <2> QED  BY <1>0, <2>3, <2>4 DEF RecordTypes
<1>5. recent' \in [Prints -> [Types -> Nat]]
  BY <1>0, <1>1, WithOwnFacts DEF f
<1>6. /\ listed' \in SUBSET Prints /\ verdict' \in [Devices -> {"none", "MEETS_DEVICE_INTEGRITY"}]
      /\ fails' \in [Devices -> Nat] /\ level' \in [Devices -> Levels]
      /\ logs' \in [Devices -> Nat] /\ logged' \in [Devices -> Nat] /\ tokens' \in [Prints -> Nat]
  BY <1>0, <1>1, <1>2 DEF RecordTypes
<1>7. keyed' \in [Devices -> BOOLEAN]
  BY <1>0, <1>1, <1>3 DEF RecordTypes
<1>8. RecordTypes'
  BY <1>4, <1>5, <1>6, <1>7 DEF RecordTypes
<1>9. ASSUME NEW g \in Prints, NEW t \in ProvisionTypes
      PROVE  recent'[g][t] <= IF t = "hardware_key_missing" THEN tokens'[g] ELSE 0
  <2>0. /\ t \in Types /\ recent[g][t] \in Nat /\ tokens[g] \in Nat
        /\ recent[g][t] <= IF t = "hardware_key_missing" THEN tokens[g] ELSE 0
    BY <1>0 DEF RecordTypes, OnRecord, Types
  <2>1. CASE g # f
    <3>1. recent'[g] = recent[g] /\ tokens'[g] = tokens[g]
      BY <1>0, <1>1, <2>1 DEF RecordTypes
    <3> QED  BY <2>0, <3>1
  <2>2. CASE g = f
    <3>1. recent'[g] = WithOwn(s) /\ tokens'[g] = tokens[g] + 1
      BY <1>0, <1>1, <2>2 DEF RecordTypes
    <3>2. WithOwn(s)[t] <= recent[g][t] + 1 /\ WithOwn(s)[t] \in Nat
      BY <1>0, <2>0, <2>2, WithOwnFacts DEF f
    <3>3. t # "hardware_key_missing" => WithOwn(s)[t] = recent[g][t]
      BY <1>0, <1>2, <2>0, <2>2, WithOwnFacts DEF f
    <3> QED  BY <2>0, <3>1, <3>2, <3>3
  <2> QED  BY <2>1, <2>2
<1>10. ASSUME NEW e \in Devices
       PROVE  /\ fails'[e] = 0 /\ (logs'[e] = 0 <=> verdict'[e] = "none")
              /\ logged'[e] >= 40 * logs'[e]
  <2>0. /\ fails[e] = 0 /\ (logs[e] = 0 <=> verdict[e] = "none") /\ logged[e] >= 40 * logs[e]
        /\ logs[e] \in Nat /\ logged[e] \in Nat
    BY <1>0 DEF OnRecord, RecordTypes
  <2>1. CASE e # d
    <3>1. fails'[e] = fails[e] /\ logs'[e] = logs[e] /\ verdict'[e] = verdict[e] /\ logged'[e] = logged[e]
      BY <1>0, <1>1, <2>1 DEF RecordTypes
    <3> QED  BY <2>0, <3>1
  <2>2. CASE e = d
    <3>1. /\ fails'[e] = 0 /\ logs'[e] = logs[e] + 1 /\ verdict'[e] = "MEETS_DEVICE_INTEGRITY"
          /\ logged'[e] = logged[e] + n
      BY <1>0, <1>1, <2>2 DEF RecordTypes
    <3>2. logged[e] + n >= 40 * (logs[e] + 1)
      BY <1>2, <2>0
    <3> QED  BY <2>0, <3>1, <3>2
  <2> QED  BY <2>1, <2>2
<1>11. SumFunction(logs') = SumFunction(tokens')
  <2>1. SumFunction(logs') = SumFunction(logs) + 1
    BY <1>0, <1>1, TrustAssumption, CountsUpFacts DEF RecordTypes
  <2>2. SumFunction(tokens') = SumFunction(tokens) + 1
    BY <1>0, <1>1, TrustAssumption, CountsUpFacts DEF RecordTypes
  <2> QED  BY <1>0, <2>1, <2>2 DEF OnRecord
<1>12. OnRecord'
  BY <1>9, <1>10, <1>11 DEF OnRecord
<1> QED  BY <1>1, <1>8, <1>12, LeavesEvidenceFacts

\* What is done without a session of a check.
LEMMA SessionsStayFacts ==
  ASSUME EvidenceIInv, UNCHANGED session, RecordTypes', OnRecord', ScanSound'
  PROVE  EvidenceIInv'
<1>1. \A r \in Checks : SameCheck(r)
  BY DEF SameCheck, session
<1>2. SessionTypes'
  BY DEF EvidenceIInv, SessionTypes, session
<1> QED  BY <1>1, <1>2, SameCheckFacts DEF EvidenceIInv

LEMMA DeviceFacts ==
  ASSUME EvidenceIInv, NEW d \in Devices, RegisterDevice(d) \/ RevokeDevice(d)
  PROVE  EvidenceIInv'
<1>1. UNCHANGED <<recent, listed, verdict, fails, keyed, logs, logged, issued, session, scan>>
  BY DEF RegisterDevice, RevokeDevice
<1>2. level' \in [Devices -> Levels]
  BY DEF RegisterDevice, RevokeDevice, EvidenceIInv, RecordTypes, Levels
<1>3. RecordTypes' /\ OnRecord' /\ ScanSound'
  BY <1>1, <1>2 DEF EvidenceIInv, RecordTypes, OnRecord, ScanSound, issued, scan
<1> QED  BY <1>1, <1>3, SessionsStayFacts

LEMMA SignalAgesFacts ==
  ASSUME EvidenceIInv, NEW f \in Prints, SignalAges(f)
  PROVE  EvidenceIInv'
<1>1. PICK t \in Types : recent[f][t] > 0 /\ recent' = [recent EXCEPT ![f][t] = @ - 1]
  BY DEF SignalAges
<1>2. UNCHANGED <<listed, rows, issued, session, scan>>
  BY DEF SignalAges
<1>3. recent[f] \in [Types -> Nat] /\ recent \in [Prints -> [Types -> Nat]] /\ recent[f][t] \in Nat
  BY DEF EvidenceIInv, RecordTypes
<1> DEFINE h == [recent[f] EXCEPT ![t] = recent[f][t] - 1]
<1>4. h \in [Types -> Nat] /\ \A u \in Types : h[u] <= recent[f][u]
  BY <1>1, <1>3
<1>5. recent' = [recent EXCEPT ![f] = h]
  BY <1>1, <1>3
<1> HIDE DEF h
<1>6. recent' \in [Prints -> [Types -> Nat]]
  BY <1>3, <1>4, <1>5
<1>7. \A g \in Prints : \A u \in Types : recent'[g][u] <= recent[g][u]
  BY <1>3, <1>4, <1>5
<1>8. RecordTypes' /\ ScanSound'
  BY <1>2, <1>6 DEF EvidenceIInv, RecordTypes, ScanSound, rows, issued, scan
<1>9. ASSUME NEW g \in Prints, NEW u \in ProvisionTypes
      PROVE  recent'[g][u] <= IF u = "hardware_key_missing" THEN tokens[g] ELSE 0
  <2>1. u \in Types /\ recent'[g][u] <= recent[g][u]
    BY <1>7 DEF Types
  <2>2. recent'[g][u] \in Nat /\ recent[g][u] \in Nat /\ tokens[g] \in Nat
    BY <1>3, <1>6, <2>1 DEF EvidenceIInv, RecordTypes
  <2>3. recent[g][u] <= IF u = "hardware_key_missing" THEN tokens[g] ELSE 0
    BY DEF EvidenceIInv, OnRecord
  <2> QED  BY <2>1, <2>2, <2>3
<1>10. OnRecord'
  BY <1>2, <1>9 DEF EvidenceIInv, OnRecord, rows, issued
<1> QED  BY <1>2, <1>8, <1>10, SessionsStayFacts

LEMMA ListingFacts ==
  ASSUME EvidenceIInv, ScanStep \/ \E f \in Prints : BlacklistDevice(f)
  PROVE  EvidenceIInv'
<1>0. ScanSound /\ listed \in SUBSET Prints
  BY DEF EvidenceIInv, RecordTypes
<1>1. UNCHANGED <<recent, rows, issued, session>>
  BY DEF ScanStep, ScanStart, ScanLook, ScanInsert, ScanConflict, ScanCommit, BlacklistDevice
<1>2. listed' \in SUBSET Prints
  BY <1>0 DEF ScanStep, ScanStart, ScanLook, ScanInsert, ScanConflict, ScanCommit,
              BlacklistDevice, ScanSound
<1>3. ScanSound'
  <2>1. CASE ScanStart
    BY <1>0, <2>1 DEF ScanSound, ScanStart, Candidates
  <2>2. CASE ScanLook
    BY <1>0, <2>2 DEF ScanSound, ScanLook
  <2>3. CASE ScanInsert
    BY <1>0, <2>3 DEF ScanSound, ScanInsert
  <2>4. CASE ScanConflict \/ ScanCommit
    BY <2>4 DEF ScanSound, ScanConflict, ScanCommit, ScanEnds
  <2>5. CASE \E f \in Prints : BlacklistDevice(f)
    BY <1>0, <2>5 DEF ScanSound, BlacklistDevice, scan
  <2> QED  BY <2>1, <2>2, <2>3, <2>4, <2>5 DEF ScanStep
<1>4. RecordTypes' /\ OnRecord'
  BY <1>1, <1>2, SameRecordFacts DEF rows
<1> QED  BY <1>1, <1>3, <1>4, SessionsStayFacts

LEMMA EvidenceNextFacts ==
  ASSUME EvidenceIInv, [TrustNext]_trustVars
  PROVE  EvidenceIInv'
<1>1. CASE UNCHANGED trustVars
  <2>1. RecordTypes' /\ OnRecord' /\ ScanSound'
    BY <1>1 DEF EvidenceIInv, RecordTypes, OnRecord, ScanSound, trustVars, rows, issued, scan
  <2> QED  BY <1>1, <2>1, SessionsStayFacts DEF trustVars
<1>2. ASSUME NEW s \in Checks, CheckStep(s) \/ Abort(s) PROVE EvidenceIInv'
  BY <1>2, ReadsFacts, RefusesFacts, EvaluateTrustFacts, IssueTokenFacts,
     CommitSettlementCheckFacts DEF CheckStep
<1>3. ASSUME NEW s \in Checks, BeginProvisioning(s) \/ BeginSettlementCheck(s) PROVE EvidenceIInv'
  BY <1>3, BeginEvidenceFacts
<1>4. ASSUME NEW f \in Prints, BlacklistDevice(f) \/ SignalAges(f) PROVE EvidenceIInv'
  BY <1>4, ListingFacts, SignalAgesFacts
<1>5. CASE ScanStep
  BY <1>5, ListingFacts
<1> QED  BY <1>1, <1>2, <1>3, <1>4, <1>5, DeviceFacts DEF TrustNext

LEMMA EvidenceInitFacts ==
  ASSUME TrustInit PROVE EvidenceIInv
<1>1. AnyDevice \in Devices /\ AnyPrint \in Prints
  BY TrustAssumption DEF AnyDevice, AnyPrint
<1>2. SessionTypes
  BY <1>1 DEF TrustInit, SessionTypes, Stages, Levels
<1>3. RecordTypes
  BY DEF TrustInit, RecordTypes, Levels
<1>4. ScanSound
  BY DEF TrustInit, ScanSound
<1>5. \A s \in Checks : CheckSound(s)
  BY DEF TrustInit, CheckSound
<1>6. SumFunction(logs) = 0 /\ SumFunction(tokens) = 0
  <2>1. /\ DOMAIN logs = Devices /\ \A d \in Devices : logs[d] = 0
        /\ DOMAIN tokens = Prints /\ \A f \in Prints : tokens[f] = 0
    BY DEF TrustInit
  <2>2. SumFunctionOnSet(logs, Devices) = 0 /\ SumFunctionOnSet(tokens, Prints) = 0
    BY <2>1, TrustAssumption, SumZero
  <2> QED  BY <2>1, <2>2 DEF SumFunction
<1>7. OnRecord
  <2>1. \A f \in Prints : \A t \in ProvisionTypes :
          recent[f][t] <= IF t = "hardware_key_missing" THEN tokens[f] ELSE 0
    BY DEF TrustInit, Types
  <2>2. \A d \in Devices : /\ fails[d] = 0 /\ (logs[d] = 0 <=> verdict[d] = "none")
                           /\ logged[d] >= 40 * logs[d]
    BY DEF TrustInit
  <2> QED  BY <1>6, <2>1, <2>2 DEF OnRecord
<1> QED  BY <1>2, <1>3, <1>4, <1>5, <1>7 DEF EvidenceIInv

\* Nothing a device is given a token on can make a recalculation find it limited: 40 for
\* the verdict, nothing off for failures or for its activity.
LEMMA RecalculatedFacts ==
  ASSUME RecordTypes, OnRecord, NEW d \in Devices, logs[d] > 0
  PROVE  LevelFor(RecalculatedScore(d)) # "limited"
<1>0. /\ logs[d] \in Nat /\ logged[d] \in Nat /\ fails[d] = 0 /\ logged[d] >= 40 * logs[d]
      /\ verdict[d] = "MEETS_DEVICE_INTEGRITY" /\ Days[d] \in Nat
  BY TrustAssumption DEF RecordTypes, OnRecord
<1>1. ActivityScore(logs[d], logged[d]) \in Nat
  BY <1>0 DEF ActivityScore, If
<1> DEFINE a == VerdictScore[verdict[d]]
           b == IF fails[d] > 3 THEN 30 ELSE 10 * fails[d]
           c == If(keyed[d], 25)
           e == If(level[d] = "standard", 10)
           g == If(Days[d] > 60, 5)
           h == SeniorityScore(Days[d])
           k == ActivityScore(logs[d], logged[d])
           n == a - b + c + e + g + h + k
<1>2. a = 40 /\ b = 0
  BY <1>0 DEF VerdictScore
<1>3. c \in Nat /\ e \in Nat /\ g \in Nat /\ h \in Nat
  BY DEF If, SeniorityScore
<1>4. RecalculatedScore(d) = Within0To100(n)
  BY DEF RecalculatedScore
<1>5. n \in Int /\ n >= 40
  <2>1. k \in Nat
    BY <1>1
  <2> HIDE DEF a, b, c, e, g, h, k
  <2> QED  BY <1>2, <1>3, <2>1
<1> HIDE DEF n
<1> QED  BY <1>4, <1>5 DEF Within0To100, LevelFor

LEMMA EvidenceSufficesFacts == EvidenceIInv => EvidenceComesWithTokens
<1> SUFFICES ASSUME EvidenceIInv PROVE EvidenceComesWithTokens
  OBVIOUS
<1>1. ASSUME NEW f \in Prints, NEW t \in ProvisionTypes PROVE recent[f][t] <= tokens[f]
  <2>1. t \in Types /\ tokens[f] \in Nat
    BY DEF EvidenceIInv, RecordTypes, Types
  <2>2. recent[f][t] <= IF t = "hardware_key_missing" THEN tokens[f] ELSE 0
    BY DEF EvidenceIInv, OnRecord
  <2>3. recent[f][t] \in Nat
    BY <2>1 DEF EvidenceIInv, RecordTypes
  <2> QED  BY <2>1, <2>2, <2>3
<1> QED  BY <1>1, RecalculatedFacts DEF EvidenceIInv, OnRecord, EvidenceComesWithTokens

\* What is on record of devices and fingerprints, and what sessions are about to add.
THEOREM TrustEvidenceInvariance == TrustSpec => []EvidenceIInv
<1>1. TrustInit => EvidenceIInv
  BY EvidenceInitFacts
<1>2. EvidenceIInv /\ [TrustNext]_trustVars => EvidenceIInv'
  BY EvidenceNextFacts
<1> QED  BY <1>1, <1>2, PTL DEF TrustSpec

\* The types of the tables, the sessions of the checkpoints and the scan.
THEOREM TrustTypeCorrect == TrustSpec => []TrustTypeOK
<1>1. EvidenceIInv => TrustTypeOK
  BY DEF EvidenceIInv, SessionTypes, RecordTypes, ScanSound, TrustTypeOK
<1> QED  BY <1>1, TrustEvidenceInvariance, PTL

\* For any number of devices, fingerprints and sessions: what a checkpoint has on record
\* came with a token, and a recalculation does not find such a device limited.
THEOREM TrustEvidenceComesWithTokens == TrustSpec => []EvidenceComesWithTokens
BY EvidenceSufficesFacts, TrustEvidenceInvariance, PTL

-----------------------------------------------------------------------------
(* Both, as MCTrust composes them.                                         *)

GateIInv == IdIInv /\ LateIInv /\ ScanTypes /\ EvidenceIInv

\* The components disturb each other in nothing.
THEOREM GateInvariance == Spec => []GateIInv
<1>1. Init => GateIInv
  <2>1. IdentityInit => IdIInv
    BY DEF IdentityInit, IdIInv, IdentityTypeOK, RecordsConfirmed, RequestConfirmed, IdTypes
  <2> QED  BY <2>1, LateInitFacts, EvidenceInitFacts DEF Init, GateIInv
<1>2. GateIInv /\ [Next]_gateVars => GateIInv'
  <2> SUFFICES ASSUME GateIInv, [Next]_gateVars PROVE GateIInv'
    OBVIOUS
  <2>1. [IdentityNext]_identityVars /\ [TrustNext]_trustVars
    BY DEF Next, Identifying, Trusting, gateVars
  <2> QED
    BY <2>1, IdentityNextFacts, TrustNextFacts, ScanFacts, EvidenceNextFacts DEF GateIInv
<1> QED  BY <1>1, <1>2, PTL DEF Spec

\* The types of both components, whichever of them moves.
THEOREM GateTypeCorrect == Spec => []GateTypeOK
<1>1. GateIInv => GateTypeOK
  BY DEF GateIInv, IdIInv, EvidenceIInv, SessionTypes, RecordTypes, ScanSound, TrustTypeOK,
         GateTypeOK
<1> QED  BY <1>1, GateInvariance, PTL

\* What both checks before a token promise, whichever of them moves.
THEOREM GatePromisesKept ==
  Spec => [](EligibleWasConfirmed /\ AtMostOneLateToken /\ EvidenceComesWithTokens)
<1>1. GateIInv => EligibleWasConfirmed /\ AtMostOneLateToken
  BY EligibleFacts DEF GateIInv, LateIInv
<1>2. GateIInv => EvidenceComesWithTokens
  BY EvidenceSufficesFacts DEF GateIInv
<1> QED  BY <1>1, <1>2, GateInvariance, PTL
=============================================================================
