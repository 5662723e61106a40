------------------------ MODULE IdentityVerification ------------------------
(***************************************************************************)
(* Identity verification of one user: NIN, BVN and face, each request in a *)
(* database session of its own that asks the provider while it is open.    *)
(* Only sessions that end well leave anything behind.                      *)
(***************************************************************************)
EXTENDS Naturals

CONSTANTS Verifiers, \* requests of the user under way at once
          RowLimit   \* bound: rows of a type before no new verification starts

ASSUME RowLimitAssumption == RowLimit \in Nat

VARIABLES
  verifiedRows, \* committed identity_verifications with status "verified", by type
  failedRows,   \* those with status "failed"
  flags,        \* what users says is verified: nin_verified, bvn_verified, face_verified
  confirmed,    \* what the provider has confirmed, whether or not it was recorded
  matched       \* types of identity a face has been recorded to match

VARIABLES
  idStage,      \* where each request is
  idAsks,       \* "nin", "bvn", or "face"
  idAgainst,    \* the type of identity a face is compared with
  idResult      \* what the request has flushed

idStore == <<verifiedRows, failedRows, flags, confirmed, matched>>
idRequest == <<idStage, idAsks, idAgainst, idResult>>
identityVars == <<idStore, idRequest>>

IdTypes == {"nin", "bvn"}
Confirmations == {<<"nin", "nin">>, <<"bvn", "bvn">>, <<"face", "nin">>, <<"face", "bvn">>}

IdentityTypeOK ==
  /\ verifiedRows \in [IdTypes -> Nat] /\ failedRows \in [IdTypes -> Nat]
  /\ flags \in SUBSET {"nin", "bvn", "face"}
  /\ confirmed \in SUBSET Confirmations
  /\ matched \in SUBSET IdTypes
  /\ idStage \in [Verifiers -> {"idle", "asking", "answered", "flushed"}]
  /\ idAsks \in [Verifiers -> {"nin", "bvn", "face"}]
  /\ idAgainst \in [Verifiers -> IdTypes]
  /\ idResult \in [Verifiers -> {"pending", "verified", "failed"}]

IdentityInit ==
  /\ verifiedRows = [t \in IdTypes |-> 0] /\ failedRows = [t \in IdTypes |-> 0]
  /\ flags = {} /\ confirmed = {} /\ matched = {}
  /\ idStage = [v \in Verifiers |-> "idle"]
  /\ idAsks = [v \in Verifiers |-> "nin"] /\ idAgainst = [v \in Verifiers |-> "nin"]
  /\ idResult = [v \in Verifiers |-> "pending"]

-----------------------------------------------------------------------------
IdReturns(v) ==
  /\ idStage' = [idStage EXCEPT ![v] = "idle"]
  /\ idAsks' = [idAsks EXCEPT ![v] = "nin"] /\ idAgainst' = [idAgainst EXCEPT ![v] = "nin"]
  /\ idResult' = [idResult EXCEPT ![v] = "pending"]

Opens(v, what, t) ==
  /\ idStage[v] = "idle"
  /\ idStage' = [idStage EXCEPT ![v] = "asking"]
  /\ idAsks' = [idAsks EXCEPT ![v] = what] /\ idAgainst' = [idAgainst EXCEPT ![v] = t]
  /\ UNCHANGED <<idStore, idResult>>

\* A pending row is inserted; no one else ever sees it pending.
InitiateVerification(v, t) ==
  verifiedRows[t] + failedRows[t] < RowLimit /\ Opens(v, t, t)

\* scalar_one_or_none: a face can be compared when the type has one verified row.
MutantComparable(t) == TRUE
Comparable(t) == verifiedRows[t] = 1

VerifyFace(v, t) == Comparable(t) /\ Opens(v, "face", t)

\* No row is a ValidationError, two or more are a MultipleResultsFound.
RefuseFace(v, t) ==
  idStage[v] = "idle" /\ ~Comparable(t) /\ UNCHANGED identityVars

\* verify_nin, verify_bvn and verify_face of the provider, each one HTTP request:
\* confirmed, denied, or an error, which the service turns into a failed result.
Answered(v, result) ==
  /\ idStage[v] = "asking"
  /\ idStage' = [idStage EXCEPT ![v] = "answered"]
  /\ idResult' = [idResult EXCEPT ![v] = result]
  /\ UNCHANGED <<verifiedRows, failedRows, flags, matched, idAsks, idAgainst>>

ProviderConfirms(v) ==
  /\ Answered(v, "verified")
  /\ confirmed' = confirmed \cup {<<idAsks[v], idAgainst[v]>>}

MutantUnknownResult == "denied"
MutantResultOfDenial == "verified"
ResultOfDenial == "failed"
ProviderDenies(v) == Answered(v, ResultOfDenial) /\ UNCHANGED confirmed

\* The UPDATE of the user's row locks it till the session ends.
UserRowFree(v) == \A w \in Verifiers \ {v} :
                    ~ (idStage[w] = "flushed" /\ idResult[w] = "verified")

FlushResult(v) ==
  /\ idStage[v] = "answered"
  /\ idResult[v] = "verified" => UserRowFree(v)
  /\ idStage' = [idStage EXCEPT ![v] = "flushed"]
  /\ UNCHANGED <<idStore, idAsks, idAgainst, idResult>>

OneMore(r, v) == [r EXCEPT ![idAsks[v]] = @ + 1]

\* A mismatch leaves face_verified of an earlier match as it is.
RecordResult(v) ==
  /\ idStage[v] = "flushed"
  /\ flags' = IF idResult[v] = "verified" THEN flags \cup {idAsks[v]} ELSE flags
  /\ IF idAsks[v] = "face"
     THEN /\ matched' = IF idResult[v] = "verified"
                        THEN matched \cup {idAgainst[v]} ELSE matched
          /\ UNCHANGED <<verifiedRows, failedRows>>
     ELSE /\ verifiedRows' = IF idResult[v] = "verified"
                             THEN OneMore(verifiedRows, v) ELSE verifiedRows
          /\ failedRows' = IF idResult[v] = "failed"
                           THEN OneMore(failedRows, v) ELSE failedRows
          /\ UNCHANGED matched
  /\ IdReturns(v)
  /\ UNCHANGED confirmed

\* The request or its process is lost: what the provider said is forgotten.
IdLost(v) == idStage[v] # "idle" /\ IdReturns(v) /\ UNCHANGED idStore

IdStep(v) == ProviderConfirms(v) \/ ProviderDenies(v) \/ FlushResult(v) \/ RecordResult(v)

IdentityNext ==
  \E v \in Verifiers :
    \/ \E t \in IdTypes : InitiateVerification(v, t) \/ VerifyFace(v, t) \/ RefuseFace(v, t)
    \/ IdStep(v) \/ IdLost(v)

IdentitySpec == IdentityInit /\ [][IdentityNext]_identityVars

-----------------------------------------------------------------------------
\* can_user_provision_token
CanProvisionToken == "nin" \in flags /\ "face" \in flags

\* Whoever may hold tokens had the NIN confirmed by the provider, and a face
\* matched by the provider with a document, NIN or BVN, that the provider had
\* confirmed and that is on record, whatever denials and lost requests intervene.
EligibleWasConfirmed ==
  CanProvisionToken =>
    /\ <<"nin", "nin">> \in confirmed
    /\ \E t \in matched : /\ {<<t, t>>, <<"face", t>>} \subseteq confirmed
                             /\ verifiedRows[t] > 0
=============================================================================
