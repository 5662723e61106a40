----------------------------- MODULE DeviceTrust -----------------------------
(***************************************************************************)
(* Device trust, fraud signals and the blacklist: the checks between a     *)
(* request for an offline token and its issue, each request in a database  *)
(* session of its own under READ COMMITTED, next to the scan that lists    *)
(* devices every 30 minutes and the manual listing.  Nothing of a session  *)
(* that raises is kept.  Nothing reads device_trust_score, so it is not    *)
(* kept either: a recalculation is what it would find.                     *)
(***************************************************************************)
EXTENDS Integers, FiniteSets, Functions

CONSTANTS Devices,      \* rows of devices, all of one user
          Prints,       \* fingerprint hashes phones send, not compared with the rows
          Checks,       \* sessions that may run a checkpoint at once
          Days,         \* days_registered of each device
          SettlementFindings,  \* what settlement data may show: sets of signal types
          SendsPayload,        \* the route passes the phone's payload on
          SetsPrintHash,       \* a new row is given its device_fingerprint_hash
          TokenLimit,   \* bound: tokens issued before no new request comes
          SignalLimit   \* bound: recent signals before no new settlement check

SettlementTypes == {"token_replay", "serial_mismatch", "invalid_signature",
                    "amount_manipulation", "double_spend_attempt"}
ProvisionTypes == {"play_integrity_no_token", "play_integrity_fail",
                   "hardware_key_missing", "low_trust_score"}
Types == SettlementTypes \cup ProvisionTypes

ASSUME TrustAssumption ==
  /\ Devices # {} /\ Prints # {} /\ IsFiniteSet(Devices) /\ IsFiniteSet(Prints)
  /\ Days \in [Devices -> Nat]
  /\ SettlementFindings \subseteq SUBSET SettlementTypes
  /\ SendsPayload \in BOOLEAN /\ SetsPrintHash \in BOOLEAN
  /\ TokenLimit \in Nat /\ SignalLimit \in Nat

VARIABLES
  recent,   \* committed signals of the last 7 days, counted by type
  listed,   \* committed rows of blacklisted_devices
  level,    \* trust_level of each row, "absent" before it is inserted
  verdict,  \* play_integrity_last_verdict
  fails,    \* play_integrity_fail_count
  keyed,    \* is_hardware_backed_key
  logs,     \* committed rows of device_activity_log
  logged,   \* the sum of the scores they note
  tokens,   \* tokens issued to each fingerprint
  late      \* those a session issued to a fingerprint that was listed meanwhile

VARIABLES
  stage,    \* where each session is
  kind,     \* the checkpoint it runs
  row,      \* the device it has loaded
  print,    \* the fingerprint it was sent
  seen,     \* trust_level of the object it has loaded
  attested, \* whether it was sent a Play Integrity token
  backed,   \* whether it was told of a hardware-backed key
  found,    \* signals it records
  history,  \* the historical score it has read
  adds      \* whether it has inserted a row in blacklisted_devices

VARIABLES
  scanning, \* "idle", "listing", or "inserting" a row
  todo,     \* candidates the scan has still to look at
  scanned,  \* candidate it is about to insert, as a set
  scanAdds  \* rows it has inserted

rows == <<level, verdict, fails, keyed, logs, logged>>
issued == <<tokens, late>>
session == <<stage, kind, row, print, seen, attested, backed, found, history, adds>>
scan == <<scanning, todo, scanned, scanAdds>>
trustVars == <<recent, listed, rows, issued, session, scan>>

Levels == {"absent", "standard", "revoked"}
Stages == {"idle", "begun", "evaluated", "trusted", "recorded", "offending", "deciding"}

TrustTypeOK ==
  /\ recent \in [Prints -> [Types -> Nat]]
  /\ listed \in SUBSET Prints
  /\ level \in [Devices -> Levels]
  /\ verdict \in [Devices -> {"none", "MEETS_DEVICE_INTEGRITY"}]
  /\ fails \in [Devices -> Nat]
  /\ keyed \in [Devices -> BOOLEAN]
  /\ logs \in [Devices -> Nat] /\ logged \in [Devices -> Nat]
  /\ tokens \in [Prints -> Nat]
  /\ late \in [Prints -> [Checks -> Nat]]
  /\ stage \in [Checks -> Stages]
  /\ kind \in [Checks -> {"provisioning", "settlement"}]
  /\ row \in [Checks -> Devices] /\ print \in [Checks -> Prints]
  /\ seen \in [Checks -> Levels]
  /\ attested \in [Checks -> BOOLEAN] /\ backed \in [Checks -> BOOLEAN]
  /\ found \in [Checks -> SUBSET Types]
  /\ history \in [Checks -> Nat]
  /\ adds \in [Checks -> BOOLEAN]
  /\ scanning \in {"idle", "listing", "inserting"}
  /\ todo \in SUBSET Prints /\ scanned \in SUBSET todo /\ scanAdds \in SUBSET Prints

AnyDevice == CHOOSE d \in Devices : TRUE
AnyPrint == CHOOSE f \in Prints : TRUE

TrustInit ==
  /\ recent = [f \in Prints |-> [t \in Types |-> 0]]
  /\ listed = {}
  /\ level = [d \in Devices |-> "absent"]
  /\ verdict = [d \in Devices |-> "none"]
  /\ fails = [d \in Devices |-> 0]
  /\ keyed = [d \in Devices |-> FALSE]
  /\ logs = [d \in Devices |-> 0] /\ logged = [d \in Devices |-> 0]
  /\ tokens = [f \in Prints |-> 0]
  /\ late = [f \in Prints |-> [s \in Checks |-> 0]]
  /\ stage = [s \in Checks |-> "idle"]
  /\ kind = [s \in Checks |-> "provisioning"]
  /\ row = [s \in Checks |-> AnyDevice] /\ print = [s \in Checks |-> AnyPrint]
  /\ seen = [s \in Checks |-> "absent"]
  /\ attested = [s \in Checks |-> FALSE] /\ backed = [s \in Checks |-> FALSE]
  /\ found = [s \in Checks |-> {}]
  /\ history = [s \in Checks |-> 0]
  /\ adds = [s \in Checks |-> FALSE]
  /\ scanning = "idle" /\ todo = {} /\ scanned = {} /\ scanAdds = {}

-----------------------------------------------------------------------------
\* The scores.
Within0To100(n) == IF n < 0 THEN 0 ELSE IF n > 100 THEN 100 ELSE n

VerdictScore == [v \in {"none", "NO_TOKEN", "MEETS_DEVICE_INTEGRITY"} |->
                   IF v = "MEETS_DEVICE_INTEGRITY" THEN 40 ELSE 0]
If(b, n) == IF b THEN n ELSE 0

SeniorityScore(n) == IF n > 30 THEN 10 ELSE If(n > 7, 5)

\* DeviceTrustService._calculate_trust_score
TrustScore(integrity, hardware, lvl, days) ==
  Within0To100((IF integrity THEN 40 ELSE -30) + If(hardware, 25)
               + If(lvl = "standard", 15) + SeniorityScore(days))

\* DeviceTrustService._get_limits, the amounts left out
Limits(integrity, hardware, n) ==
  IF n < 40 \/ ~integrity THEN "blocked"
  ELSE IF hardware THEN "hardware_pass" ELSE "software_pass"

IsTrusted(integrity, hardware, n) ==
  n >= 40 /\ Limits(integrity, hardware, n) # "blocked"

\* the worker's _calculate_activity_score over n activities whose scores sum to m
ActivityScore(n, m) ==
  IF n = 0 THEN 0
  ELSE If(n >= 10, 5) + (IF m >= 60 * n THEN 5 ELSE If(m < 30 * n, -10))

\* the worker's _calculate_device_trust_score
RecalculatedScore(d) ==
  Within0To100(VerdictScore[verdict[d]]
               - (IF fails[d] > 3 THEN 30 ELSE 10 * fails[d])
               + If(keyed[d], 25)
               + If(level[d] = "standard", 10)
               + If(Days[d] > 60, 5) + SeniorityScore(Days[d])
               + ActivityScore(logs[d], logged[d]))

\* _determine_trust_level
LevelFor(n) == IF n >= 70 THEN "elevated" ELSE IF n >= 40 THEN "standard" ELSE "limited"

SignalScore == [t \in Types |->
  CASE t = "token_replay" -> 50
    [] t \in {"double_spend_attempt", "amount_manipulation"} -> 45
    [] t = "invalid_signature" -> 40
    [] t = "serial_mismatch" -> 35
    [] t = "play_integrity_fail" -> 30
    [] t = "play_integrity_no_token" -> 25
    [] t = "hardware_key_missing" -> 15
    [] OTHER -> 10]

BlocksAt(n) == n >= 60

Weighed(S) == SumFunctionOnSet(SignalScore, S)
HistoricalScore(f) == SumFunction([t \in Types |-> SignalScore[t] * recent[f][t]])

\* 3 signals, or 2 double spends; 3 integrity failures are 3 signals.
Offending(count) ==
  \/ SumFunction(count) >= 3
  \/ count["double_spend_attempt"] >= 2

-----------------------------------------------------------------------------
\* Devices.
RowHeld(d) == \E s \in Checks : /\ kind[s] = "provisioning" /\ row[s] = d
                                /\ stage[s] \in {"trusted", "recorded", "offending", "deciding"}

RegisterDevice(d) ==
  /\ level[d] = "absent" /\ SetsPrintHash
  /\ level' = [level EXCEPT ![d] = "standard"]
  /\ UNCHANGED <<recent, listed, verdict, fails, keyed, logs, logged,
                 issued, session, scan>>

RevokeDevice(d) ==
  /\ level[d] = "standard" /\ ~RowHeld(d)
  /\ level' = [level EXCEPT ![d] = "revoked"]
  /\ UNCHANGED <<recent, listed, verdict, fails, keyed, logs, logged,
                 issued, session, scan>>

-----------------------------------------------------------------------------
\* A session ends, and whatever it has not committed is gone.
Leave(s) ==
  /\ stage' = [stage EXCEPT ![s] = "idle"]
  /\ kind' = [kind EXCEPT ![s] = "provisioning"]
  /\ row' = [row EXCEPT ![s] = AnyDevice] /\ print' = [print EXCEPT ![s] = AnyPrint]
  /\ seen' = [seen EXCEPT ![s] = "absent"]
  /\ attested' = [attested EXCEPT ![s] = FALSE]
  /\ backed' = [backed EXCEPT ![s] = FALSE]
  /\ found' = [found EXCEPT ![s] = {}]
  /\ history' = [history EXCEPT ![s] = 0]
  /\ adds' = [adds EXCEPT ![s] = FALSE]

RollBack(s) == Leave(s) /\ UNCHANGED <<recent, listed, rows, issued, scan>>

Enter(s, p) == stage' = [stage EXCEPT ![s] = p]
payload == <<kind, row, print, seen, attested, backed>>
Reading == UNCHANGED <<recent, listed, rows, issued, scan>>

\* provision_token: some device is active, and the one named may be any of the user's.
BeginProvisioning(s) ==
  /\ stage[s] = "idle" /\ Enter(s, "begun")
  /\ SumFunction(tokens) < TokenLimit
  /\ \E d \in Devices : level[d] = "standard"
  /\ \E d \in Devices, f \in Prints, a, h \in BOOLEAN :
       /\ level[d] # "absent" /\ a => SendsPayload
       /\ row' = [row EXCEPT ![s] = d] /\ print' = [print EXCEPT ![s] = f]
       /\ seen' = [seen EXCEPT ![s] = level[d]]
       /\ attested' = [attested EXCEPT ![s] = a] /\ backed' = [backed EXCEPT ![s] = h]
  /\ UNCHANGED <<kind, found, history, adds>> /\ Reading

MutantUnlisted(f) == TRUE
Unlisted(f) == f \notin listed

CheckBlacklist(s) ==
  /\ stage[s] = "begun" /\ Unlisted(print[s])
  /\ Enter(s, "evaluated")
  /\ UNCHANGED <<payload, found, history, adds>> /\ Reading

RefuseListed(s) == stage[s] = "begun" /\ ~Unlisted(print[s]) /\ RollBack(s)

NewScore(s) == TrustScore(attested[s], backed[s], seen[s], Days[row[s]])
Trusted(s) == IsTrusted(attested[s], backed[s], NewScore(s))

\* The result of evaluate_trust has no "verdict": a failure is never "no_token".
ProvisioningSignals(s) ==
  {t \in ProvisionTypes :
     \/ t = "play_integrity_fail" /\ ~attested[s]
     \/ t = "hardware_key_missing" /\ ~backed[s]
     \/ t = "low_trust_score" /\ NewScore(s) < 40}

RowFree(s) == \A r \in Checks \ {s} :
                ~ (/\ kind[r] = "provisioning" /\ row[r] = row[s]
                   /\ stage[r] \in {"trusted", "recorded", "offending", "deciding"})

\* evaluate_trust updates the row of the device, and locks it till the session ends.
EvaluateTrust(s) ==
  /\ stage[s] = "evaluated" /\ RowFree(s) /\ Trusted(s)
  /\ Enter(s, "trusted")
  /\ found' = [found EXCEPT ![s] = ProvisioningSignals(s)]
  /\ UNCHANGED <<payload, history, adds>> /\ Reading

\* The UPDATE that counts the failed check is part of the session that the refusal
\* rolls back, and the fraud checkpoint is not reached.
RefuseUntrusted(s) == stage[s] = "evaluated" /\ RowFree(s) /\ ~Trusted(s) /\ RollBack(s)

\* evaluate_checkpoint_2, which nothing calls: no trust check, no device row.
BeginSettlementCheck(s) ==
  /\ stage[s] = "idle" /\ Enter(s, "trusted")
  /\ kind' = [kind EXCEPT ![s] = "settlement"]
  /\ \E f \in Prints, E \in SettlementFindings :
       /\ SumFunction(recent[f]) < SignalLimit
       /\ print' = [print EXCEPT ![s] = f] /\ found' = [found EXCEPT ![s] = E]
  /\ UNCHANGED <<row, seen, attested, backed, history, adds>> /\ Reading

\* Both checkpoints: the history is read before the session's signals are inserted.
RecordSignals(s) ==
  /\ stage[s] = "trusted"
  /\ history' = [history EXCEPT ![s] = HistoricalScore(print[s])]
  /\ Enter(s, "recorded")
  /\ UNCHANGED <<payload, found, adds>> /\ Reading

\* _check_auto_blacklist: the committed signals and the session's own.
WithOwn(s) == [t \in Types |-> recent[print[s]][t] + If(t \in found[s], 1)]

CheckAutoBlacklist(s) ==
  /\ stage[s] = "recorded"
  /\ Enter(s, IF Offending(WithOwn(s)) /\ print[s] \notin listed
              THEN "offending" ELSE "deciding")
  /\ UNCHANGED <<payload, found, history, adds>> /\ Reading

\* The fingerprint is the primary key: an INSERT waits for another of the same.
KeyFree(f) == /\ \A r \in Checks : ~ (adds[r] /\ print[r] = f)
              /\ f \notin scanAdds

AutoBlacklist(s) ==
  /\ stage[s] = "offending" /\ KeyFree(print[s]) /\ print[s] \notin listed
  /\ adds' = [adds EXCEPT ![s] = TRUE]
  /\ Enter(s, "deciding")
  /\ UNCHANGED <<payload, found, history>> /\ Reading

ListedMeanwhile(s) ==
  stage[s] = "offending" /\ KeyFree(print[s]) /\ print[s] \in listed /\ RollBack(s)

FraudScore(s) == Weighed(found[s]) + history[s]

Blocked(s) == kind[s] = "provisioning" /\ BlocksAt(FraudScore(s))

\* FraudBlockError takes the session's own signals and listing back as well.
MutantSignalsKept(s) == WithOwn(s)
SignalsKept(s) == recent[print[s]]

RefuseFraud(s) ==
  /\ stage[s] = "deciding" /\ Blocked(s)
  /\ recent' = [recent EXCEPT ![print[s]] = SignalsKept(s)]
  /\ Leave(s)
  /\ UNCHANGED <<listed, rows, issued, scan>>

Recorded(s) ==
  /\ recent' = [recent EXCEPT ![print[s]] = WithOwn(s)]
  /\ listed' = IF adds[s] THEN listed \cup {print[s]} ELSE listed

\* The token is inserted and everything is committed.
IssueToken(s) ==
  LET d == row[s]
      f == print[s]
  IN  /\ stage[s] = "deciding" /\ kind[s] = "provisioning" /\ ~Blocked(s)
      /\ Recorded(s)
      /\ tokens' = [tokens EXCEPT ![f] = @ + 1]
      /\ late' = [late EXCEPT ![f][s] = IF f \in listed THEN @ + 1 ELSE @]
      /\ verdict' = [verdict EXCEPT ![d] = "MEETS_DEVICE_INTEGRITY"]
      /\ fails' = [fails EXCEPT ![d] = 0]
      /\ keyed' = [keyed EXCEPT ![d] = backed[s]]
      /\ logs' = [logs EXCEPT ![d] = @ + 1]
      /\ logged' = [logged EXCEPT ![d] = @ + NewScore(s)]
      /\ Leave(s)
      /\ UNCHANGED <<level, scan>>

CommitSettlementCheck(s) ==
  /\ stage[s] = "deciding" /\ kind[s] = "settlement"
  /\ Recorded(s) /\ Leave(s)
  /\ UNCHANGED <<rows, issued, scan>>

\* Too little money, a failed INSERT, a lost connection or process.
Abort(s) == stage[s] # "idle" /\ RollBack(s)

-----------------------------------------------------------------------------
\* scan_for_blacklist_candidates: one session, one commit for all candidates.
MutantCandidates == {}
Candidates == {f \in Prints : Offending(recent[f])}

ScanStart ==
  /\ scanning = "idle" /\ scanning' = "listing"
  /\ todo' = Candidates
  /\ UNCHANGED <<recent, listed, rows, issued, session, scanned, scanAdds>>

ScanLook ==
  /\ scanning = "listing"
  /\ \E f \in todo :
       IF f \in listed
       THEN todo' = todo \ {f} /\ UNCHANGED <<scanning, scanned>>
       ELSE scanning' = "inserting" /\ scanned' = {f} /\ UNCHANGED todo
  /\ UNCHANGED <<recent, listed, rows, issued, session, scanAdds>>

ScanInsert ==
  /\ scanning = "inserting" /\ scanning' = "listing"
  /\ \A f \in scanned : KeyFree(f) /\ f \notin listed
  /\ scanAdds' = scanAdds \cup scanned
  /\ todo' = todo \ scanned
  /\ scanned' = {}
  /\ UNCHANGED <<recent, listed, rows, issued, session>>

ScanEnds == scanning' = "idle" /\ todo' = {} /\ scanned' = {} /\ scanAdds' = {}

\* A candidate listed meanwhile makes the INSERT fail, and the whole scan with it.
ScanConflict ==
  /\ scanning = "inserting" /\ \E f \in scanned : KeyFree(f) /\ f \in listed
  /\ ScanEnds
  /\ UNCHANGED <<recent, listed, rows, issued, session>>

ScanCommit ==
  /\ scanning = "listing" /\ todo = {}
  /\ listed' = listed \cup scanAdds
  /\ ScanEnds
  /\ UNCHANGED <<recent, rows, issued, session>>

\* The task blacklist_device, and DeviceTrustService.blacklist_device.
BlacklistDevice(f) ==
  /\ f \notin listed /\ KeyFree(f)
  /\ listed' = listed \cup {f}
  /\ UNCHANGED <<recent, rows, issued, session, scan>>

\* A signal is 7 days old.
SignalAges(f) ==
  \E t \in Types :
    /\ recent[f][t] > 0
    /\ recent' = [recent EXCEPT ![f][t] = @ - 1]
    /\ UNCHANGED <<listed, rows, issued, session, scan>>

-----------------------------------------------------------------------------
CheckStep(s) ==
  \/ CheckBlacklist(s) \/ RefuseListed(s)
  \/ EvaluateTrust(s) \/ RefuseUntrusted(s)
  \/ RecordSignals(s) \/ CheckAutoBlacklist(s)
  \/ AutoBlacklist(s) \/ ListedMeanwhile(s)
  \/ RefuseFraud(s) \/ IssueToken(s) \/ CommitSettlementCheck(s)

ScanStep == ScanStart \/ ScanLook \/ ScanInsert \/ ScanConflict \/ ScanCommit

TrustNext ==
  \/ \E d \in Devices : RegisterDevice(d) \/ RevokeDevice(d)
  \/ \E s \in Checks : \/ BeginProvisioning(s) \/ BeginSettlementCheck(s)
                       \/ CheckStep(s) \/ Abort(s)
  \/ \E f \in Prints : BlacklistDevice(f) \/ SignalAges(f)
  \/ ScanStep

\* Sessions go on, the scan is in the beat schedule, and a waiting INSERT is
\* next in line once the row it waits for is settled.
TrustFairness ==
  /\ \A s \in Checks : WF_trustVars(CheckStep(s))
  /\ SF_trustVars(ScanStep)

TrustSpec == TrustInit /\ [][TrustNext]_trustVars /\ TrustFairness

-----------------------------------------------------------------------------
\* A listed fingerprint is refused, except by the sessions that had passed the
\* check when it was listed, each of which may still issue one token to it.
AtMostOneLateToken == \A f \in Prints, s \in Checks : late[f][s] <= 1

\* A checkpoint is atomic with the issue it decides on, however sessions overlap: what
\* it has on record of a device or a fingerprint came with a token, at most one signal
\* of a kind and one log entry each, and a device with such a log and no failure on
\* record is never found limited by a recalculation.
EvidenceComesWithTokens ==
  /\ \A f \in Prints : \A t \in ProvisionTypes : recent[f][t] <= tokens[f]
  /\ \A d \in Devices : logs[d] = 0 <=> verdict[d] = "none"
  /\ SumFunction(logs) = SumFunction(tokens)
  /\ \A d \in Devices :
       logs[d] > 0 /\ fails[d] = 0 => LevelFor(RecalculatedScore(d)) # "limited"

\* A fingerprint that stays an offender is listed in the end, by a request or the scan.
OffendersAreListed ==
  \A f \in Prints : Offending(recent[f]) ~> (f \in listed \/ ~Offending(recent[f]))
=============================================================================
