-------------------------- MODULE SettlementProofs --------------------------
(* Theorems about Settlement, for any sessions on any processes.             *)
EXTENDS Settlement, TLAPS

\* A session with an answer holds the id of a transfer Nomba has accepted: what
\* SettledWasAccepted needs to be inductive.
AnswerIsAccepted == \A s \in Sessions : pc[s] = "answered" => transfer # "none"

IInv == /\ TypeOK
        /\ RecordedOnce
        /\ LatestRowDecides
        /\ SettledWasAccepted
        /\ AnswerIsAccepted

-----------------------------------------------------------------------------
\* Ending a session keeps the types of what it owns and leaves no answer behind.
LEMMA EndFacts ==
  ASSUME TypeOK, NEW s \in Sessions, End(s)
  PROVE  /\ pc' \in [Sessions -> Places]
         /\ swallows' \in [Sessions -> BOOLEAN]
         /\ attempts' \in [Sessions -> Nat]
         /\ \A t \in Sessions : pc'[t] = "answered" => pc[t] = "answered"
BY DEF TypeOK, End, Goto, Places

\* A step that leaves the committed rows and Nomba alone keeps the invariant, if
\* it gives no session an answer.
LEMMA QuietFacts ==
  ASSUME IInv, UNCHANGED <<status, rows, transfer>>,
         pc' \in [Sessions -> Places],
         swallows' \in [Sessions -> BOOLEAN],
         attempts' \in [Sessions -> Nat],
         \A t \in Sessions : pc'[t] = "answered" => pc[t] = "answered"
  PROVE  IInv'
BY DEF IInv, TypeOK, RecordedOnce, LatestRowDecides, SettledWasAccepted, AnswerIsAccepted

LEMMA RollbackFacts ==
  ASSUME IInv, NEW s \in Sessions, Rollback(s)
  PROVE  IInv'
<1>1. TypeOK /\ End(s) /\ UNCHANGED <<status, rows, transfer>>
  BY DEF IInv, Rollback
<1> QED  BY <1>1, EndFacts, QuietFacts

\* What a session's commit of a new row does to the committed state: the status
\* goes with the row, and a row with the transfer is the first one.
LEMMA CommitFacts ==
  ASSUME IInv, NEW s \in Sessions, NEW result \in {"completed", "failed"},
         rows' = Append(rows, NewRow(s, result)),
         status' = IF result = "completed" THEN "settled" ELSE "settlement_failed",
         result = "completed" => TransferIsNew /\ transfer # "none",
         End(s), UNCHANGED transfer
  PROVE  IInv'
<1> DEFINE r == NewRow(s, result)
<1>1. r \in Rows /\ r.status = result /\ (r.transfer <=> result = "completed")
  BY DEF IInv, TypeOK, NewRow, Rows
<1>2. rows \in Seq(Rows) /\ rows' = Append(rows, r)
  BY DEF IInv, TypeOK
<1> HIDE DEF r
<1>3. /\ rows' \in Seq(Rows)
      /\ Len(rows') = Len(rows) + 1
      /\ Len(rows) \in Nat
      /\ rows'[Len(rows')] = r
      /\ \A i \in 1..Len(rows) : rows'[i] = rows[i]
  BY <1>1, <1>2
<1>4. /\ pc' \in [Sessions -> Places]
      /\ swallows' \in [Sessions -> BOOLEAN]
      /\ attempts' \in [Sessions -> Nat]
      /\ \A t \in Sessions : pc'[t] = "answered" => pc[t] = "answered"
  BY EndFacts DEF IInv
<1>5. TypeOK'
  BY <1>3, <1>4 DEF IInv, TypeOK
<1>6. RecordedOnce'
  <2> SUFFICES ASSUME NEW i \in 1..Len(rows'), NEW j \in 1..Len(rows'),
                      rows'[i].transfer, rows'[j].transfer
               PROVE  i = j
    BY DEF RecordedOnce
  <2>1. CASE result = "completed"
    <3>1. \A k \in 1..Len(rows) : ~rows'[k].transfer
      BY <2>1, <1>3 DEF TransferIsNew
    <3> QED  BY <3>1, <1>3
  <2>2. CASE result = "failed"
    <3>1. ~rows'[Len(rows')].transfer  BY <2>2, <1>1, <1>3
    <3>2. i \in 1..Len(rows) /\ j \in 1..Len(rows)  BY <3>1, <1>3
    <3> QED  BY <3>2, <1>3 DEF IInv, RecordedOnce
  <2> QED  BY <2>1, <2>2
<1>7. LatestRowDecides'
  BY <1>1, <1>3 DEF LatestRowDecides
<1>8. SettledWasAccepted'
  <2>1. CASE result = "completed"  BY <2>1 DEF SettledWasAccepted
  <2>2. CASE result = "failed"
    <3>1. status' # "settled"  BY <2>2
    <3>2. \A i \in 1..Len(rows') : rows'[i].transfer => \E k \in 1..Len(rows) : rows[k].transfer
      BY <2>2, <1>1, <1>3
    <3> QED  BY <3>1, <3>2 DEF IInv, SettledWasAccepted
  <2> QED  BY <2>1, <2>2
<1>9. AnswerIsAccepted'
  BY <1>4 DEF IInv, AnswerIsAccepted
<1> QED  BY <1>5, <1>6, <1>7, <1>8, <1>9 DEF IInv

\* A request to Nomba starts the only transfer there is.
LEMMA RequestFacts ==
  ASSUME IInv, NEW s \in Sessions, NEW place \in {"answered", "failed"},
         transfer' \in {transfer, Accepted},
         place = "answered" => transfer' = Accepted,
         Goto(s, place), UNCHANGED <<status, rows, swallows, attempts>>
  PROVE  IInv'
<1>1. /\ Accepted \in {"pending", "paid", "failed"}
      /\ transfer # "none" => transfer' # "none"
      /\ transfer' \in {"none", "pending", "paid", "failed"}
  BY DEF IInv, TypeOK, Accepted
<1>2. TypeOK'
  BY <1>1 DEF IInv, TypeOK, Goto, Places
<1>3. RecordedOnce' /\ LatestRowDecides' /\ SettledWasAccepted'
  BY <1>1 DEF IInv, RecordedOnce, LatestRowDecides, SettledWasAccepted
<1>4. AnswerIsAccepted'
  BY <1>1 DEF IInv, TypeOK, AnswerIsAccepted, Goto
<1> QED  BY <1>2, <1>3, <1>4 DEF IInv

\* A webhook's handler marks the transaction and its only settlement alike.
LEMMA WebhookFacts ==
  ASSUME IInv, NEW result \in {"completed", "failed"},
         rows' = Marked(result), Len(rows) <= 1, transfer # "none",
         status' = IF result = "completed" THEN "settled" ELSE "settlement_failed",
         UNCHANGED <<transfer, session>>
  PROVE  IInv'
<1>1. rows \in Seq(Rows) /\ Len(rows) \in Nat
  BY DEF IInv, TypeOK
<1>2. /\ rows' \in Seq(Rows)
      /\ Len(rows') <= 1 /\ Len(rows') \in Nat
      /\ Len(rows') = 1 => rows'[1].status = result
  <2>1. CASE rows = <<>>  BY <2>1, <1>1 DEF Marked
  <2>2. CASE rows # <<>>
    <3> DEFINE r == [status |-> result, attempts |-> rows[1].attempts,
                     transfer |-> rows[1].transfer \/ result = "completed"]
    <3>1. rows[1] \in Rows  BY <1>1, <2>2
    <3>2. r \in Rows /\ r.status = result
      <4>1. rows[1].attempts \in Nat /\ rows[1].transfer \in BOOLEAN  BY <3>1 DEF Rows
      <4> QED  BY <4>1 DEF Rows
    <3>3. rows' = <<r>>  BY <2>2 DEF Marked
    <3> HIDE DEF r
    <3> QED  BY <3>2, <3>3
  <2> QED  BY <2>1, <2>2
<1>3. TypeOK'  BY <1>2 DEF IInv, TypeOK, session
<1>4. RecordedOnce'  BY <1>2 DEF RecordedOnce
<1>5. LatestRowDecides'
  <2>1. Len(rows') > 0 => Len(rows') = 1
    <3>1. \A n \in Nat : n <= 1 /\ n > 0 => n = 1  OBVIOUS
    <3> QED  BY <3>1, <1>2
  <2>2. Len(rows') > 0 => rows'[Len(rows')].status = result  BY <1>2, <2>1
  <2> QED  BY <2>2 DEF LatestRowDecides
<1>6. SettledWasAccepted' /\ AnswerIsAccepted'
  BY DEF IInv, SettledWasAccepted, AnswerIsAccepted, session
<1> QED  BY <1>3, <1>4, <1>5, <1>6 DEF IInv

-----------------------------------------------------------------------------
LEMMA InitFacts == Init => IInv
BY DEF Init, IInv, TypeOK, Rows, Places, RecordedOnce, LatestRowDecides,
       SettledWasAccepted, AnswerIsAccepted

LEMMA StepFacts ==
  ASSUME IInv, NEW s \in Sessions, Step(s)
  PROVE  IInv'
<1>1. CASE CheckStatus(s) \/ AcquireAdvisoryLock(s)
  <2>1. /\ UNCHANGED <<status, rows, transfer, swallows, attempts>>
        /\ pc' = [pc EXCEPT ![s] = "checked"] \/ pc' = [pc EXCEPT ![s] = "locked"]
    BY <1>1 DEF CheckStatus, AcquireAdvisoryLock, Goto
  <2> QED  BY <2>1, QuietFacts DEF IInv, TypeOK, Places
<1>2. CASE RefuseStatus(s) \/ ReturnExisting(s) \/ RefuseLock(s) \/ Conflict(s) \/ ForgetFailure(s)
  BY <1>2, RollbackFacts
     DEF RefuseStatus, ReturnExisting, RefuseLock, Conflict, ForgetFailure
<1>3. CASE CheckExisting(s)
  <2>1. attempts' \in [Sessions -> Nat]
    <3>1. rows \in Seq(Rows) /\ attempts \in [Sessions -> Nat]  BY DEF IInv, TypeOK
    <3>2. CASE rows = <<>> /\ attempts' = [attempts EXCEPT ![s] = 1]  BY <3>1, <3>2
    <3>3. CASE Len(rows) = 1 /\ attempts' = [attempts EXCEPT ![s] = rows[1].attempts + 1]
      <4>1. rows[1] \in Rows
        <5>1. 1 \in 1..Len(rows)  BY <3>3
        <5>2. \A i \in 1..Len(rows) : rows[i] \in Rows  BY <3>1
        <5> QED  BY <5>1, <5>2
      <4>2. rows[1].attempts \in Nat  BY <4>1 DEF Rows
      <4> QED  BY <3>1, <3>3, <4>2
    <3> QED  BY <1>3, <3>2, <3>3 DEF CheckExisting
  <2> QED  BY <1>3, <2>1, QuietFacts DEF IInv, TypeOK, Places, CheckExisting, Goto
<1>4. CASE TransferAnswered(s)
  BY <1>4, RequestFacts DEF TransferAnswered
<1>5. CASE TransferFails(s)
  BY <1>5, RequestFacts DEF TransferFails, AfterFailure
<1>6. CASE Complete(s)
  BY <1>6, CommitFacts DEF Complete, IInv, AnswerIsAccepted
<1>7. CASE RecordFailure(s)
  BY <1>7, CommitFacts DEF RecordFailure
<1> QED  BY <1>1, <1>2, <1>3, <1>4, <1>5, <1>6, <1>7 DEF Step

LEMMA NextFacts == IInv /\ [Next]_vars => IInv'
<1> SUFFICES ASSUME IInv, [Next]_vars  PROVE IInv'
  OBVIOUS
<1>1. ASSUME NEW s \in Sessions,
             ProcessSettlement(s) \/ ProcessBatchSettlements(s) \/ RetryFailedSettlements(s)
      PROVE  IInv'
  <2>1. PICK b \in BOOLEAN : Begin(s, b)
    BY <1>1 DEF ProcessSettlement, ProcessBatchSettlements, RetryFailedSettlements
  <2> QED  BY <2>1, QuietFacts DEF IInv, TypeOK, Places, Begin
<1>2. ASSUME NEW s \in Sessions, Step(s)  PROVE IInv'
  BY <1>2, StepFacts
<1>3. ASSUME NEW s \in Sessions, MarkSettling(s)  PROVE IInv'
  BY <1>3, QuietFacts DEF IInv, TypeOK, Places, MarkSettling, Goto
<1>4. ASSUME NEW s \in Sessions, Crash(s)  PROVE IInv'
  BY <1>4, RollbackFacts DEF Crash
<1>5. CASE TransferEnds
  BY <1>5 DEF TransferEnds, session, IInv, TypeOK, RecordedOnce, LatestRowDecides,
              SettledWasAccepted, AnswerIsAccepted
<1>6. CASE ProcessTransferSuccessWebhook
  BY <1>6, WebhookFacts DEF ProcessTransferSuccessWebhook
<1>7. CASE ProcessTransferFailedWebhook
  BY <1>7, WebhookFacts DEF ProcessTransferFailedWebhook, FailedRow
<1>8. CASE UNCHANGED vars
  BY <1>8 DEF vars, session, IInv, TypeOK, RecordedOnce, LatestRowDecides,
              SettledWasAccepted, AnswerIsAccepted
<1> QED  BY <1>1, <1>2, <1>3, <1>4, <1>5, <1>6, <1>7, <1>8 DEF Next

\* The strengthened invariant holds in every reachable state.
THEOREM SettlementInvariance == Spec => []IInv
BY InitFacts, NextFacts, PTL DEF Spec

\* The variables keep their types.
THEOREM SettlementTypeCorrect == Spec => []TypeOK
BY SettlementInvariance, PTL DEF IInv

\* However many sessions of however many processes settle the transaction, one
\* settlement at most records its transfer.
THEOREM SettlementRecordedOnce == Spec => []RecordedOnce
BY SettlementInvariance, PTL DEF IInv

\* The transaction's status follows its latest settlement: a transaction with a
\* settlement is never found "verified" by process_settlement again.
THEOREM SettlementLatestRowDecides == Spec => []LatestRowDecides
BY SettlementInvariance, PTL DEF IInv

\* What is called settled has been accepted by Nomba.
THEOREM SettlementWasAccepted == Spec => []SettledWasAccepted
BY SettlementInvariance, PTL DEF IInv

\* Only a task that keeps its failure, or the failure of the transfer itself,
\* takes a settled transaction back.
THEOREM SettlementOnlyStaleFailuresUnsettle == Spec => OnlyStaleFailuresUnsettle
<1> DEFINE Excused ==
      status = "settled" /\ status' # "settled"
        => transfer = "failed" \/ \E s \in Sessions : pc[s] = "failed" /\ swallows[s]
<1>1. ASSUME [Next]_vars  PROVE Excused
  <2>1. ASSUME NEW s \in Sessions, Step(s)  PROVE Excused
    BY <2>1 DEF Step, CheckStatus, RefuseStatus, CheckExisting, ReturnExisting,
       AcquireAdvisoryLock, RefuseLock, TransferAnswered, TransferFails, Complete,
       Conflict, RecordFailure, KeepsFailure, ForgetFailure, Rollback
  <2> QED
    BY <1>1, <2>1 DEF Next, vars, Begin, ProcessSettlement, ProcessBatchSettlements,
       RetryFailedSettlements, MarkSettling, Crash, Rollback, TransferEnds,
       ProcessTransferSuccessWebhook, ProcessTransferFailedWebhook
<1> QED  BY <1>1, PTL DEF Spec, OnlyStaleFailuresUnsettle
=============================================================================
