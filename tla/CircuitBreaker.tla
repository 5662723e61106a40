--------------------------- MODULE CircuitBreaker ---------------------------
(***************************************************************************)
(* BaseNombaClient._request: concurrent requests of one client, which      *)
(* share its circuit breaker.  The coroutines of a process interleave only *)
(* where they await: for the answer and between two attempts.              *)
(*                                                                         *)
(* A time is kept as an age, the number of ticks that have passed since,   *)
(* up to the length of the window, beyond which ages make no difference.   *)
(***************************************************************************)
EXTENDS Naturals, Sequences, FiniteSets

CONSTANTS Requests,          \* requests that can be under way at once
          Idempotent,        \* those made with is_idempotent
          FailureThreshold,  \* failure_threshold
          ResetTimeout,      \* reset_timeout_seconds
          Window,            \* window_seconds
          Probes,            \* requests a half-open breaker lets pass
          MaxRetries         \* RetryConfig.max_retries

ASSUME BreakerAssumption ==
  /\ Idempotent \subseteq Requests
  /\ {FailureThreshold, ResetTimeout, Window, Probes, MaxRetries} \subseteq Nat
  /\ FailureThreshold > 0 /\ Window > 0 /\ ResetTimeout <= Window

VARIABLES
  state,             \* of the circuit breaker
  failures,          \* ages of the recorded failures, oldest first
  lastFailure,       \* age of last_failure_time
  halfOpenAttempts,  \* _half_open_attempts
  place,             \* where each request is
  attempt            \* and which attempt it makes

breaker == <<state, failures, lastFailure, halfOpenAttempts>>
breakerVars == <<breaker, place, attempt>>

BreakerTypeOK ==
  /\ state \in {"closed", "open", "half-open"}
  /\ failures \in Seq(0..Window)
  /\ lastFailure \in 0..Window
  /\ halfOpenAttempts \in 0..Probes
  /\ place \in [Requests -> {"idle", "checking", "sent"}]
  /\ attempt \in [Requests -> 0..MaxRetries]

BreakerInit ==
  /\ state = "closed"
  /\ failures = <<>>
  /\ lastFailure = Window
  /\ halfOpenAttempts = 0
  /\ place = [r \in Requests |-> "idle"]
  /\ attempt = [r \in Requests |-> 0]

-----------------------------------------------------------------------------
\* CircuitBreaker.record_failure
Expired(f) == Cardinality({i \in DOMAIN f : f[i] >= Window})

MutantInWindow(f) == f
InWindow(f) == SubSeq(f, Expired(f) + 1, Len(f))

NoteFailure ==
  /\ failures' = Append(InWindow(failures), 0)
  /\ lastFailure' = 0
  /\ state' = IF Len(failures') >= FailureThreshold THEN "open" ELSE state
  /\ UNCHANGED halfOpenAttempts

\* CircuitBreaker.record_success
MutantCleared == failures
Cleared == <<>>

NoteSuccess ==
  /\ failures' = Cleared
  /\ state' = "closed"
  /\ halfOpenAttempts' = 0
  /\ UNCHANGED lastFailure

\* CircuitBreaker.can_execute: its answer, and what it does to the breaker.
ResetDue == lastFailure >= ResetTimeout

ProbesLeft == halfOpenAttempts < Probes

CanExecute == \/ state = "closed"
              \/ state = "open" /\ ResetDue
              \/ state = "half-open" /\ ProbesLeft

Pass ==
  /\ CanExecute
  /\ state' = IF state = "open" THEN "half-open" ELSE state
  /\ halfOpenAttempts' = CASE state = "closed" -> halfOpenAttempts
                           [] state = "open" -> 0
                           [] state = "half-open" -> halfOpenAttempts + 1
  /\ UNCHANGED <<failures, lastFailure>>

-----------------------------------------------------------------------------
Call(r) ==
  /\ place[r] = "idle"
  /\ place' = [place EXCEPT ![r] = "checking"]
  /\ UNCHANGED <<breaker, attempt>>

\* The request returns or raises.
Return(r) == /\ place' = [place EXCEPT ![r] = "idle"]
             /\ attempt' = [attempt EXCEPT ![r] = 0]

Send(r) ==
  /\ place[r] = "checking"
  /\ Pass
  /\ place' = [place EXCEPT ![r] = "sent"]
  /\ UNCHANGED attempt

\* A refused request leaves the breaker as it is.
MutantAgeAfterRefusal == 0
AgeAfterRefusal == lastFailure

Refuse(r) ==
  /\ place[r] = "checking" /\ ~CanExecute
  /\ lastFailure' = AgeAfterRefusal
  /\ Return(r)
  /\ UNCHANGED <<state, failures, halfOpenAttempts>>

Succeed(r) == place[r] = "sent" /\ NoteSuccess /\ Return(r)

\* 5xx answers and transport errors other than those below.
Fail(r) == place[r] = "sent" /\ NoteFailure /\ Return(r)

\* 4xx and 429 answers, and cancellation, raise without being recorded.
EndUnrecorded(r) == place[r] = "sent" /\ Return(r) /\ UNCHANGED breaker

\* After a timeout or a refused connection: a request that may not be repeated is
\* repeated once all the same.
MutantNextAttempt(n) == n
NextAttempt(n) == n + 1

MutantMayRetry(r) == (r \in Idempotent \/ attempt[r] = 0) /\ attempt[r] <= MaxRetries
MayRetry(r) == (r \in Idempotent \/ attempt[r] = 0) /\ NextAttempt(attempt[r]) <= MaxRetries

Retry(r) ==
  /\ place[r] = "sent" /\ MayRetry(r)
  /\ NoteFailure
  /\ place' = [place EXCEPT ![r] = "checking"]
  /\ attempt' = [attempt EXCEPT ![r] = NextAttempt(@)]

GiveUp(r) == place[r] = "sent" /\ ~MayRetry(r) /\ NoteFailure /\ Return(r)

Older(age) == IF age < Window THEN age + 1 ELSE age

Tick ==
  /\ failures' = [i \in 1..Len(failures) |-> Older(failures[i])]
  /\ lastFailure' = Older(lastFailure)
  /\ UNCHANGED <<state, halfOpenAttempts, place, attempt>>

Check(r) == Send(r) \/ Refuse(r)
Answer(r) == Succeed(r) \/ Fail(r) \/ EndUnrecorded(r) \/ Retry(r) \/ GiveUp(r)

BreakerNext == Tick \/ \E r \in Requests : Call(r) \/ Check(r) \/ Answer(r)

\* Time passes, coroutines are scheduled and every request has a timeout.
Progress ==
  /\ WF_breakerVars(Tick)
  /\ \A r \in Requests : WF_breakerVars(Check(r)) /\ WF_breakerVars(Answer(r))

\* Callers keep coming.
CallersCome == \A r \in Requests : WF_breakerVars(Call(r))

BreakerSpec == BreakerInit /\ [][BreakerNext]_breakerVars /\ Progress /\ CallersCome

-----------------------------------------------------------------------------
\* A closed breaker has fewer failures on record than open it: neither late
\* answers of earlier requests nor the end of a trial leave it closed but due.
ClosedIsHealthy == state = "closed" => Len(failures) < FailureThreshold

\* The breaker opens on failures of the last window only ("5 failures in 60s"),
\* however far apart the attempts of slow requests end.
OpensOnRecent ==
  [][state # "open" /\ state' = "open"
       => \A i \in 1..Len(failures') : failures'[i] < Window]_breakerVars

\* A half-open breaker whose probes are spent, with no answer outstanding.
Spent == /\ state = "half-open" /\ halfOpenAttempts = Probes
         /\ \A r \in Requests : place[r] # "sent"

\* Requests are let through again and again, unless probes have been spent on
\* answers that neither close the breaker nor open it.
AdmitsUnlessSpent == []<>CanExecute \/ <>[]Spent

\* Every request returns or raises, however its attempts end.
RequestsEnd == \A r \in Requests : place[r] # "idle" ~> place[r] = "idle"

\* "half-open: Testing if service has recovered": as long as callers come, there
\* is always a next request that is let through.
Recovers == []<>CanExecute
=============================================================================
