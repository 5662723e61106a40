------------------------ MODULE CircuitBreakerProofs ------------------------
(* Theorems about CircuitBreaker, for any requests and any settings.         *)
EXTENDS CircuitBreaker, SequenceTheorems, FiniteSetTheorems, TLAPS

USE BreakerAssumption

\* Failures are recorded in the order of time: what makes "the last window" a
\* suffix of the list.
Sorted(f) == \A i, j \in 1..Len(f) : i <= j => f[j] <= f[i]

IInv == BreakerTypeOK /\ Sorted(failures) /\ ClosedIsHealthy

-----------------------------------------------------------------------------
\* Dropping the expired failures of a sorted list leaves a sorted list of the
\* ones within the window.
LEMMA InWindowFacts ==
  ASSUME NEW f \in Seq(0..Window), Sorted(f)
  PROVE  /\ InWindow(f) \in Seq(0..Window)
         /\ Sorted(InWindow(f))
         /\ \A i \in 1..Len(InWindow(f)) : InWindow(f)[i] < Window
<1> DEFINE Old == {i \in DOMAIN f : f[i] >= Window}
           k == Expired(f)
<1>1. Len(f) \in Nat /\ DOMAIN f = 1..Len(f) /\ \A i \in 1..Len(f) : f[i] \in 0..Window
  OBVIOUS
<1>2. IsFiniteSet(1..Len(f)) /\ Cardinality(1..Len(f)) = Len(f)
  <2>1. /\ IsFiniteSet(1..Len(f))
        /\ Cardinality(1..Len(f)) = IF 1 > Len(f) THEN 0 ELSE Len(f) - 1 + 1
    <3>1. 1 \in Int /\ Len(f) \in Int  BY <1>1
    <3> QED  BY <3>1, FS_Interval
  <2> QED  BY <2>1, <1>1
<1>3. IsFiniteSet(Old) /\ k \in Nat /\ k <= Len(f)
  <2>1. Old \subseteq 1..Len(f)  BY <1>1
  <2>2. IsFiniteSet(Old) /\ Cardinality(Old) <= Cardinality(1..Len(f))
    BY <2>1, <1>2, FS_Subset
  <2>3. Cardinality(Old) \in Nat  BY <2>2, FS_CardinalityType
  <2> QED  BY <2>2, <2>3, <1>2 DEF Expired
<1>4. ASSUME NEW i \in 1..Len(f), i > k  PROVE f[i] < Window
  <2> SUFFICES ASSUME f[i] >= Window  PROVE FALSE
    BY <1>1
  <2>1. 1..i \subseteq Old
    BY <1>1 DEF Sorted
  <2>2. IsFiniteSet(1..i) /\ Cardinality(1..i) = i
    <3>1. i \in Int /\ 1 <= i  BY <1>1
    <3>2. IsFiniteSet(1..i) /\ Cardinality(1..i) = IF 1 > i THEN 0 ELSE i - 1 + 1
      BY <3>1, FS_Interval
    <3> QED  BY <3>1, <3>2
  <2>3. i <= Cardinality(Old)
    <3>1. IsFiniteSet(Old)  BY <1>3
    <3> HIDE DEF Old
    <3>2. Cardinality(1..i) <= Cardinality(Old)  BY <2>1, <3>1, FS_Subset
    <3> QED  BY <2>2, <3>2
  <2>4. Cardinality(Old) = k  BY DEF Expired
  <2> HIDE DEF k, Old
  <2> QED  BY <2>3, <2>4, <1>3, <1>4, <1>1
<1> HIDE DEF k, Old
<1>5. InWindow(f) = SubSeq(f, k + 1, Len(f))
  BY DEF InWindow, k
<1>6. /\ InWindow(f) \in Seq(0..Window)
      /\ Len(InWindow(f)) = Len(f) - k
      /\ \A i \in 1..(Len(f) - k) : InWindow(f)[i] = f[k + i]
  <2>1. k + 1 \in Int /\ Len(f) \in Int /\ \A i \in (k + 1)..Len(f) : f[i] \in 0..Window
    BY <1>1, <1>3
  <2>2. /\ InWindow(f) \in Seq(0..Window)
        /\ Len(InWindow(f)) = IF k + 1 <= Len(f) THEN Len(f) - (k + 1) + 1 ELSE 0
        /\ \A i \in 1..(Len(f) - (k + 1) + 1) : InWindow(f)[i] = f[(k + 1) + i - 1]
    BY <2>1, <1>5, SubSeqProperties
  <2>3. Len(f) - (k + 1) + 1 = Len(f) - k
    BY <1>1, <1>3
  <2>4. ASSUME NEW i \in 1..(Len(f) - k)  PROVE InWindow(f)[i] = f[k + i]
    <3>1. (k + 1) + i - 1 = k + i  BY <1>3, <1>1
    <3>2. InWindow(f)[i] = f[(k + 1) + i - 1]  BY <2>2, <2>3
    <3> QED  BY <3>1, <3>2
  <2>5. Len(InWindow(f)) = Len(f) - k
    <3>1. CASE k + 1 <= Len(f)  BY <3>1, <2>2, <2>3
    <3>2. CASE ~(k + 1 <= Len(f))
      <4>1. \A a, b \in Nat : b <= a /\ ~(b + 1 <= a) => a - b = 0  OBVIOUS
      <4>2. Len(f) - k = 0  BY <4>1, <3>2, <1>1, <1>3
      <4> QED  BY <4>2, <3>2, <2>2
    <3> QED  BY <3>1, <3>2
  <2> QED  BY <2>2, <2>4, <2>5
<1>7. \A i \in 1..Len(InWindow(f)) : InWindow(f)[i] < Window
  <2> SUFFICES ASSUME NEW i \in 1..Len(InWindow(f))  PROVE InWindow(f)[i] < Window
    OBVIOUS
  <2>1. i \in 1..(Len(f) - k)  BY <1>6
  <2>2. k + i \in 1..Len(f) /\ k + i > k
    BY <2>1, <1>3, <1>1
  <2> QED  BY <2>1, <2>2, <1>6, <1>4
<1>8. Sorted(InWindow(f))
  <2> SUFFICES ASSUME NEW i \in 1..Len(InWindow(f)), NEW j \in 1..Len(InWindow(f)), i <= j
               PROVE  InWindow(f)[j] <= InWindow(f)[i]
    BY DEF Sorted
  <2>1. /\ i \in 1..(Len(f) - k) /\ k + i \in 1..Len(f)
        /\ j \in 1..(Len(f) - k) /\ k + j \in 1..Len(f)
        /\ k + i <= k + j
    BY <1>6, <1>3, <1>1
  <2> QED  BY <2>1, <1>6 DEF Sorted
<1> QED  BY <1>6, <1>7, <1>8

\* What recording a failure does.
LEMMA RecordFacts ==
  ASSUME IInv, NoteFailure
  PROVE  /\ failures' \in Seq(0..Window)
         /\ lastFailure' \in 0..Window
         /\ state' \in {"closed", "open", "half-open"}
         /\ halfOpenAttempts' \in 0..Probes
         /\ Sorted(failures')
         /\ ClosedIsHealthy'
         /\ state # "open" /\ state' = "open" => \A i \in 1..Len(failures') : failures'[i] < Window
<1> DEFINE g == InWindow(failures)
<1>1. failures \in Seq(0..Window) /\ Sorted(failures)
  BY DEF IInv, BreakerTypeOK
<1>2. g \in Seq(0..Window) /\ Sorted(g) /\ \A i \in 1..Len(g) : g[i] < Window
  BY <1>1, InWindowFacts
<1>3. failures' = Append(g, 0)
  BY DEF NoteFailure
<1> HIDE DEF g
<1>4. /\ failures' \in Seq(0..Window)
      /\ Len(failures') = Len(g) + 1 /\ Len(g) \in Nat
      /\ failures'[Len(g) + 1] = 0
      /\ \A i \in 1..Len(g) : failures'[i] = g[i] /\ g[i] \in 0..Window
  BY <1>2, <1>3
<1>5. Sorted(failures')
  <2> SUFFICES ASSUME NEW i \in 1..Len(failures'), NEW j \in 1..Len(failures'), i <= j
               PROVE  failures'[j] <= failures'[i]
    BY DEF Sorted
  <2>1. failures'[i] \in Nat  BY <1>4
  <2>2. CASE j = Len(g) + 1  BY <2>1, <2>2, <1>4
  <2>3. CASE j \in 1..Len(g)
    <3>1. i \in 1..Len(g)  BY <2>3, <1>4
    <3> QED  BY <3>1, <2>3, <1>2, <1>4 DEF Sorted
  <2> QED  BY <2>2, <2>3, <1>4
<1>6. ClosedIsHealthy'
  BY <1>4 DEF NoteFailure, ClosedIsHealthy
<1>7. ASSUME state # "open", state' = "open", NEW i \in 1..Len(failures')
      PROVE  failures'[i] < Window
  <2>1. CASE i = Len(g) + 1
    <3>1. failures'[i] = 0 /\ 0 < Window  BY <2>1, <1>4
    <3> QED  BY <3>1
  <2>2. CASE i \in 1..Len(g)
    <3>1. failures'[i] = g[i] /\ g[i] < Window  BY <2>2, <1>2, <1>4
    <3> QED  BY <3>1
  <2> QED  BY <2>1, <2>2, <1>7, <1>4
<1> QED  BY <1>4, <1>5, <1>6, <1>7 DEF NoteFailure, IInv, BreakerTypeOK
-----------------------------------------------------------------------------
LEMMA InitFacts == BreakerInit => IInv
BY DEF BreakerInit, IInv, BreakerTypeOK, Sorted, ClosedIsHealthy

\* A request that returns leaves the places well-typed.
LEMMA ReturnFacts ==
  ASSUME BreakerTypeOK, NEW r \in Requests, Return(r)
  PROVE  /\ place' \in [Requests -> {"idle", "checking", "sent"}]
         /\ attempt' \in [Requests -> 0..MaxRetries]
BY DEF BreakerTypeOK, Return

LEMMA RetryFacts ==
  ASSUME BreakerTypeOK, NEW r \in Requests, Retry(r)
  PROVE  /\ place' \in [Requests -> {"idle", "checking", "sent"}]
         /\ attempt' \in [Requests -> 0..MaxRetries]
<1>1. attempt[r] \in 0..MaxRetries /\ NextAttempt(attempt[r]) \in 0..MaxRetries
  BY DEF BreakerTypeOK, Retry, MayRetry, NextAttempt
<1> QED  BY <1>1 DEF BreakerTypeOK, Retry

\* The time that passes leaves the list sorted and as long as it was.
LEMMA TickFacts ==
  ASSUME IInv, Tick
  PROVE  IInv'
<1>1. failures \in Seq(0..Window) /\ Len(failures) \in Nat
  BY DEF IInv, BreakerTypeOK
<1>2. \A i \in 1..Len(failures) : failures[i] \in 0..Window /\ Older(failures[i]) \in 0..Window
  BY <1>1 DEF Older
<1>3. failures' \in Seq(0..Window) /\ Len(failures') = Len(failures)
  BY <1>1, <1>2 DEF Tick
<1>4. \A i \in 1..Len(failures) : failures'[i] = Older(failures[i])
  BY DEF Tick
<1>5. lastFailure' \in 0..Window
  BY DEF IInv, BreakerTypeOK, Tick, Older
<1>6. Sorted(failures')
  <2> SUFFICES ASSUME NEW i \in 1..Len(failures'), NEW j \in 1..Len(failures'), i <= j
               PROVE  failures'[j] <= failures'[i]
    BY DEF Sorted
  <2>1. failures[j] <= failures[i]
    BY <1>3 DEF IInv, Sorted
  <2> QED  BY <2>1, <1>2, <1>3, <1>4 DEF Older
<1>7. ClosedIsHealthy'
  BY <1>3 DEF IInv, ClosedIsHealthy, Tick
<1> QED  BY <1>3, <1>5, <1>6, <1>7 DEF IInv, BreakerTypeOK, Tick

LEMMA RecordedFacts ==
  ASSUME IInv, NoteFailure,
         place' \in [Requests -> {"idle", "checking", "sent"}],
         attempt' \in [Requests -> 0..MaxRetries]
  PROVE  IInv'
BY RecordFacts DEF IInv, BreakerTypeOK

LEMMA NextFacts == IInv /\ [BreakerNext]_breakerVars => IInv'
<1> SUFFICES ASSUME IInv, [BreakerNext]_breakerVars  PROVE IInv'
  OBVIOUS
<1>1. CASE Tick  BY <1>1, TickFacts
<1>2. ASSUME NEW r \in Requests, Call(r)  PROVE IInv'
  BY <1>2 DEF Call, breaker, IInv, BreakerTypeOK, ClosedIsHealthy
<1>3. ASSUME NEW r \in Requests, Send(r)  PROVE IInv'
  <2>1. halfOpenAttempts' \in 0..Probes /\ state' \in {"closed", "open", "half-open"}
    BY <1>3 DEF Send, Pass, CanExecute, ProbesLeft, IInv, BreakerTypeOK
  <2>2. ClosedIsHealthy'
    BY <1>3 DEF Send, Pass, CanExecute, IInv, ClosedIsHealthy, BreakerTypeOK
  <2> QED  BY <1>3, <2>1, <2>2 DEF Send, Pass, IInv, BreakerTypeOK
<1>4. ASSUME NEW r \in Requests, Refuse(r)  PROVE IInv'
  BY <1>4, ReturnFacts DEF Refuse, AgeAfterRefusal, IInv, BreakerTypeOK, ClosedIsHealthy
<1>5. ASSUME NEW r \in Requests, Succeed(r)  PROVE IInv'
  <2>1. failures' = <<>> /\ state' = "closed" /\ halfOpenAttempts' = 0 /\ lastFailure' = lastFailure
    BY <1>5 DEF Succeed, NoteSuccess, Cleared
  <2>2. Sorted(failures') /\ ClosedIsHealthy' /\ failures' \in Seq(0..Window)
    BY <2>1 DEF Sorted, ClosedIsHealthy
  <2> QED  BY <1>5, <2>1, <2>2, ReturnFacts DEF Succeed, IInv, BreakerTypeOK
<1>6. ASSUME NEW r \in Requests, Fail(r) \/ GiveUp(r)  PROVE IInv'
  BY <1>6, ReturnFacts, RecordedFacts DEF Fail, GiveUp, IInv
<1>7. ASSUME NEW r \in Requests, Retry(r)  PROVE IInv'
  BY <1>7, RetryFacts, RecordedFacts DEF Retry, IInv
<1>8. ASSUME NEW r \in Requests, EndUnrecorded(r)  PROVE IInv'
  BY <1>8, ReturnFacts DEF EndUnrecorded, breaker, IInv, BreakerTypeOK, ClosedIsHealthy
<1>9. CASE UNCHANGED breakerVars
  BY <1>9 DEF breakerVars, breaker, IInv, BreakerTypeOK, ClosedIsHealthy
<1> QED  BY <1>1, <1>2, <1>3, <1>4, <1>5, <1>6, <1>7, <1>8, <1>9 DEF BreakerNext, Check, Answer

\* The strengthened invariant: types, failures in order of time, and no closed
\* breaker with failures enough to open it.
THEOREM BreakerInvariance == BreakerSpec => []IInv
BY InitFacts, NextFacts, PTL DEF BreakerSpec

\* The variables keep their types; no request makes more than MaxRetries retries.
THEOREM BreakerTypeCorrect == BreakerSpec => []BreakerTypeOK
BY BreakerInvariance, PTL DEF IInv

\* A closed breaker has fewer than FailureThreshold failures on record.
THEOREM BreakerClosedIsHealthy == BreakerSpec => []ClosedIsHealthy
BY BreakerInvariance, PTL DEF IInv

\* The breaker opens on failures of the last window only.
THEOREM BreakerOpensOnRecent == BreakerSpec => OpensOnRecent
<1> DEFINE Recent ==
      state # "open" /\ state' = "open" => \A i \in 1..Len(failures') : failures'[i] < Window
<1>1. IInv /\ [BreakerNext]_breakerVars => Recent
  <2> SUFFICES ASSUME IInv, [BreakerNext]_breakerVars, state # "open", state' = "open"
               PROVE  \A i \in 1..Len(failures') : failures'[i] < Window
    OBVIOUS
  <2>1. NoteFailure
    BY DEF BreakerNext, breakerVars, breaker, Tick, Call, Check, Send, Pass, Refuse, Answer,
           Succeed, NoteSuccess, Fail, EndUnrecorded, Retry, GiveUp
  <2> QED  BY <2>1, RecordFacts
<1> QED  BY <1>1, BreakerInvariance, PTL DEF BreakerSpec, OpensOnRecent

\* Once the probes of a half-open breaker are spent and no answer is outstanding,
\* it refuses every request for ever: time does not bring it back.
THEOREM SpentProbesAreFinal == BreakerSpec => [](Spent => []Spent)
<1>1. IInv /\ Spent /\ [BreakerNext]_breakerVars => Spent'
  <2> SUFFICES ASSUME IInv, Spent, [BreakerNext]_breakerVars  PROVE Spent'
    OBVIOUS
  <2>1. ~CanExecute  BY DEF Spent, CanExecute, ProbesLeft
  <2>2. place \in [Requests -> {"idle", "checking", "sent"}]  BY DEF IInv, BreakerTypeOK
  <2>3. CASE Tick \/ UNCHANGED breakerVars
    BY <2>3 DEF Tick, breakerVars, breaker, Spent
  <2>4. ASSUME NEW r \in Requests, Call(r)  PROVE Spent'
    BY <2>2, <2>4 DEF Call, breaker, Spent
  <2>5. ASSUME NEW r \in Requests, Check(r)  PROVE Spent'
    BY <2>1, <2>2, <2>5 DEF Check, Send, Pass, Refuse, Return, Spent
  <2>6. ASSUME NEW r \in Requests  PROVE ~Answer(r)
    BY DEF Answer, Succeed, Fail, EndUnrecorded, Retry, GiveUp, Spent
  <2> QED  BY <2>3, <2>4, <2>5, <2>6 DEF BreakerNext
<1> QED  BY <1>1, BreakerInvariance, PTL DEF BreakerSpec
=============================================================================
