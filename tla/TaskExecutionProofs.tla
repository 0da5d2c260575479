------------------------ MODULE TaskExecutionProofs ------------------------
(***************************************************************************)
(* The safety properties of TaskExecution, proved for every number of      *)
(* circuits, every wait timeout and every set of counts.                   *)
(***************************************************************************)
EXTENDS TaskExecution, SequenceTheorems, TLAPS

\* The jobs vector lists the task's circuits in order, and the device knows
\* exactly the jobs in it.
JobsInOrder ==
  /\ Len(jobs) <= task.circuits
  /\ \A i \in DOMAIN jobs : jobs[i] = i
  /\ \A c \in Circuits : device[c] # "absent" <=> c <= Len(jobs)

\* The histogram is what the device measured for the first jobs, all Done.
HistogramFaithful ==
  /\ Len(histogram) <= Len(jobs)
  /\ \A i \in DOMAIN histogram : device[i] = "done" /\ histogram[i] = counts[i]

\* What being at a program location says about the two loops.
LoopPositions ==
  /\ pc \in {"validate", "submitCheck", "submitJob"} => histogram = <<>>
  /\ pc = "submitJob" => Len(jobs) < task.circuits
  /\ pc \in {"collectCheck", "wait", "counts"} => Len(jobs) = task.circuits
  /\ pc \in {"wait", "counts"} => Len(histogram) < Len(jobs)
  /\ pc = "counts" => device[Len(histogram) + 1] = "done"
  /\ pc # "returned" => outcome = NoResult

\* While a job is waited on, elapsed is the time it alone was waited for.
ClockPerJob ==
  /\ \A c \in Circuits : c > Len(histogram) + 1 => waited[c] = 0
  /\ pc \in {"validate", "submitCheck", "submitJob"} =>
       \A c \in Circuits : waited[c] = 0
  /\ pc \in {"collectCheck", "wait"} /\ Len(histogram) < Len(jobs) =>
       /\ waited[Len(histogram) + 1] = elapsed
       /\ task.waitTimeout > 0 => elapsed < task.waitTimeout

\* A call begun after the flag was set leaves the thread where the flag is
\* read again, or between a wait() and its counts(); nothing is cancelled
\* before the call returns.
LateCallsStop ==
  /\ LateCallsUnwind
  /\ ~terminationFlag => lateCalls = <<>>
  /\ pc \in {"validate", "submitJob", "wait"} => lateCalls = <<>>
  /\ pc = "counts" => lateCalls \in {<<>>, <<"wait">>}
  /\ pc # "returned" => cancelTried = {}

IInv ==
  /\ TypeOK /\ JobsInOrder /\ HistogramFaithful /\ LoopPositions
  /\ ClockPerJob /\ LateCallsStop
  /\ ResultFaithful /\ SubmitShutdownCancels /\ WaitIsBounded

(***************************************************************************)
(* Facts about the operators.                                              *)
(***************************************************************************)

\* An error outcome is typed, is not a result and carries its own detail.
LEMMA ErrorFacts ==
  ASSUME NEW k \in Kinds, NEW d \in Details
  PROVE  /\ Error(k, d) \in Outcomes
         /\ Error(k, d).kind = k
         /\ Error(k, d).detail = d
  BY DEF Error, Outcomes

\* The int32 cast keeps every count the guard of buildQuantumResult() admits.
LEMMA CastExact ==
  ASSUME NEW v \in Nat, v <= INT32_MAX
  PROVE  toInt32(v) = v
  BY ConstantsAssumption DEF toInt32

\* A result is typed, complete and equal, entry by entry, to the histogram.
LEMMA BuildFacts ==
  ASSUME NEW t \in Tasks, NEW h \in Seq(Nat)
  PROVE  LET r == buildQuantumResult(t, h) IN
         /\ r \in Outcomes
         /\ r.detail \in {"unrepresentable", "complete"}
         /\ r.kind = "Result" =>
              /\ Len(h) = t.circuits
              /\ Len(r.results) = t.circuits
              /\ \A i \in 1..t.circuits : r.results[i] = h[i]
  <1> DEFINE bad == \/ Len(h) # t.circuits
                    \/ \E i \in DOMAIN h : h[i] = nullopt \/ h[i] > INT32_MAX
             entries == [i \in DOMAIN h |-> toInt32(h[i])]
  <1>1. CASE bad
    <2>1. buildQuantumResult(t, h) = Error("DeviceError", "unrepresentable")
      BY <1>1, Zenon DEF buildQuantumResult
    <2> QED BY <2>1, ErrorFacts DEF Kinds, Details
  <1>2. CASE ~bad
    <2>1. buildQuantumResult(t, h) =
            [kind |-> "Result", detail |-> "complete", results |-> entries]
      BY <1>2, Zenon DEF buildQuantumResult
    <2>2. \A i \in DOMAIN h : h[i] \in Nat /\ h[i] <= INT32_MAX
      BY <1>2, ConstantsAssumption
    <2>3. \A i \in DOMAIN h : toInt32(h[i]) = h[i]
      BY <2>2, CastExact, Zenon
    <2>4. entries \in Seq(Int) /\ Len(entries) = Len(h)
      BY <2>2, <2>3
    <2>5. \A i \in 1..t.circuits : entries[i] = h[i]
      BY <1>2, <2>3
    <2> HIDE DEF entries
    <2> QED BY <1>2, <2>1, <2>4, <2>5 DEF Outcomes, Kinds, Details
  <1> QED BY <1>1, <1>2, Zenon

\* A call the flag may have preceded is recorded at most once.
LEMMA CallFacts ==
  ASSUME NEW f \in DeviceCalls, Calls(f), lateCalls = <<>>
  PROVE  /\ lateCalls' \in {<<>>, <<f>>} /\ lateCalls' \in Seq(DeviceCalls)
         /\ ~terminationFlag => lateCalls' = <<>>
  <1>1. Append(<<>>, f) = <<f>> /\ <<f>> \in Seq(DeviceCalls)
        /\ <<>> \in Seq(DeviceCalls)
    OBVIOUS
  <1> QED BY <1>1, Zenon DEF Calls

\* Appending to a sequence of one call.
LEMMA AppendToOne ==
  ASSUME NEW S, NEW s \in Seq(S), NEW b \in S, Len(s) = 1
  PROVE  Append(s, b) = <<s[1], b>>
  <1> DEFINE t == Append(s, b)
  <1>1. t \in Seq(S) /\ Len(t) = Len(s) + 1 /\ t[Len(s) + 1] = b
    BY AppendProperties, ZenonT(30)
  <1>2. t[1] = s[1] /\ Len(s) + 1 = 2
    OBVIOUS
  <1> HIDE DEF t
  <1>3. Len(t) = 2 /\ t[1] = s[1] /\ t[2] = b
    BY <1>1, <1>2, Zenon
  <1>4. t = <<s[1], b>>
    BY <1>1, <1>3
  <1> QED BY <1>4, Zenon DEF t

\* counts() follows a wait(), late or not.
LEMMA CountsCallFacts ==
  ASSUME Calls("counts"), lateCalls \in {<<>>, <<"wait">>},
         ~terminationFlag => lateCalls = <<>>
  PROVE  /\ lateCalls' \in {<<>>, <<"wait">>, <<"counts">>, <<"wait", "counts">>}
         /\ lateCalls' \in Seq(DeviceCalls)
         /\ ~terminationFlag => lateCalls' = <<>>
  <1>1. /\ <<>> \in Seq(DeviceCalls) /\ <<"wait">> \in Seq(DeviceCalls)
        /\ <<"counts">> \in Seq(DeviceCalls) /\ "counts" \in DeviceCalls
        /\ <<"wait", "counts">> \in Seq(DeviceCalls)
        /\ Len(<<"wait">>) = 1 /\ <<"wait">>[1] = "wait"
        /\ Append(<<>>, "counts") = <<"counts">>
    BY DEF DeviceCalls
  <1>2. Append(<<"wait">>, "counts") = <<"wait", "counts">>
    BY <1>1, AppendToOne, Zenon
  <1> QED BY <1>1, <1>2, Zenon DEF Calls

(***************************************************************************)
(* The initial states.                                                     *)
(***************************************************************************)

\* The wait timeout the call was given is a number of slices.
LEMMA TimeoutIsNat == task \in Tasks => task.waitTimeout \in Nat
  BY ConstantsAssumption, Zenon DEF Tasks

\* The inductive invariant holds when executeQuantumTask() is entered.
LEMMA InitIInv == Init => IInv
  <1> SUFFICES ASSUME Init PROVE IInv
    BY Zenon
  <1> USE ConstantsAssumption DEF Init, Circuits
  <1>1. NoResult \in Outcomes /\ NoResult.kind = "none" /\ NoResult.detail = "none"
    BY DEF NoResult, Outcomes, Kinds, Details
  <1>2. TypeOK
    <2>1. jobs \in Seq(Circuits) /\ histogram \in Seq(Nat)
          /\ lateCalls \in Seq(DeviceCalls)
      OBVIOUS
    <2>2. /\ task \in Tasks /\ pc \in Locations /\ terminationFlag \in BOOLEAN
          /\ elapsed \in Nat /\ cancelTried \in SUBSET Circuits
      BY Zenon DEF Locations
    <2>3. /\ device \in [Circuits -> JobStates]
          /\ counts \in [Circuits -> Nat] /\ waited \in [Circuits -> Nat]
      BY Zenon DEF JobStates
    <2> QED BY <1>1, <2>1, <2>2, <2>3, Zenon DEF TypeOK
  <1>3. JobsInOrder /\ HistogramFaithful /\ LoopPositions /\ ClockPerJob
        /\ LateCallsStop
    BY DEF JobsInOrder, HistogramFaithful, LoopPositions, ClockPerJob,
           LateCallsStop, LateCallsUnwind, Tasks
  <1>4. ResultFaithful /\ SubmitShutdownCancels /\ WaitIsBounded
    <2>1. ResultFaithful /\ SubmitShutdownCancels
      BY <1>1, Zenon DEF ResultFaithful, SubmitShutdownCancels
    <2>2. WaitIsBounded
      BY TimeoutIsNat DEF WaitIsBounded
    <2> QED BY <2>1, <2>2, Zenon
  <1> QED BY <1>2, <1>3, <1>4, Zenon DEF IInv

(***************************************************************************)
(* Each step of the executing thread.  <1>1 is type correctness, <1>2 the  *)
(* shape of the two loops, <1>3 the properties of the outcome.             *)
(***************************************************************************)

\* The checks on entry preserve the invariant, accepted or refused.
LEMMA ValidateIInv == IInv /\ Validate => IInv'
  <1> SUFFICES ASSUME IInv, Validate PROVE IInv'
    BY Zenon
  <1> USE DEF IInv, Validate
  <1>0. \/ UNCHANGED outcome
        \/ outcome' = Error("SubmissionFailed", "refused")
        \/ outcome' = Error("SubmissionFailed", "children")
    BY Zenon DEF Return
  <1>e. /\ Error("SubmissionFailed", "refused") \in Outcomes
        /\ Error("SubmissionFailed", "refused").kind = "SubmissionFailed"
        /\ Error("SubmissionFailed", "refused").detail = "refused"
        /\ Error("SubmissionFailed", "children") \in Outcomes
        /\ Error("SubmissionFailed", "children").kind = "SubmissionFailed"
        /\ Error("SubmissionFailed", "children").detail = "children"
    BY ErrorFacts DEF Kinds, Details
  <1>l. /\ lateCalls' \in {<<>>, <<"children">>} /\ lateCalls' \in Seq(DeviceCalls)
        /\ ~terminationFlag => lateCalls' = <<>>
    <2>1. lateCalls = <<>> /\ lateCalls \in Seq(DeviceCalls)
      BY Zenon DEF LateCallsStop, TypeOK
    <2>2. "children" \in DeviceCalls
      BY Zenon DEF DeviceCalls
    <2> QED BY <2>1, <2>2, CallFacts, Zenon
  <1>1. TypeOK'
    BY <1>0, <1>e, <1>l, Zenon DEF TypeOK, Locations, Return, deviceVars
  <1>2. JobsInOrder' /\ HistogramFaithful' /\ LoopPositions' /\ ClockPerJob'
    BY Zenon DEF JobsInOrder, HistogramFaithful, LoopPositions, ClockPerJob,
           Return, deviceVars
  <1>4. LateCallsStop'
    BY <1>l, Zenon DEF LateCallsStop, LateCallsUnwind, Return
  <1>3. ResultFaithful' /\ SubmitShutdownCancels' /\ WaitIsBounded'
    BY <1>0, <1>e, Zenon DEF ResultFaithful, SubmitShutdownCancels, WaitIsBounded,
           deviceVars, history
  <1> QED BY <1>1, <1>2, <1>3, <1>4, Zenon

\* Cancelling on a shutdown seen in the submit loop preserves it.
LEMMA SubmitShutdownIInv == IInv /\ SubmitShutdown => IInv'
  <1> SUFFICES ASSUME IInv, SubmitShutdown PROVE IInv'
    BY Zenon
  <1> USE ConstantsAssumption DEF IInv, SubmitShutdown
  <1>0. /\ outcome' = Error("ShutdownRequested", "duringSubmission")
        /\ outcome' \in Outcomes
        /\ outcome'.kind = "ShutdownRequested"
        /\ outcome'.detail = "duringSubmission"
    BY ErrorFacts, Zenon DEF Return, Kinds, Details
  <1>1. TypeOK'
    <2>1. cancelTried' \in SUBSET Circuits
      BY DEF TypeOK
    <2>2. device' \in [Circuits -> JobStates]
      BY Zenon DEF TypeOK, JobStates
    <2> QED BY <1>0, <2>1, <2>2, Zenon DEF TypeOK, Locations, Return
  <1>2. JobsInOrder' /\ HistogramFaithful' /\ LoopPositions' /\ ClockPerJob'
        /\ LateCallsStop'
    <2>1. \A c \in Circuits : (device'[c] = "absent" <=> device[c] = "absent")
      BY Zenon DEF TypeOK
    <2>2. JobsInOrder'
      BY <2>1, Zenon DEF JobsInOrder
    <2>3. HistogramFaithful'
      BY DEF HistogramFaithful, LoopPositions
    <2>4. LateCallsStop'
      BY <1>0, Zenon DEF LateCallsStop, LateCallsUnwind, Return
    <2> QED BY <2>2, <2>3, <2>4, Zenon DEF LoopPositions, ClockPerJob, Return
  <1>3. SubmitShutdownCancels'
    <2> SUFFICES ASSUME NEW c \in Circuits, device'[c] # "absent"
                 PROVE  c \in cancelTried'
      BY Zenon DEF SubmitShutdownCancels
    <2>1. device[c] # "absent"
      BY Zenon DEF TypeOK
    <2>2. c \in 1..Len(jobs)
      BY <2>1 DEF JobsInOrder, TypeOK, Circuits
    <2>3. c \in DOMAIN jobs /\ jobs[c] = c
      BY <2>2 DEF JobsInOrder, TypeOK
    <2> QED BY <2>3, Zenon
  <1>4. ResultFaithful' /\ WaitIsBounded'
    BY <1>0, Zenon DEF ResultFaithful, WaitIsBounded
  <1> QED BY <1>1, <1>2, <1>3, <1>4, Zenon

\* Passing the termination check of the submit loop preserves it.
LEMMA SubmitContinueIInv == IInv /\ SubmitContinue => IInv'
  <1> SUFFICES ASSUME IInv, SubmitContinue PROVE IInv'
    BY Zenon
  <1> USE DEF IInv, SubmitContinue, taskVars, deviceVars, history
  <1>1. TypeOK' /\ JobsInOrder' /\ HistogramFaithful'
    BY Zenon DEF TypeOK, Locations, JobsInOrder, HistogramFaithful
  <1>2. LoopPositions' /\ ClockPerJob'
    BY Zenon DEF LoopPositions, ClockPerJob
  <1>3. LateCallsStop'
    BY Zenon DEF LateCallsStop, LateCallsUnwind
  <1>4. ResultFaithful' /\ SubmitShutdownCancels' /\ WaitIsBounded'
    BY Zenon DEF ResultFaithful, SubmitShutdownCancels, WaitIsBounded
  <1> QED BY <1>1, <1>2, <1>3, <1>4, Zenon

\* One submitJob(), accepted or refused, preserves it.
LEMMA SubmitJobIInv == IInv /\ SubmitJob => IInv'
  <1> SUFFICES ASSUME IInv, SubmitJob PROVE IInv'
    BY Zenon
  <1> USE ConstantsAssumption DEF IInv, SubmitJob
  <1> DEFINE c == Len(jobs) + 1
  <1>c. c \in Circuits /\ histogram = <<>> /\ outcome = NoResult
    BY DEF TypeOK, LoopPositions, Circuits, Tasks
  <1>n. NoResult.kind = "none" /\ NoResult.detail = "none"
    BY Zenon DEF NoResult
  <1>a. /\ lateCalls' \in {<<>>, <<"submitJob">>} /\ lateCalls' \in Seq(DeviceCalls)
        /\ ~terminationFlag => lateCalls' = <<>>
    BY CallFacts, Zenon DEF LateCallsStop, DeviceCalls
  <1>l. LateCallsStop'
    BY <1>a, Zenon DEF LateCallsStop, LateCallsUnwind, Return
  <1>1. CASE /\ jobs' = Append(jobs, c)
             /\ device' = [device EXCEPT ![c] = "running"]
             /\ pc' = "submitCheck" /\ UNCHANGED outcome
    <2>1. TypeOK'
      BY <1>1, <1>a, <1>c DEF TypeOK, JobStates, Locations
    <2>2. JobsInOrder'
      <3>1. Len(jobs') = Len(jobs) + 1 /\ Len(jobs') <= task'.circuits
        BY <1>1, <1>c DEF TypeOK, LoopPositions, Tasks
      <3>2. \A i \in DOMAIN jobs' : jobs'[i] = i
        BY SMTT(20), <1>1, <1>c DEF TypeOK, JobsInOrder
      <3>3. \A k \in Circuits : device'[k] # "absent" <=> k <= Len(jobs')
        <4>1. /\ device \in [Circuits -> JobStates] /\ Len(jobs) \in Nat
              /\ \A k \in Circuits : device[k] # "absent" <=> k <= Len(jobs)
          BY DEF TypeOK, JobsInOrder
        <4> QED BY <1>1, <1>c, <3>1, <4>1 DEF Circuits
      <3> QED BY <3>1, <3>2, <3>3, Zenon DEF JobsInOrder
    <2>3. HistogramFaithful' /\ LoopPositions' /\ ClockPerJob'
      BY <1>1, <1>c, <2>2 DEF HistogramFaithful, LoopPositions, ClockPerJob,
                              TypeOK, JobsInOrder
    <2>4. ResultFaithful' /\ SubmitShutdownCancels' /\ WaitIsBounded'
      BY <1>1, <1>c, <1>n, Zenon DEF ResultFaithful, SubmitShutdownCancels, WaitIsBounded
    <2> QED BY <1>l, <2>1, <2>2, <2>3, <2>4, Zenon
  <1>2. CASE /\ Return(Error("SubmissionFailed", "submitJob"))
             /\ UNCHANGED <<jobs, device>>
    <2>0. /\ outcome' \in Outcomes /\ outcome'.kind = "SubmissionFailed"
          /\ outcome'.detail = "submitJob" /\ pc' = "returned"
      BY <1>2, ErrorFacts DEF Return, Kinds, Details
    <2>1. TypeOK'
      BY <1>2, <1>a, <2>0, Zenon DEF TypeOK, Locations
    <2>2. JobsInOrder' /\ HistogramFaithful' /\ LoopPositions' /\ ClockPerJob'
      BY <1>2, <1>c, <2>0, Zenon DEF JobsInOrder, HistogramFaithful, LoopPositions,
                              ClockPerJob
    <2>3. ResultFaithful' /\ SubmitShutdownCancels' /\ WaitIsBounded'
      BY <1>2, <2>0, Zenon DEF ResultFaithful, SubmitShutdownCancels, WaitIsBounded
    <2> QED BY <1>l, <2>1, <2>2, <2>3, Zenon
  <1> QED BY <1>1, <1>2, Zenon

\* Leaving the submit loop preserves it.
LEMMA SubmitDoneIInv == IInv /\ SubmitDone => IInv'
  <1> SUFFICES ASSUME IInv, SubmitDone PROVE IInv'
    BY Zenon
  <1> USE DEF IInv, SubmitDone
  <1>1. TypeOK'
    BY Zenon DEF TypeOK, Locations, deviceVars, history
  <1>2. ClockPerJob'
    <2>1. Len(histogram) < Len(jobs) => Len(histogram) + 1 \in Circuits
      BY SMTT(20), ConstantsAssumption DEF TypeOK, JobsInOrder, Tasks, Circuits
    <2>2. histogram = <<>> /\ \A k \in Circuits : waited[k] = 0
      BY Zenon DEF LoopPositions, ClockPerJob
    <2> QED BY <2>1, <2>2, ConstantsAssumption, Zenon DEF ClockPerJob, history
  <1>3. JobsInOrder' /\ HistogramFaithful' /\ LoopPositions' /\ LateCallsStop'
    BY Zenon DEF JobsInOrder, HistogramFaithful, LoopPositions, LateCallsStop,
           LateCallsUnwind, deviceVars, history
  <1>4. ResultFaithful' /\ SubmitShutdownCancels' /\ WaitIsBounded'
    BY Zenon DEF ResultFaithful, SubmitShutdownCancels, WaitIsBounded, deviceVars, history
  <1> QED BY <1>1, <1>2, <1>3, <1>4, Zenon

\* The termination check of the collect loop preserves it.
LEMMA CollectCheckIInv == IInv /\ CollectCheck => IInv'
  <1> SUFFICES ASSUME IInv, CollectCheck PROVE IInv'
    BY Zenon
  <1> USE DEF IInv, CollectCheck
  <1>e. /\ Error("ShutdownRequested", "duringCollection") \in Outcomes
        /\ Error("ShutdownRequested", "duringCollection").kind = "ShutdownRequested"
        /\ Error("ShutdownRequested", "duringCollection").detail = "duringCollection"
    BY ErrorFacts, Zenon DEF Kinds, Details
  <1>0. \/ UNCHANGED outcome
        \/ outcome' = Error("ShutdownRequested", "duringCollection")
    BY Zenon DEF Return
  <1>1. TypeOK'
    BY <1>0, <1>e, Zenon DEF TypeOK, Locations, Return, deviceVars, history
  <1>2. JobsInOrder' /\ HistogramFaithful' /\ LoopPositions' /\ ClockPerJob'
        /\ LateCallsStop'
    BY Zenon DEF JobsInOrder, HistogramFaithful, LoopPositions, ClockPerJob,
           LateCallsStop, LateCallsUnwind, Return, deviceVars, history
  <1>3. ResultFaithful' /\ SubmitShutdownCancels' /\ WaitIsBounded'
    BY <1>0, <1>e, Zenon DEF ResultFaithful, SubmitShutdownCancels, WaitIsBounded,
           deviceVars, history
  <1> QED BY <1>1, <1>2, <1>3, Zenon

\* In the collect loop, the current job is that of the next circuit.
LEMMA CurrentJob ==
  ASSUME IInv, pc \in {"wait", "counts"}
  PROVE  /\ current = Len(histogram) + 1
         /\ current \in Circuits
         /\ current \in 1..task.circuits
         /\ device[current] # "absent"
  <1> USE DEF IInv
  <1>1. /\ Len(histogram) \in Nat /\ Len(jobs) \in Nat
        /\ Len(histogram) < Len(jobs) /\ Len(jobs) = task.circuits
        /\ task.circuits \in 0..MaxCircuits
    BY DEF TypeOK, LoopPositions, Tasks
  <1>2. Len(histogram) + 1 \in DOMAIN jobs /\ Len(histogram) + 1 \in Circuits
        /\ Len(histogram) + 1 \in 1..task.circuits
    <2>1. DOMAIN jobs = 1..Len(jobs)
      BY DEF TypeOK
    <2> QED BY <1>1, <2>1, ConstantsAssumption DEF Circuits
  <1>3. current = Len(histogram) + 1
    BY <1>2, Zenon DEF current, JobsInOrder
  <1> QED BY <1>1, <1>2, <1>3, ConstantsAssumption DEF JobsInOrder, Circuits

\* What a wait() of d units does to the two clocks: they stay together, and
\* overrun a bounded wait by less than a slice.
LEMMA SliceFacts ==
  ASSUME IInv, pc = "wait", NEW d \in 0..MaxSliceTime, SlicePasses(d)
  PROVE  /\ elapsed' \in Nat /\ waited' \in [Circuits -> Nat]
         /\ waited'[current] = elapsed'
         /\ \A k \in Circuits : k # current => waited'[k] = waited[k]
         /\ task.waitTimeout > 0 => elapsed' < task.waitTimeout + MaxSliceTime
         /\ \A k \in Circuits : k > Len(histogram) + 1 => waited'[k] = 0
  <1>c. current = Len(histogram) + 1 /\ current \in Circuits
    BY CurrentJob, Zenon
  <1>w. /\ elapsed \in Nat /\ d \in Nat /\ d <= MaxSliceTime
        /\ waited \in [Circuits -> Nat]
        /\ waited[current] = elapsed /\ task.waitTimeout \in Nat
        /\ task.waitTimeout > 0 => elapsed < task.waitTimeout
    BY <1>c, ConstantsAssumption, TimeoutIsNat
    DEF IInv, TypeOK, ClockPerJob, LoopPositions
  <1>1. /\ elapsed' \in Nat /\ waited' \in [Circuits -> Nat]
        /\ waited'[current] = elapsed'
        /\ \A k \in Circuits : k # current => waited'[k] = waited[k]
        /\ task.waitTimeout > 0 => elapsed' < task.waitTimeout + MaxSliceTime
    BY <1>w, <1>c, ConstantsAssumption DEF SlicePasses
  <1>2. \A k \in Circuits : k > Len(histogram) + 1 => waited'[k] = 0
    BY <1>c, <1>1 DEF IInv, ClockPerJob, Circuits, TypeOK
  <1> QED BY <1>1, <1>2, Zenon

\* A wait() records itself, at most once, if the flag was set before it.
LEMMA WaitCallFacts ==
  ASSUME IInv, pc = "wait", Calls("wait")
  PROVE  /\ lateCalls' \in {<<>>, <<"wait">>} /\ lateCalls' \in Seq(DeviceCalls)
         /\ ~terminationFlag => lateCalls' = <<>>
  BY CallFacts, Zenon DEF IInv, LateCallsStop, DeviceCalls

\* A wait slice that ends with the job done preserves it.
LEMMA WaitDoneIInv == IInv /\ WaitDone => IInv'
  <1> SUFFICES ASSUME IInv, WaitDone PROVE IInv'
    BY Zenon
  <1> USE DEF WaitDone
  <1> PICK d \in 0..MaxSliceTime : SlicePasses(d)
    BY Zenon
  <1>a. /\ lateCalls' \in {<<>>, <<"wait">>} /\ lateCalls' \in Seq(DeviceCalls)
        /\ ~terminationFlag => lateCalls' = <<>>
    BY WaitCallFacts, Zenon
  <1>c. /\ current = Len(histogram) + 1 /\ current \in Circuits
        /\ outcome = NoResult
    BY CurrentJob, Zenon DEF IInv, LoopPositions
  <1>n. NoResult.kind = "none" /\ NoResult.detail = "none"
    BY Zenon DEF NoResult
  <1>x. /\ elapsed' \in Nat /\ waited' \in [Circuits -> Nat]
        /\ waited'[current] = elapsed'
        /\ \A k \in Circuits : k # current => waited'[k] = waited[k]
        /\ task.waitTimeout > 0 => elapsed' < task.waitTimeout + MaxSliceTime
        /\ \A k \in Circuits : k > Len(histogram) + 1 => waited'[k] = 0
    BY SliceFacts, Zenon
  <1> USE DEF IInv
  <1>1. TypeOK'
    BY <1>a, <1>x, Zenon DEF TypeOK, Locations, deviceVars
  <1>2. JobsInOrder' /\ HistogramFaithful' /\ LoopPositions'
    BY <1>c, Zenon DEF JobsInOrder, HistogramFaithful, LoopPositions, deviceVars
  <1>3. ClockPerJob'
    BY <1>x, Zenon DEF ClockPerJob
  <1>4. LateCallsStop'
    BY <1>a, Zenon DEF LateCallsStop, LateCallsUnwind
  <1>5. ResultFaithful' /\ SubmitShutdownCancels'
    BY <1>c, <1>n, Zenon DEF ResultFaithful, SubmitShutdownCancels
  <1>6. WaitIsBounded'
    BY <1>x, Zenon DEF WaitIsBounded
  <1> QED BY <1>1, <1>2, <1>3, <1>4, <1>5, <1>6, Zenon

\* A wait slice that ends with the job failed preserves it.
LEMMA WaitFailedIInv == IInv /\ WaitFailed => IInv'
  <1> SUFFICES ASSUME IInv, WaitFailed PROVE IInv'
    BY Zenon
  <1> USE DEF WaitFailed
  <1> PICK d \in 0..MaxSliceTime : SlicePasses(d)
    BY Zenon
  <1>0. /\ outcome' \in Outcomes /\ outcome'.kind = "DeviceError"
        /\ outcome'.detail \in {"canceled", "wait"} /\ pc' = "returned"
    BY ErrorFacts DEF Return, Kinds, Details
  <1>a. /\ lateCalls' \in {<<>>, <<"wait">>} /\ lateCalls' \in Seq(DeviceCalls)
        /\ ~terminationFlag => lateCalls' = <<>>
    BY WaitCallFacts, Zenon
  <1>x. /\ elapsed' \in Nat /\ waited' \in [Circuits -> Nat]
        /\ waited'[current] = elapsed'
        /\ \A k \in Circuits : k # current => waited'[k] = waited[k]
        /\ task.waitTimeout > 0 => elapsed' < task.waitTimeout + MaxSliceTime
        /\ \A k \in Circuits : k > Len(histogram) + 1 => waited'[k] = 0
    BY SliceFacts, Zenon
  <1> USE DEF IInv
  <1>1. TypeOK'
    BY <1>0, <1>a, <1>x, Zenon DEF TypeOK, Locations, deviceVars
  <1>2. JobsInOrder' /\ HistogramFaithful' /\ LoopPositions' /\ ClockPerJob'
    BY <1>0, <1>x, Zenon DEF JobsInOrder, HistogramFaithful, LoopPositions,
                ClockPerJob, deviceVars
  <1>3. LateCallsStop'
    BY <1>0, <1>a, Zenon DEF LateCallsStop, LateCallsUnwind
  <1>4. ResultFaithful' /\ SubmitShutdownCancels' /\ WaitIsBounded'
    BY <1>0, <1>x, Zenon DEF ResultFaithful, SubmitShutdownCancels, WaitIsBounded
  <1> QED BY <1>1, <1>2, <1>3, <1>4, Zenon

\* A wait slice that ends with the job unfinished preserves it.
LEMMA WaitTimedOutIInv == IInv /\ WaitTimedOut => IInv'
  <1> SUFFICES ASSUME IInv, WaitTimedOut PROVE IInv'
    BY Zenon
  <1> USE DEF WaitTimedOut
  <1>p. PICK d \in 1..MaxSliceTime : SlicePasses(d)
    BY Zenon
  <1>d. d \in 0..MaxSliceTime
    BY ConstantsAssumption
  <1>a. /\ lateCalls' \in {<<>>, <<"wait">>} /\ lateCalls' \in Seq(DeviceCalls)
        /\ ~terminationFlag => lateCalls' = <<>>
    BY WaitCallFacts, Zenon
  <1>c. /\ current = Len(histogram) + 1 /\ outcome = NoResult
    BY CurrentJob, Zenon DEF IInv, LoopPositions
  <1>n. NoResult.kind = "none" /\ NoResult.detail = "none"
    BY Zenon DEF NoResult
  <1>x. /\ elapsed' \in Nat /\ waited' \in [Circuits -> Nat]
        /\ waited'[current] = elapsed'
        /\ \A k \in Circuits : k # current => waited'[k] = waited[k]
        /\ task.waitTimeout > 0 => elapsed' < task.waitTimeout + MaxSliceTime
        /\ \A k \in Circuits : k > Len(histogram) + 1 => waited'[k] = 0
    BY <1>p, <1>d, SliceFacts, Zenon
  <1>t. task.waitTimeout \in Nat
    BY TimeoutIsNat, Zenon DEF IInv, TypeOK
  <1>o. \/ /\ task.waitTimeout > 0 /\ elapsed' >= task.waitTimeout
           /\ pc' = "returned" /\ outcome' \in Outcomes
           /\ outcome'.kind = "DeviceError" /\ outcome'.detail = "timeout"
        \/ /\ ~(task.waitTimeout > 0 /\ elapsed' >= task.waitTimeout)
           /\ pc' = "collectCheck" /\ UNCHANGED outcome
    BY ErrorFacts DEF Return, Kinds, Details
  <1> USE DEF IInv
  <1>1. TypeOK'
    BY <1>a, <1>x, <1>o, Zenon DEF TypeOK, Locations, deviceVars
  <1>2. JobsInOrder' /\ HistogramFaithful' /\ LoopPositions'
    BY <1>o, Zenon DEF JobsInOrder, HistogramFaithful, LoopPositions, deviceVars
  <1>3. ClockPerJob'
    <2>1. pc' = "collectCheck" => (task.waitTimeout > 0 => elapsed' < task.waitTimeout)
      BY <1>o, <1>t, <1>x
    <2>2. pc' \in {"collectCheck", "returned"}
      BY <1>o, Zenon
    <2> QED BY <1>c, <1>x, <2>1, <2>2, Zenon DEF ClockPerJob
  <1>4. LateCallsStop'
    BY <1>a, <1>o, Zenon DEF LateCallsStop, LateCallsUnwind
  <1>5. ResultFaithful' /\ SubmitShutdownCancels'
    BY <1>o, <1>c, <1>n, Zenon DEF ResultFaithful, SubmitShutdownCancels
  <1>6. WaitIsBounded'
    BY <1>x, Zenon DEF WaitIsBounded
  <1> QED BY <1>1, <1>2, <1>3, <1>4, <1>5, <1>6, Zenon

\* Reading the counts of a finished job, or failing to, preserves it.
LEMMA ReadCountsIInv == IInv /\ ReadCounts => IInv'
  <1> SUFFICES ASSUME IInv, ReadCounts PROVE IInv'
    BY Zenon
  <1> USE DEF IInv, ReadCounts
  <1>c. /\ current = Len(histogram) + 1 /\ current \in Circuits
        /\ device[current] = "done" /\ outcome = NoResult
    BY CurrentJob, Zenon DEF LoopPositions
  <1>n. NoResult.kind = "none" /\ NoResult.detail = "none"
    BY Zenon DEF NoResult
  <1>a. /\ lateCalls' \in {<<>>, <<"wait">>, <<"counts">>, <<"wait", "counts">>}
        /\ lateCalls' \in Seq(DeviceCalls)
        /\ ~terminationFlag => lateCalls' = <<>>
    BY CountsCallFacts, Zenon DEF LateCallsStop
  <1>l. LateCallsStop'
    BY <1>a, Zenon DEF LateCallsStop, LateCallsUnwind, Return
  <1>j. JobsInOrder'
    BY Zenon DEF JobsInOrder, deviceVars
  <1>1. CASE /\ histogram' = Append(histogram, counts[current])
             /\ elapsed' = 0
             /\ pc' = "collectCheck" /\ UNCHANGED outcome
    <2>1. TypeOK'
      BY <1>1, <1>a, <1>c DEF TypeOK, Locations, deviceVars
    <2>2. Len(histogram') = Len(histogram) + 1 /\ Len(histogram') <= Len(jobs')
      BY <1>1, <1>c DEF TypeOK, LoopPositions
    <2>3. HistogramFaithful'
      <3>0. counts[current] \in Nat
        BY <1>c, Zenon DEF TypeOK
      <3>1. \A i \in DOMAIN histogram' :
              \/ i \in DOMAIN histogram /\ histogram'[i] = histogram[i]
              \/ i = current /\ histogram'[i] = counts[current]
        BY <1>1, <1>c, <3>0 DEF TypeOK
      <3> QED BY <1>c, <2>2, <3>1, Zenon DEF HistogramFaithful, deviceVars
    <2>4. LoopPositions'
      BY <1>1, Zenon DEF LoopPositions
    <2>5. ClockPerJob'
      <3>1. Len(histogram') < Len(jobs') => Len(histogram') + 1 \in Circuits
        <4>1. Len(histogram') \in Nat /\ Len(jobs') <= MaxCircuits
              /\ Len(jobs') \in Nat
          <5>1. task.circuits \in 0..MaxCircuits /\ UNCHANGED jobs
                /\ Len(jobs) \in Nat /\ Len(histogram) \in Nat
                /\ Len(jobs) <= task.circuits
            BY DEF TypeOK, JobsInOrder, Tasks
          <5> QED BY <2>2, <5>1, ConstantsAssumption
        <4> QED BY <4>1, ConstantsAssumption DEF Circuits
      <3>2. \A k \in Circuits : k > Len(histogram) + 1 => waited'[k] = 0
        BY Zenon DEF ClockPerJob
      <3>3. \A k \in Circuits : k > Len(histogram') + 1 => waited'[k] = 0
        BY <2>2, <3>2 DEF TypeOK, Circuits
      <3>4. Len(histogram') < Len(jobs') => waited'[Len(histogram') + 1] = 0
        <4>1. Len(histogram') + 1 > Len(histogram) + 1
          BY <2>2 DEF TypeOK
        <4> QED BY <3>1, <3>2, <4>1, Zenon
      <3> QED BY <1>1, <3>3, <3>4, ConstantsAssumption, Zenon DEF ClockPerJob
    <2>6. ResultFaithful' /\ SubmitShutdownCancels' /\ WaitIsBounded'
      BY <1>1, <1>c, <1>n, Zenon DEF ResultFaithful, SubmitShutdownCancels, WaitIsBounded
    <2> QED BY <1>l, <1>j, <2>1, <2>3, <2>4, <2>5, <2>6, Zenon
  <1>2. CASE /\ Return(Error("DeviceError", "counts"))
             /\ UNCHANGED <<histogram, elapsed>>
    <2>0. /\ outcome' \in Outcomes /\ outcome'.kind = "DeviceError"
          /\ outcome'.detail = "counts" /\ pc' = "returned"
      BY <1>2, ErrorFacts DEF Return, Kinds, Details
    <2>1. TypeOK'
      BY <1>2, <1>a, <2>0, Zenon DEF TypeOK, Locations, deviceVars
    <2>2. HistogramFaithful' /\ LoopPositions' /\ ClockPerJob'
      BY <1>2, <2>0, Zenon DEF HistogramFaithful, LoopPositions, ClockPerJob, deviceVars
    <2>3. ResultFaithful' /\ SubmitShutdownCancels' /\ WaitIsBounded'
      BY <1>2, <2>0, Zenon DEF ResultFaithful, SubmitShutdownCancels, WaitIsBounded
    <2> QED BY <1>l, <1>j, <2>1, <2>2, <2>3, Zenon
  <1> QED BY <1>1, <1>2, Zenon

\* Building the result from the histograms preserves it.
LEMMA CollectDoneIInv == IInv /\ CollectDone => IInv'
  <1> SUFFICES ASSUME IInv, CollectDone PROVE IInv'
    BY Zenon
  <1> USE DEF IInv, CollectDone
  <1>0. /\ pc' = "returned" /\ outcome' \in Outcomes
        /\ outcome'.detail \in {"unrepresentable", "complete"}
        /\ outcome'.kind = "Result" =>
             /\ Len(histogram) = task.circuits
             /\ Len(outcome'.results) = task.circuits
             /\ \A i \in 1..task.circuits : outcome'.results[i] = histogram[i]
    <2>1. task \in Tasks /\ histogram \in Seq(Nat)
      BY Zenon DEF TypeOK
    <2> QED BY <2>1, BuildFacts, Zenon DEF Return
  <1>1. TypeOK'
    BY <1>0, Zenon DEF TypeOK, Locations, deviceVars, history
  <1>2. JobsInOrder' /\ HistogramFaithful' /\ LoopPositions' /\ ClockPerJob'
        /\ LateCallsStop'
    BY <1>0, Zenon DEF JobsInOrder, HistogramFaithful, LoopPositions, ClockPerJob,
                LateCallsStop, LateCallsUnwind, deviceVars, history
  <1>3. ResultFaithful'
    <2>1. DOMAIN histogram = 1..Len(histogram)
      BY DEF TypeOK
    <2> QED BY <1>0, <2>1, Zenon DEF ResultFaithful, HistogramFaithful, deviceVars
  <1>4. SubmitShutdownCancels' /\ WaitIsBounded'
    BY <1>0, Zenon DEF SubmitShutdownCancels, WaitIsBounded, history
  <1> QED BY <1>1, <1>2, <1>3, <1>4, Zenon

(***************************************************************************)
(* The environment's steps.                                                *)
(***************************************************************************)

\* A job that finishes on the device preserves it.
LEMMA JobEndsIInv ==
  ASSUME NEW c \in Circuits
  PROVE  IInv /\ JobEnds(c) => IInv'
  <1> SUFFICES ASSUME IInv, JobEnds(c) PROVE IInv'
    BY Zenon
  <1> USE DEF IInv, JobEnds
  <1>1. /\ device' \in [Circuits -> JobStates] /\ counts' \in [Circuits -> Nat]
        /\ device'[c] # "absent"
        /\ \A k \in Circuits : k # c => device'[k] = device[k]
                                        /\ counts'[k] = counts[k]
    BY ConstantsAssumption, ZenonT(30) DEF TypeOK, JobStates
  <1>2. TypeOK'
    BY <1>1, Zenon DEF TypeOK, taskVars, history
  <1>3. JobsInOrder'
    BY <1>1, Zenon DEF JobsInOrder, taskVars
  <1>4. HistogramFaithful'
    <2>1. DOMAIN histogram \subseteq Circuits
      <3>1. /\ Len(histogram) \in Nat /\ Len(histogram) <= Len(jobs)
            /\ Len(jobs) \in Nat /\ Len(jobs) <= MaxCircuits
            /\ DOMAIN histogram = 1..Len(histogram)
        BY ConstantsAssumption DEF TypeOK, HistogramFaithful, JobsInOrder, Tasks
      <3> QED BY <3>1, ConstantsAssumption DEF Circuits
    <2>2. c \notin DOMAIN histogram
      BY Zenon DEF HistogramFaithful
    <2> QED BY <1>1, <2>1, <2>2, Zenon DEF HistogramFaithful, taskVars
  <1>5. LoopPositions' /\ ClockPerJob' /\ LateCallsStop'
    <2>1. pc = "counts" => device'[Len(histogram) + 1] = "done"
      <3> SUFFICES ASSUME pc = "counts" PROVE device'[Len(histogram) + 1] = "done"
        BY Zenon
      <3>1. Len(histogram) + 1 \in Circuits
        BY CurrentJob, Zenon
      <3>2. device[Len(histogram) + 1] = "done"
        BY Zenon DEF LoopPositions
      <3>3. c # Len(histogram) + 1
        BY <3>2, Zenon
      <3> QED BY <1>1, <3>1, <3>2, <3>3, Zenon
    <2>2. LoopPositions'
      BY <2>1, Zenon DEF LoopPositions, taskVars
    <2> QED BY <2>2, Zenon DEF ClockPerJob, LateCallsStop, LateCallsUnwind,
                        taskVars, history
  <1>6. ResultFaithful'
    <2>1. 1..task.circuits \subseteq Circuits
      BY ConstantsAssumption DEF TypeOK, Tasks, Circuits
    <2> QED BY SMTT(20), <1>1, <2>1 DEF ResultFaithful, taskVars
  <1>7. SubmitShutdownCancels' /\ WaitIsBounded'
    <2>1. \A k \in Circuits : device'[k] # "absent" <=> device[k] # "absent"
      BY <1>1, Zenon
    <2> QED BY <2>1, Zenon DEF SubmitShutdownCancels, WaitIsBounded,
                        taskVars, history
  <1> QED BY <1>2, <1>3, <1>4, <1>5, <1>6, <1>7, Zenon

\* The signal handler preserves it.
LEMMA RequestTerminationIInv == IInv /\ RequestTermination => IInv'
  <1> SUFFICES ASSUME IInv, RequestTermination PROVE IInv'
    BY Zenon
  <1> USE DEF IInv, RequestTermination, taskVars, deviceVars, history
  <1>1. TypeOK' /\ JobsInOrder' /\ HistogramFaithful'
    BY Zenon DEF TypeOK, JobsInOrder, HistogramFaithful
  <1>2. LoopPositions' /\ ClockPerJob' /\ LateCallsStop'
    BY Zenon DEF LoopPositions, ClockPerJob, LateCallsStop, LateCallsUnwind
  <1>3. ResultFaithful' /\ SubmitShutdownCancels' /\ WaitIsBounded'
    BY Zenon DEF ResultFaithful, SubmitShutdownCancels, WaitIsBounded
  <1> QED BY <1>1, <1>2, <1>3, Zenon

\* A stuttering step preserves it.
LEMMA UnchangedIInv == IInv /\ UNCHANGED vars => IInv'
  <1> SUFFICES ASSUME IInv, UNCHANGED vars PROVE IInv'
    BY Zenon
  <1> USE DEF IInv, vars
  <1>1. TypeOK'
    BY Zenon DEF TypeOK
  <1>2. JobsInOrder' /\ HistogramFaithful'
    BY Zenon DEF JobsInOrder, HistogramFaithful
  <1>3. LoopPositions' /\ ClockPerJob' /\ LateCallsStop'
    BY ZenonT(30) DEF LoopPositions, ClockPerJob, LateCallsStop, LateCallsUnwind
  <1>4. ResultFaithful'
    BY Zenon DEF ResultFaithful
  <1>5. SubmitShutdownCancels' /\ WaitIsBounded'
    BY Zenon DEF SubmitShutdownCancels, WaitIsBounded
  <1> QED BY <1>1, <1>2, <1>3, <1>4, <1>5, Zenon

\* Every step of the call, the device and the handler preserves it.
LEMMA NextIInv == IInv /\ [Next]_vars => IInv'
  BY ValidateIInv, SubmitShutdownIInv, SubmitContinueIInv, SubmitJobIInv,
     SubmitDoneIInv, CollectCheckIInv, WaitDoneIInv, WaitFailedIInv,
     WaitTimedOutIInv, ReadCountsIInv, CollectDoneIInv, JobEndsIInv, RequestTerminationIInv,
     UnchangedIInv, Zenon
  DEF Next, executeQuantumTask, Returned

(***************************************************************************)
(* The theorems.                                                           *)
(***************************************************************************)

\* The inductive invariant holds throughout every call of
\* executeQuantumTask().
THEOREM Inductive == Spec => []IInv
  BY InitIInv, NextIInv, PTL DEF Spec

\* Every variable of the call keeps its type, for all constants.
THEOREM TypeCorrect == Spec => []TypeOK
  <1>1. IInv => TypeOK
    BY Zenon DEF IInv
  <1> QED BY <1>1, Inductive, PTL

\* A result that executeQuantumTask() returns is complete, in order and equal
\* to what the device measured, however the device and a shutdown interleave.
THEOREM ResultsAreFaithful == Spec => []ResultFaithful
  <1>1. IInv => ResultFaithful
    BY Zenon DEF IInv
  <1> QED BY <1>1, Inductive, PTL

\* A shutdown during submission tries to cancel every job already submitted.
THEOREM ShutdownCancelsSubmitted == Spec => []SubmitShutdownCancels
  <1>1. IInv => SubmitShutdownCancels
    BY Zenon DEF IInv
  <1> QED BY <1>1, Inductive, PTL

\* jobWaitTimeout is applied to each job by itself, and only to a job that is
\* still running: no job is given up before it was itself waited on for that
\* long, however long the others took, and none that finished in its last
\* slice.
THEOREM TimeoutsArePerJob == Spec => TimeoutIsPerJob
  <1>1. ASSUME IInv, [Next]_vars, outcome'.detail = "timeout", outcome # outcome'
        PROVE  /\ device[current] = "running"
               /\ task.waitTimeout > 0
               /\ waited'[current] >= task.waitTimeout
    <2>1. WaitTimedOut
      <3>1. outcome' # Error("SubmissionFailed", "refused")
            /\ outcome' # Error("SubmissionFailed", "children")
            /\ outcome' # Error("SubmissionFailed", "submitJob")
            /\ outcome' # Error("ShutdownRequested", "duringSubmission")
            /\ outcome' # Error("ShutdownRequested", "duringCollection")
            /\ outcome' # Error("DeviceError", "canceled")
            /\ outcome' # Error("DeviceError", "wait")
            /\ outcome' # Error("DeviceError", "counts")
        BY <1>1 DEF Error
      <3>2. ~CollectDone
        <4>1. task \in Tasks /\ histogram \in Seq(Nat)
          BY <1>1, Zenon DEF IInv, TypeOK
        <4> QED BY <1>1, <4>1, BuildFacts, Zenon DEF CollectDone, Return
      <3>3. ~UNCHANGED outcome
        BY <1>1, Zenon
      <3> QED BY <1>1, <3>1, <3>2, <3>3, Zenon
          DEF Next, executeQuantumTask, Validate, SubmitShutdown, SubmitContinue,
              SubmitJob, SubmitDone, CollectCheck, WaitDone, WaitFailed,
              ReadCounts, JobEnds, RequestTermination, Returned, Return,
              taskVars, vars
    <2>2. PICK d \in 1..MaxSliceTime : SlicePasses(d)
      BY <2>1, Zenon DEF WaitTimedOut
    <2>3. d \in 0..MaxSliceTime
      BY ConstantsAssumption
    <2>4. waited'[current] = elapsed'
      BY <1>1, <2>1, <2>2, <2>3, SliceFacts, Zenon DEF WaitTimedOut
    <2>5. task.waitTimeout > 0 /\ elapsed' >= task.waitTimeout
      BY <1>1, <2>1, Zenon DEF WaitTimedOut
    <2> QED BY <2>1, <2>4, <2>5, Zenon DEF WaitTimedOut
  <1>2. IInv /\ [Next]_vars =>
          [outcome'.detail = "timeout" /\ outcome # outcome'
             => /\ device[current] = "running"
                /\ task.waitTimeout > 0
                /\ waited'[current] >= task.waitTimeout]_vars
    BY <1>1, Zenon
  <1> QED BY <1>2, Inductive, PTL DEF Spec, TimeoutIsPerJob

\* With a jobWaitTimeout, no job is waited on for the timeout and a whole slice
\* more, whatever the device does.
THEOREM WaitsAreBounded == Spec => []WaitIsBounded
  <1>1. IInv => WaitIsBounded
    BY Zenon DEF IInv
  <1> QED BY <1>1, Inductive, PTL

\* Whenever the flag is set, the call unwinds: at most one of children(),
\* submitJob() and wait() begins after it, then at most the counts() of the job
\* whose wait() ended, and cancel() only where a submission is interrupted.
THEOREM LateCallsAreBounded == Spec => []LateCallsUnwind
  <1>1. IInv => LateCallsUnwind
    BY Zenon DEF IInv, LateCallsStop
  <1> QED BY <1>1, Inductive, PTL
=============================================================================
