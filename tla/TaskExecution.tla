--------------------------- MODULE TaskExecution ---------------------------
(***************************************************************************)
(* One call of executeQuantumTask(task, device, waitTimeout, flag): the    *)
(* submission loop of submitQuantumTask(), the collection loop of          *)
(* collectQuantumResult() and the final buildQuantumResult(), interleaved  *)
(* with the device finishing jobs and with the signal handler setting the  *)
(* termination flag at any moment.                                         *)
(*                                                                         *)
(* A task is abstracted to what the code branches on: how many circuits it *)
(* carries, its shot count and whether its circuit type maps to a format.  *)
(* Job i is the job of circuit i; a counts map is abstracted to its        *)
(* largest count.  Time is counted in units of CollectionSlice.            *)
(***************************************************************************)
EXTENDS Integers, Sequences

CONSTANTS
  MaxCircuits,   \* largest number of circuit files in a task
  WaitTimeouts,  \* values of jobWaitTimeout, in slices; 0 waits indefinitely
  MaxSliceTime,  \* longest time one wait(CollectionSlice) may take to return
  INT32_MAX,     \* the wire format's largest count
  Counts         \* the counts a device may report

ASSUME ConstantsAssumption ==
  /\ MaxCircuits \in Nat
  /\ WaitTimeouts \subseteq Nat
  /\ MaxSliceTime \in Nat \ {0}
  /\ INT32_MAX \in Nat
  /\ Counts \subseteq Nat

VARIABLES
  task,             \* the task being executed, and the caller's waitTimeout
  pc,               \* where the executing thread is
  terminationFlag,  \* terminationRequested, set by the signal handler
  jobs,             \* the jobs vector: the circuit each submitted job carries
  histogram,        \* the counts collected so far
  elapsed,          \* now() - waitStarted for the job being waited on
  device,           \* the device's view of the job of each circuit
  counts,           \* what the device measured for each circuit
  outcome,          \* the value the call returns
  waited,           \* history: time spent waiting for each job
  cancelTried,      \* history: jobs cancel() was called on
  lateCalls         \* history: device calls begun after the flag was set

taskVars == <<task, jobs, histogram, elapsed, outcome>>
deviceVars == <<device, counts>>
history == <<waited, cancelTried, lateCalls>>
vars == <<task, pc, terminationFlag, jobs, histogram, elapsed, device, counts,
          outcome, waited, cancelTried, lateCalls>>

Circuits == 1..MaxCircuits
Tasks == [circuits : 0..MaxCircuits, shots : {-1, 0, 1}, typed : BOOLEAN,
          waitTimeout : WaitTimeouts]
JobStates == {"absent", "running", "done", "canceled", "failed"}
Kinds == {"none", "Result", "SubmissionFailed", "DeviceError",
          "ShutdownRequested"}
Details == {"none", "refused", "children", "submitJob", "duringSubmission",
            "duringCollection", "canceled", "wait", "timeout", "counts",
            "unrepresentable", "complete"}
Outcomes == [kind : Kinds, detail : Details, results : Seq(Int)]
Locations == {"validate", "submitCheck", "submitJob", "collectCheck", "wait",
              "counts", "returned"}

\* The calls on the device and its jobs; cancel() is in cancelTried instead.
DeviceCalls == {"children", "submitJob", "wait", "counts"}

(***************************************************************************)
(* The steps of the call.                                                  *)
(***************************************************************************)

validateSubmission(t) == t.circuits > 0 /\ t.shots > 0 /\ t.typed

\* static_cast<int32_t>: two's complement over 2 * (INT32_MAX + 1) values.
toInt32(v) ==
  LET span == 2 * (INT32_MAX + 1)
      low  == v % span
  IN  IF low <= INT32_MAX THEN low ELSE low - span

NoResult == [kind |-> "none", detail |-> "none", results |-> <<>>]
Error(kind, detail) == [kind |-> kind, detail |-> detail, results |-> <<>>]

\* Faulty variant: the counts are cast without being checked first.
buildQuantumResultUnchecked(t, h) ==
  IF Len(h) # t.circuits
  THEN Error("DeviceError", "unrepresentable")
  ELSE [kind |-> "Result", detail |-> "complete",
        results |-> [i \in DOMAIN h |-> toInt32(h[i])]]

\* An entry that is nullopt; collectQuantumResult() itself never stores one.
nullopt == -1

\* The checks come before anything is written, so an error carries no entry.
buildQuantumResult(t, h) ==
  IF \/ Len(h) # t.circuits
     \/ \E i \in DOMAIN h : h[i] = nullopt \/ h[i] > INT32_MAX
  THEN Error("DeviceError", "unrepresentable")
  ELSE [kind |-> "Result", detail |-> "complete",
        results |-> [i \in DOMAIN h |-> toInt32(h[i])]]

Return(result) == pc' = "returned" /\ outcome' = result

\* The thread calls f.  Recording stops at MaxLateCalls, which is one more
\* than the calls the flag lets through.
MaxLateCalls == 3
Calls(f) ==
  lateCalls' = IF terminationFlag /\ Len(lateCalls) < MaxLateCalls
               THEN Append(lateCalls, f) ELSE lateCalls

Init ==
  /\ task \in Tasks
  /\ pc = "validate"
  /\ terminationFlag = FALSE
  /\ jobs = <<>> /\ histogram = <<>> /\ elapsed = 0
  /\ device = [c \in Circuits |-> "absent"]
  /\ counts = [c \in Circuits |-> 0]
  /\ outcome = NoResult
  /\ waited = [c \in Circuits |-> 0]
  /\ cancelTried = {} /\ lateCalls = <<>>

\* validateSubmission() and children(), before the first circuit.
Validate ==
  /\ pc = "validate"
  /\ \/ /\ ~validateSubmission(task)
        /\ Return(Error("SubmissionFailed", "refused"))
        /\ UNCHANGED lateCalls
     \/ /\ validateSubmission(task)
        /\ Calls("children")
        /\ \/ Return(Error("SubmissionFailed", "children"))
           \/ pc' = "submitCheck" /\ UNCHANGED outcome
  /\ UNCHANGED <<task, terminationFlag, jobs, histogram, elapsed, deviceVars,
                 waited, cancelTried>>

\* Faulty variant: the jobs submitted so far are left running.
SubmitShutdownNoCancel ==
  /\ pc = "submitCheck" /\ Len(jobs) < task.circuits
  /\ terminationFlag
  /\ Return(Error("ShutdownRequested", "duringSubmission"))
  /\ UNCHANGED <<task, terminationFlag, jobs, histogram, elapsed, deviceVars,
                 history>>

\* A flag seen before a submission cancels every job submitted so far; each
\* cancel() may fail, and changes nothing for a job that is already over.
SubmitShutdown ==
  /\ pc = "submitCheck" /\ Len(jobs) < task.circuits
  /\ terminationFlag
  /\ \E refused \in SUBSET Circuits :
       device' = [c \in Circuits |->
                   IF device[c] = "running" /\ c \notin refused
                   THEN "canceled" ELSE device[c]]
  /\ cancelTried' = {jobs[i] : i \in DOMAIN jobs}
  /\ Return(Error("ShutdownRequested", "duringSubmission"))
  /\ UNCHANGED <<task, terminationFlag, jobs, histogram, elapsed, counts,
                 waited, lateCalls>>

\* Faulty variant: the flag is not consulted.
SubmitContinueUnchecked ==
  /\ pc = "submitCheck" /\ Len(jobs) < task.circuits
  /\ pc' = "submitJob"
  /\ UNCHANGED <<taskVars, terminationFlag, deviceVars, history>>

\* The flag was clear: submitJob() follows, with the flag free to change.
SubmitContinue ==
  /\ pc = "submitCheck" /\ Len(jobs) < task.circuits
  /\ ~terminationFlag
  /\ pc' = "submitJob"
  /\ UNCHANGED <<taskVars, terminationFlag, deviceVars, history>>

\* submitJob() for the next circuit.  The first failure ends the call and
\* drops the jobs submitted before it, without cancelling them.
SubmitJob ==
  /\ pc = "submitJob"
  /\ LET c == Len(jobs) + 1 IN
     \/ /\ jobs' = Append(jobs, c)
        /\ device' = [device EXCEPT ![c] = "running"]
        /\ pc' = "submitCheck" /\ UNCHANGED outcome
     \/ /\ Return(Error("SubmissionFailed", "submitJob"))
        /\ UNCHANGED <<jobs, device>>
  /\ Calls("submitJob")
  /\ UNCHANGED <<task, terminationFlag, histogram, elapsed, counts, waited,
                 cancelTried>>

\* Every circuit is submitted: and_then() enters the collection loop.
SubmitDone ==
  /\ pc = "submitCheck" /\ Len(jobs) = task.circuits
  /\ pc' = "collectCheck"
  /\ elapsed' = 0
  /\ UNCHANGED <<task, terminationFlag, jobs, histogram, outcome, deviceVars,
                 history>>

\* Faulty variant: the flag is not consulted between slices.
CollectCheckUnchecked ==
  /\ pc = "collectCheck" /\ Len(histogram) < Len(jobs)
  /\ pc' = "wait"
  /\ UNCHANGED <<taskVars, terminationFlag, deviceVars, history>>

\* The top of the wait loop of one job.
CollectCheck ==
  /\ pc = "collectCheck" /\ Len(histogram) < Len(jobs)
  /\ \/ terminationFlag /\ Return(Error("ShutdownRequested", "duringCollection"))
     \/ ~terminationFlag /\ pc' = "wait" /\ UNCHANGED outcome
  /\ UNCHANGED <<task, terminationFlag, jobs, histogram, elapsed, deviceVars,
                 history>>

\* The job wait() is called on.
current == jobs[Len(histogram) + 1]

\* A slice of d units passes.  The clock is only compared when the wait is
\* bounded, so an unbounded wait need not count it.
SlicePasses(d) ==
  /\ elapsed' = IF task.waitTimeout > 0 THEN elapsed + d ELSE elapsed
  /\ waited' = IF task.waitTimeout > 0
               THEN [waited EXCEPT ![current] = @ + d] ELSE waited

\* Faulty variant: the deadline is compared before the status is looked at.
WaitDoneLate ==
  /\ pc = "wait" /\ device[current] = "done"
  /\ \E d \in 0..MaxSliceTime : SlicePasses(d)
  /\ IF task.waitTimeout > 0 /\ elapsed' >= task.waitTimeout
     THEN Return(Error("DeviceError", "timeout"))
     ELSE pc' = "counts" /\ UNCHANGED outcome
  /\ Calls("wait")
  /\ UNCHANGED <<task, terminationFlag, jobs, histogram, deviceVars,
                 cancelTried>>

\* wait() reports Done, at any moment of its slice: the clock is not compared.
WaitDone ==
  /\ pc = "wait" /\ device[current] = "done"
  /\ \E d \in 0..MaxSliceTime : SlicePasses(d)
  /\ pc' = "counts"
  /\ Calls("wait")
  /\ UNCHANGED <<task, terminationFlag, jobs, histogram, outcome, deviceVars,
                 cancelTried>>

\* wait() reports Canceled, or an error other than Timeout.
WaitFailed ==
  /\ pc = "wait"
  /\ \E d \in 0..MaxSliceTime : SlicePasses(d)
  /\ \/ /\ device[current] = "canceled"
        /\ Return(Error("DeviceError", "canceled"))
     \/ Return(Error("DeviceError", "wait"))
  /\ Calls("wait")
  /\ UNCHANGED <<task, terminationFlag, jobs, histogram, deviceVars,
                 cancelTried>>

\* Faulty variants: the deadline is missed when met exactly; waitStarted is
\* taken again for every slice.
WaitTimedOutLate ==
  /\ pc = "wait" /\ device[current] = "running"
  /\ \E d \in 1..MaxSliceTime : SlicePasses(d)
  /\ IF task.waitTimeout > 0 /\ elapsed' > task.waitTimeout
     THEN Return(Error("DeviceError", "timeout"))
     ELSE pc' = "collectCheck" /\ UNCHANGED outcome
  /\ Calls("wait")
  /\ UNCHANGED <<task, terminationFlag, jobs, histogram, deviceVars,
                 cancelTried>>

WaitTimedOutRestarts ==
  /\ pc = "wait" /\ device[current] = "running"
  /\ pc' = "collectCheck"
  /\ Calls("wait")
  /\ UNCHANGED <<taskVars, terminationFlag, deviceVars, waited, cancelTried>>

\* wait() times out.
WaitTimedOut ==
  /\ pc = "wait" /\ device[current] = "running"
  /\ \E d \in 1..MaxSliceTime : SlicePasses(d)
  /\ IF task.waitTimeout > 0 /\ elapsed' >= task.waitTimeout
     THEN Return(Error("DeviceError", "timeout"))
     ELSE pc' = "collectCheck" /\ UNCHANGED outcome
  /\ Calls("wait")
  /\ UNCHANGED <<task, terminationFlag, jobs, histogram, deviceVars,
                 cancelTried>>

\* Faulty variant: waitStarted is taken once for all jobs.
ReadCountsSharedClock ==
  /\ pc = "counts"
  /\ histogram' = Append(histogram, counts[current])
  /\ pc' = "collectCheck"
  /\ Calls("counts")
  /\ UNCHANGED <<task, terminationFlag, jobs, elapsed, outcome, deviceVars,
                 waited, cancelTried>>

\* counts() of the job that is Done; the next job's clock starts.
ReadCounts ==
  /\ pc = "counts"
  /\ \/ /\ histogram' = Append(histogram, counts[current])
        /\ elapsed' = 0
        /\ pc' = "collectCheck" /\ UNCHANGED outcome
     \/ /\ Return(Error("DeviceError", "counts"))
        /\ UNCHANGED <<histogram, elapsed>>
  /\ Calls("counts")
  /\ UNCHANGED <<task, terminationFlag, jobs, deviceVars, waited, cancelTried>>

\* Every job is collected: the result is built, whatever the flag says.
CollectDone ==
  /\ pc = "collectCheck" /\ Len(histogram) = Len(jobs)
  /\ Return(buildQuantumResult(task, histogram))
  /\ UNCHANGED <<task, terminationFlag, jobs, histogram, elapsed, deviceVars,
                 history>>

executeQuantumTask ==
  \/ Validate \/ SubmitShutdown \/ SubmitContinue \/ SubmitJob \/ SubmitDone
  \/ CollectCheck \/ WaitDone \/ WaitFailed \/ WaitTimedOut \/ ReadCounts
  \/ CollectDone

(***************************************************************************)
(* The environment: the device ends a job in one of three ways, and the    *)
(* signal handler sets the flag, which nothing clears.                     *)
(***************************************************************************)

JobEnds(c) ==
  /\ device[c] = "running"
  /\ \/ /\ device' = [device EXCEPT ![c] = "done"]
        /\ \E v \in Counts : counts' = [counts EXCEPT ![c] = v]
     \/ /\ \E s \in {"canceled", "failed"} :
             device' = [device EXCEPT ![c] = s]
        /\ UNCHANGED counts
  /\ UNCHANGED <<taskVars, pc, terminationFlag, history>>

RequestTermination ==
  /\ ~terminationFlag
  /\ terminationFlag' = TRUE
  /\ UNCHANGED <<taskVars, pc, deviceVars, history>>

\* The call has returned.
Returned == pc = "returned" /\ UNCHANGED vars

Next ==
  \/ executeQuantumTask
  \/ \E c \in Circuits : JobEnds(c)
  \/ RequestTermination
  \/ Returned

Spec == Init /\ [][Next]_vars

\* The executing thread always runs on: each call it blocks in returns, a
\* wait() after at most MaxSliceTime.  Nothing is assumed of the device.
FairSpec == Spec /\ WF_vars(executeQuantumTask)

(***************************************************************************)
(* Properties.                                                             *)
(***************************************************************************)

TypeOK ==
  /\ task \in Tasks
  /\ pc \in Locations
  /\ terminationFlag \in BOOLEAN
  /\ jobs \in Seq(Circuits) /\ histogram \in Seq(Nat) /\ elapsed \in Nat
  /\ device \in [Circuits -> JobStates]
  /\ counts \in [Circuits -> Nat]
  /\ outcome \in Outcomes
  /\ waited \in [Circuits -> Nat]
  /\ cancelTried \in SUBSET Circuits
  /\ lateCalls \in Seq(DeviceCalls)

\* buildQuantumResult()'s promise at the end of the pipeline: a result holds
\* one entry per circuit of the task, entry i is exactly what the device
\* measured for circuit i (no wrap of the int32 cast), and every job was Done.
ResultFaithful ==
  outcome.kind = "Result" =>
    /\ Len(outcome.results) = task.circuits
    /\ \A i \in 1..task.circuits :
         device[i] = "done" /\ outcome.results[i] = counts[i]

\* submitQuantumTask()'s shutdown path: once the flag interrupted a
\* submission, cancel() was tried on every job the task has on the device.
SubmitShutdownCancels ==
  outcome.detail = "duringSubmission" =>
    \A c \in Circuits : device[c] # "absent" => c \in cancelTried

\* jobWaitTimeout is per job, and a finished job beats it: collection gives up
\* only on a job that was itself waited on for the whole timeout and that is
\* still running when its last slice ends, even if that slice overran.
TimeoutIsPerJob ==
  [][outcome'.detail = "timeout" /\ outcome # outcome'
       => /\ device[current] = "running"
          /\ task.waitTimeout > 0
          /\ waited'[current] >= task.waitTimeout]_vars

\* ... and no job is waited on for longer than the timeout and one slice.
WaitIsBounded ==
  task.waitTimeout > 0 =>
    \A c \in Circuits : waited[c] < task.waitTimeout + MaxSliceTime

\* The flag is consulted before every submission and every wait slice, so of
\* children(), submitJob() and wait() at most one begins after it is set; the
\* only calls that may follow are counts() of the job whose wait() ended, and
\* cancel() when the flag interrupts the submission.
LateCallsUnwind ==
  /\ lateCalls \in {<<>>, <<"children">>, <<"submitJob">>, <<"wait">>,
                     <<"counts">>, <<"wait", "counts">>}
  /\ cancelTried # {} => outcome.detail = "duringSubmission"

\* The slices exist for this: a shutdown makes the call return even when the
\* wait is unbounded and the device never finishes a job.
ShutdownReturns == terminationFlag ~> pc = "returned"

\* A bounded wait makes the call return without any help from the device.
BoundedWaitReturns == task.waitTimeout > 0 ~> pc = "returned"
=============================================================================
