------------------------- MODULE DistributedProofs -------------------------
(***************************************************************************)
(* The distributed deployment, part one: where tasks are executed, for any *)
(* workers, devices and queues, however workers share them; and the laws   *)
(* of the counting that DistributedAccountingProofs (no copy of a task is  *)
(* dropped or made except by the causes the model counts) and              *)
(* DistributedServiceProofs (the deployment implements TaskService) build  *)
(* on.  DistributedTheorems states what follows.                           *)
(***************************************************************************)
EXTENDS Distributed, TLAPS

(***************************************************************************)
(* Where tasks are executed.                                               *)
(***************************************************************************)

Copies == [Assigned -> Nat]

Types ==
  /\ mail \in [Queues -> Copies]
  /\ pc \in [Workers -> WorkerLabels]
  /\ preparing \in [Workers -> Assigned \cup {None}]
  /\ ready \in [Workers -> Copies] /\ submitted \in [Workers -> Copies]

\* A copy may only be on a queue, or in the hands of a worker, if the selector
\* found the backend it names able to run it.
Routed ==
  /\ \A q \in Queues, m \in Assigned : mail[q][m] > 0 => m \in Suits
  /\ \A w \in Workers : preparing[w] # None => preparing[w] \in Suits
  /\ \A w \in Workers : pc[w] = "prepare" => preparing[w] # None

\* What f counts may be executed by w.
PlacedIn(f, w) == \A m \in Assigned : f[m] > 0 => m \in Suits /\ m[2] = DeviceOf[w]

\* A worker schedules and submits only what names its own device.
Placed == \A w \in Workers : PlacedIn(ready[w], w) /\ PlacedIn(submitted[w], w)

IInv == Types /\ Routed /\ Placed /\ executedOn \subseteq Suits

LEMMA IncrementedFacts ==
  ASSUME NEW f \in Copies, NEW x \in Assigned
  PROVE  /\ Incremented(f, x) \in Copies
         /\ \A m \in Assigned : Incremented(f, x)[m] > 0 => m = x \/ f[m] > 0
BY DEF Incremented, Copies

LEMMA DecrementedFacts ==
  ASSUME NEW f \in Copies, NEW x \in Assigned, f[x] > 0
  PROVE  /\ Decremented(f, x) \in Copies
         /\ \A m \in Assigned : Decremented(f, x)[m] > 0 => f[m] > 0
BY DEF Decremented, Copies

LEMMA EmptyFacts == Empty \in Copies /\ \A m \in Assigned : ~(Empty[m] > 0)
BY DEF Empty, Copies

LEMMA SuitsFacts == \A m \in Suits : m \in Assigned /\ m # None
BY DistributedAssumption, Zenon DEF Assigned

LEMMA InitIInv == Init => IInv
<1>. SUFFICES ASSUME Init PROVE IInv
  BY Zenon
<1>1. Types
  BY EmptyFacts, Zenon DEF Init, Types, WorkerLabels
<1>2. Routed
  BY EmptyFacts, Zenon DEF Init, Routed
<1>3. Placed
  BY EmptyFacts, Zenon DEF Init, Placed, PlacedIn
<1>. QED  BY <1>1, <1>2, <1>3, Zenon DEF Init, IInv

\* Steps that move no forwarded task, whatever else they do.
LEMMA QuietIInv ==
  ASSUME IInv, UNCHANGED <<mail, preparing, ready, submitted, executedOn>>,
         \/ UNCHANGED pc
         \/ \E w \in Workers, label \in WorkerLabels \ {"prepare"} : Goto(w, label)
  PROVE  IInv'
<1>1. Types'
  BY Zenon DEF IInv, Types, Goto
<1>2. Routed'
  BY Zenon DEF IInv, Routed, Types, Goto
<1>. QED  BY <1>1, <1>2, Zenon DEF IInv, Placed, PlacedIn

\* A forwarded task names a backend that suits it.
LEMMA AssignIInv == ASSUME IInv, SelectorAssign PROVE IInv'
<1>.  UNCHANGED <<pc, preparing, ready, submitted, executedOn>>
  BY Zenon DEF SelectorAssign, workerVars
<1>1. CASE UNCHANGED mail
  BY <1>1, QuietIInv, Zenon
<1>2. CASE \E n \in usable(choosing) :
             mail' = [mail EXCEPT ![entries[n].backend.queueName]
                        = Incremented(@, <<choosing, n>>)]
  <2>1. PICK n \in usable(choosing) :
             mail' = [mail EXCEPT ![entries[n].backend.queueName]
                        = Incremented(@, <<choosing, n>>)]
    BY <1>2, Zenon
  <2>2. <<choosing, n>> \in Suits /\ <<choosing, n>> \in Assigned
    BY SuitsFacts, Zenon DEF usable
  <2>3. \A q \in Queues : mail'[q] \in {mail[q], Incremented(mail[q], <<choosing, n>>)}
    BY <2>1, Zenon DEF IInv, Types
  <2>4. \A q \in Queues : mail[q] \in Copies
    BY Zenon DEF IInv, Types
  <2>5. mail' \in [Queues -> Copies]
    BY <2>1, <2>2, <2>3, <2>4, IncrementedFacts, Zenon DEF IInv, Types
  <2>6. \A q \in Queues, m \in Assigned : mail'[q][m] > 0 => m \in Suits
    BY <2>2, <2>3, <2>4, IncrementedFacts, Zenon DEF IInv, Routed
  <2>. QED  BY <2>5, <2>6, Zenon DEF IInv, Types, Routed, Placed, PlacedIn
<1>. QED  BY <1>1, <1>2, Zenon DEF SelectorAssign

\* A worker takes a task from its queue, whichever backend it names.
LEMMA ReceiveIInv ==
  ASSUME IInv, NEW w \in Workers, NEW m \in Assigned, WorkerReceive(w, m)
  PROVE  IInv'
<1>.  /\ UNCHANGED <<ready, submitted, executedOn>>
      /\ QueueOf[w] \in Queues /\ mail[QueueOf[w]][m] > 0
      /\ \A q \in Queues : mail[q] \in Copies
  BY DistributedAssumption, Zenon DEF WorkerReceive, IInv, Types
<1>1. m \in Suits /\ m # None
  BY SuitsFacts, Zenon DEF IInv, Routed
<1>2. \A q \in Queues : /\ mail'[q] \in Copies
                        /\ \A k \in Assigned : mail'[q][k] > 0 => mail[q][k] > 0
  <2>1. CASE UNCHANGED mail
    BY <2>1, Zenon
  <2>2. CASE mail' = [mail EXCEPT ![QueueOf[w]] = Decremented(@, m)]
    <3>1. \A q \in Queues :
            mail'[q] = IF q = QueueOf[w] THEN Decremented(mail[q], m) ELSE mail[q]
      BY <2>2, Zenon DEF IInv, Types
    <3>. QED  BY <3>1, DecrementedFacts, Zenon
  <2>. QED  BY <2>1, <2>2, Zenon DEF WorkerReceive
<1>3. mail' \in [Queues -> Copies]
  BY <1>2, Zenon DEF WorkerReceive, IInv, Types
<1>4. Types'
  BY <1>3, Zenon DEF WorkerReceive, Goto, IInv, Types, WorkerLabels
<1>5. Routed'
  BY <1>1, <1>2, Zenon DEF WorkerReceive, Goto, IInv, Types, Routed
<1>. QED  BY <1>4, <1>5, Zenon DEF IInv, Placed, PlacedIn

\* A step of w that only changes what w holds keeps the invariant if what it
\* adds to its scheduler and its device may be executed there.
LEMMA WorkerStepIInv ==
  ASSUME IInv, NEW w \in Workers, NEW r \in Copies, NEW s \in Copies,
         PlacedIn(r, w), PlacedIn(s, w),
         ready' = [ready EXCEPT ![w] = r], submitted' = [submitted EXCEPT ![w] = s],
         preparing' \in {preparing, [preparing EXCEPT ![w] = None]},
         \/ UNCHANGED <<pc, preparing>>
         \/ \E label \in WorkerLabels \ {"prepare"} : Goto(w, label),
         UNCHANGED mail, executedOn' \subseteq Suits
  PROVE  IInv'
<1>1. Types'
  BY Zenon DEF IInv, Types, Goto
<1>2. Routed'
  BY Zenon DEF IInv, Types, Routed, Goto
<1>3. Placed'
  BY DEF IInv, Types, Placed, PlacedIn
<1>. QED  BY <1>1, <1>2, <1>3, Zenon DEF IInv

LEMMA HeldFacts ==
  ASSUME IInv, NEW w \in Workers
  PROVE  /\ ready[w] \in Copies /\ submitted[w] \in Copies
         /\ PlacedIn(ready[w], w) /\ PlacedIn(submitted[w], w)
         /\ ready = [ready EXCEPT ![w] = ready[w]]
         /\ submitted = [submitted EXCEPT ![w] = submitted[w]]
         /\ PlacedIn(Empty, w)
BY EmptyFacts, Zenon DEF IInv, Types, Placed, PlacedIn

\* Only a task that names the worker's own device is scheduled.
LEMMA CompileIInv ==
  ASSUME IInv, NEW w \in Workers, compileAndSchedule(w)
  PROVE  IInv'
<1>.  /\ UNCHANGED <<mail, submitted, executedOn>> /\ Goto(w, "submit")
      /\ preparing' = [preparing EXCEPT ![w] = None]
      /\ preparing[w] \in Suits /\ preparing[w] \in Assigned
  BY SuitsFacts, Zenon DEF compileAndSchedule, brokerVars, IInv, Routed
<1>1. CASE UNCHANGED ready
  BY <1>1, HeldFacts, WorkerStepIInv, Zenon DEF IInv, WorkerLabels
<1>2. CASE /\ preparing[w][2] = DeviceOf[w]
           /\ ready' = [ready EXCEPT ![w] = Incremented(@, preparing[w])]
  <2>. DEFINE r == Incremented(ready[w], preparing[w])
  <2>1. ready' = [ready EXCEPT ![w] = r]
    BY <1>2, Zenon
  <2>2. r \in Copies /\ PlacedIn(r, w)
    BY <1>2, HeldFacts, IncrementedFacts, Zenon DEF PlacedIn
  <2>. HIDE DEF r
  <2>. QED  BY <2>1, <2>2, HeldFacts, WorkerStepIInv, Zenon DEF IInv, WorkerLabels
<1>. QED  BY <1>1, <1>2, Zenon DEF compileAndSchedule

\* A task moves from the scheduler to the device or leaves the worker.
LEMMA SubmitIInv ==
  ASSUME IInv, NEW w \in Workers, NEW m \in Assigned, WorkerSubmit(w, m)
  PROVE  IInv'
<1>. DEFINE r == Decremented(ready[w], m)
            s == Incremented(submitted[w], m)
<1>.  /\ UNCHANGED <<mail, preparing, executedOn>>
      /\ ready' = [ready EXCEPT ![w] = r] /\ ready[w][m] > 0
      /\ UNCHANGED pc \/ Goto(w, "collect")
  BY Zenon DEF WorkerSubmit, brokerVars
<1>1. r \in Copies /\ PlacedIn(r, w)
  BY HeldFacts, DecrementedFacts, Zenon DEF PlacedIn
<1>2. s \in Copies /\ PlacedIn(s, w)
  BY HeldFacts, IncrementedFacts, Zenon DEF PlacedIn
<1>3. submitted' = [submitted EXCEPT ![w] = s] \/ UNCHANGED submitted
  BY Zenon DEF WorkerSubmit
<1>. HIDE DEF r, s
<1>. QED  BY <1>1, <1>2, <1>3, HeldFacts, WorkerStepIInv, Zenon DEF IInv, WorkerLabels

\* A result comes from a device on which the task was to be executed.
LEMMA CollectIInv ==
  ASSUME IInv, NEW w \in Workers, NEW m \in Assigned, WorkerCollect(w, m)
  PROVE  IInv'
<1>. DEFINE s == Decremented(submitted[w], m)
<1>.  /\ UNCHANGED <<mail, preparing, ready>> /\ submitted[w][m] > 0
      /\ UNCHANGED pc \/ Goto(w, "check")
      /\ \/ submitted' = [submitted EXCEPT ![w] = s]
         \/ submitted' = [submitted EXCEPT ![w] = Empty]
  BY Zenon DEF WorkerCollect, brokerVars
<1>1. s \in Copies /\ PlacedIn(s, w)
  BY HeldFacts, DecrementedFacts, Zenon DEF PlacedIn
<1>2. m \in Suits /\ m[2] = DeviceOf[w]
  BY HeldFacts, Zenon DEF PlacedIn
<1>3. <<m[1], DeviceOf[w]>> \in Suits
  BY <1>2 DEF Assigned
<1>4. executedOn' \subseteq Suits
  BY <1>3, Zenon DEF WorkerCollect, IInv
<1>. HIDE DEF s
<1>. QED  BY <1>1, <1>4, HeldFacts, EmptyFacts, WorkerStepIInv, Zenon DEF WorkerLabels

\* The end of a process empties what it held.
LEMMA EndIInv ==
  ASSUME IInv, NEW w \in Workers, WorkerStop(w) \/ WorkerCrash(w)
  PROVE  IInv'
<1>1. CASE WorkerStop(w)
  <2>1. /\ UNCHANGED <<mail, preparing, submitted, executedOn>> /\ Goto(w, "stopped")
        /\ ready' = [ready EXCEPT ![w] = Empty]
    BY <1>1, Zenon DEF WorkerStop, brokerVars
  <2>. QED  BY <2>1, HeldFacts, EmptyFacts, WorkerStepIInv, Zenon DEF IInv, WorkerLabels
<1>2. CASE WorkerCrash(w)
  <2>1. /\ UNCHANGED <<mail, executedOn>> /\ Goto(w, "crashed")
        /\ ready' = [ready EXCEPT ![w] = Empty]
        /\ submitted' = [submitted EXCEPT ![w] = Empty]
        /\ preparing' = [preparing EXCEPT ![w] = None]
    BY <1>2, Zenon DEF WorkerCrash, brokerVars
  <2>. QED  BY <2>1, HeldFacts, EmptyFacts, WorkerStepIInv, Zenon DEF IInv, WorkerLabels
<1>. QED  BY <1>1, <1>2, Zenon

LEMMA NextIInv == IInv /\ [Next]_vars => IInv'
<1>. SUFFICES ASSUME IInv, [Next]_vars PROVE IInv'
  BY Zenon
<1>1. CASE \/ UNCHANGED vars \/ \E t \in Tasks : ClientSends(t)
           \/ SelectorTerminate \/ SelectorCrash \/ SelectorRestart
           \/ SelectorStop \/ SelectorBegin \/ SelectorExpire \/ SelectorTasksEnd
           \/ \E s \in statuses : SelectorStatus(s)
           \/ \E t \in Tasks : SelectorReceive(t)
  <2>1. UNCHANGED <<mail, pc, preparing, ready, submitted, executedOn>>
    BY <1>1, Zenon DEF vars, ClientSends, SelectorTerminate, SelectorCrash,
       SelectorRestart, SelectorStop, SelectorBegin, SelectorExpire,
       SelectorTasksEnd, SelectorStatus, SelectorReceive, brokerVars, workerVars
  <2>. QED  BY <2>1, QuietIInv, Zenon
<1>2. CASE SelectorAssign
  BY <1>2, AssignIInv, Zenon
<1>3. ASSUME NEW w \in Workers,
             \/ WorkerRefresh(w) \/ WorkerReceiveNone(w) \/ WorkerSubmitDone(w)
             \/ WorkerCollectDone(w) \/ WorkerTerminate(w) \/ WorkerRestart(w)
      PROVE  IInv'
  <2>1. /\ UNCHANGED <<mail, preparing, ready, submitted, executedOn>>
        /\ \/ UNCHANGED pc \/ Goto(w, "receive") \/ Goto(w, "submit")
           \/ Goto(w, "collect") \/ Goto(w, "check")
    BY <1>3, Zenon DEF WorkerRefresh, WorkerReceiveNone, WorkerSubmitDone,
       WorkerCollectDone, WorkerTerminate, WorkerRestart, brokerVars
  <2>. QED  BY <2>1, QuietIInv, Zenon DEF WorkerLabels
<1>. QED  BY <1>1, <1>2, <1>3, ReceiveIInv, CompileIInv, SubmitIInv, CollectIInv, EndIInv, Zenon
  DEF Next, Selector, Worker

\* However many workers share a dispatch queue or claim one device name, and
\* whatever crashes, a task is executed only on a device that it was assigned
\* to and that the selector found able to run it.
THEOREM ExecutionFollowsAssignment == Spec => []ExecutedWhereAssigned
<1>1. IInv => ExecutedWhereAssigned
  <2>. SUFFICES ASSUME IInv, NEW w \in Workers, NEW m \in Assigned,
                       ready[w][m] + submitted[w][m] > 0
                PROVE  m[2] = DeviceOf[w]
    BY Zenon DEF ExecutedWhereAssigned, IInv
  <2>1. ready[w][m] \in Nat /\ submitted[w][m] \in Nat
    BY Zenon DEF IInv, Types, Copies
  <2>2. ready[w][m] > 0 \/ submitted[w][m] > 0
    BY <2>1
  <2>. QED  BY <2>2, HeldFacts, Zenon DEF PlacedIn
<1>. QED  BY <1>1, InitIInv, NextIInv, PTL DEF Spec

(***************************************************************************)
(* Types of the whole state.                                               *)
(***************************************************************************)

Counters == [Tasks -> Nat]

\* Nothing but the selector's assignment step holds a task, and every entry
\* names a queue that exists, so a forwarded task arrives somewhere.
SelectorTypes ==
  /\ statuses \subseteq Backend
  /\ spc \in {"check", "status", "tasks", "assign", "stopped", "crashed"}
  /\ sflag \in BOOLEAN /\ choosing \in Tasks \cup {None}
  /\ spc = "assign" <=> choosing # None
  /\ \A n \in DOMAIN entries : entries[n].backend \in Backend

WorkerTypes == flag \in [Workers -> BOOLEAN] /\ registered \in [Workers -> BOOLEAN]

HistoryTypes ==
  /\ unsent \subseteq Tasks /\ intake \in Counters
  /\ results \in Counters /\ cancellations \in Counters /\ lostSends \in Counters
  /\ abandoned \in Counters /\ crashed \in Counters /\ ackFailures \in Counters
  /\ stops \in Nat

TInv == IInv /\ SelectorTypes /\ WorkerTypes /\ HistoryTypes

LEMMA TypesFacts == TInv => TypeOK
<1>. SUFFICES ASSUME TInv PROVE TypeOK
  BY Zenon
<1>1. executedOn \subseteq Assigned
  BY SuitsFacts, Zenon DEF TInv, IInv
<1>. QED  BY <1>1, Zenon DEF TInv, IInv, Types, Copies, SelectorTypes, WorkerTypes,
             HistoryTypes, Counters, TypeOK

LEMMA InitTInv == Init => TInv
<1>. SUFFICES ASSUME Init PROVE TInv
  BY Zenon
<1>1. SelectorTypes
  BY DistributedAssumption, Zenon DEF Init, SelectorTypes, EmptyRegistry
<1>2. WorkerTypes /\ HistoryTypes
  BY Zenon DEF Init, WorkerTypes, HistoryTypes, Counters, Zero
<1>. QED  BY <1>1, <1>2, InitIInv, Zenon DEF TInv

LEMMA CountFacts ==
  ASSUME NEW f \in Counters, NEW t \in Tasks
  PROVE  /\ Incremented(f, t) \in Counters
         /\ f[t] > 0 => Decremented(f, t) \in Counters
         /\ \A u \in Tasks : /\ u # t => Incremented(f, t)[u] = f[u] /\ Decremented(f, t)[u] = f[u]
                             /\ Incremented(f, t)[t] = f[t] + 1
                             /\ Decremented(f, t)[t] = f[t] - 1
BY DEF Incremented, Decremented, Counters

\* What the proofs use of sums over finite sets (proved in
\* DistributedTheorems): of natural numbers, of zeros, and of functions that
\* differ at one point.
SumLaws ==
  \A S : IsFiniteSet(S) =>
    /\ \A f \in [S -> Nat] : SumFunction(f) \in Nat
    /\ \A f : DOMAIN f = S /\ (\A y \in S : f[y] = 0) => SumFunction(f) = 0
    /\ \A f, h \in [S -> Nat], x \in S :
         (\A y \in S : y # x => h[y] = f[y]) => SumFunction(h) + f[x] = SumFunction(f) + h[x]

LEMMA SumNat ==
  ASSUME SumLaws, NEW S, IsFiniteSet(S), NEW f \in [S -> Nat]
  PROVE  SumFunction(f) \in Nat
BY Zenon DEF SumLaws

LEMMA SumZero ==
  ASSUME SumLaws, NEW S, IsFiniteSet(S), NEW f, DOMAIN f = S,
         \A y \in S : f[y] = 0
  PROVE  SumFunction(f) = 0
BY Zenon DEF SumLaws

LEMMA SumOnePoint ==
  ASSUME SumLaws, NEW S, IsFiniteSet(S), NEW f \in [S -> Nat], NEW h \in [S -> Nat],
         NEW x \in S, \A y \in S : y # x => h[y] = f[y]
  PROVE  SumFunction(h) + f[x] = SumFunction(f) + h[x]
BY DEF SumLaws

\* A sum is at least each of its terms.
LEMMA SumBounds ==
  ASSUME SumLaws, NEW S, IsFiniteSet(S), NEW f \in [S -> Nat], NEW x \in S
  PROVE  f[x] <= SumFunction(f)
<1>. DEFINE h == [f EXCEPT ![x] = 0]
<1>1. h \in [S -> Nat] /\ h[x] = 0 /\ \A y \in S : y # x => h[y] = f[y]
  BY Zenon
<1>. HIDE DEF h
<1>2. SumFunction(h) + f[x] = SumFunction(f) + h[x]
  BY <1>1, SumOnePoint
<1>3. SumFunction(h) \in Nat /\ SumFunction(f) \in Nat /\ f[x] \in Nat
  BY <1>1, SumNat, Zenon
<1>. QED  BY <1>1, <1>2, <1>3

\* The copies counted by f, and the copies held, are natural numbers.
LEMMA CopiesNat ==
  ASSUME SumLaws, NEW f \in Copies, NEW t \in Tasks
  PROVE  CopiesOf(f, t) \in Nat
<1>1. [n \in Names |-> f[<<t, n>>]] \in [Names -> Nat]
  BY Zenon DEF Copies, Assigned
<1>. QED  BY <1>1, SumNat, DistributedAssumption, Zenon DEF CopiesOf

\* The copies of t a worker holds that prepares p, has scheduled r and has
\* submitted c.
HeldBy(p, r, c, t) ==
  SumFunction([n \in Names |-> r[<<t, n>>] + c[<<t, n>>]
                                 + (IF p = <<t, n>> THEN 1 ELSE 0)])

LEMMA HeldIs ==
  ASSUME NEW w \in Workers, NEW t \in Tasks
  PROVE  /\ Held(w, t) = HeldBy(preparing[w], ready[w], submitted[w], t)
         /\ Held(w, t)' = HeldBy(preparing'[w], ready'[w], submitted'[w], t)
BY Zenon DEF Held, HeldBy

LEMMA HeldNat ==
  ASSUME SumLaws, NEW p, NEW r \in Copies, NEW c \in Copies, NEW t \in Tasks
  PROVE  HeldBy(p, r, c, t) \in Nat
<1>1. ASSUME NEW n \in Names
      PROVE  r[<<t, n>>] + c[<<t, n>>] + (IF p = <<t, n>> THEN 1 ELSE 0) \in Nat
  BY DEF Copies, Assigned
<1>2. [n \in Names |-> r[<<t, n>>] + c[<<t, n>>]
               + (IF p = <<t, n>> THEN 1 ELSE 0)] \in [Names -> Nat]
  BY <1>1, Zenon
<1>. QED  BY <1>2, SumNat, DistributedAssumption, Zenon DEF HeldBy

LEMMA SendTypes ==
  ASSUME HistoryTypes, NEW t \in Tasks, sendResult(t) \/ sendFailure(t)
  PROVE  results' \in Counters /\ cancellations' \in Counters /\ lostSends' \in Counters
BY CountFacts, Zenon DEF HistoryTypes, sendResult, sendFailure, SendLost

LEMMA SelectorTInv ==
  ASSUME TInv,
         \/ SelectorStop \/ SelectorBegin \/ SelectorExpire \/ SelectorTasksEnd
         \/ SelectorTerminate \/ SelectorRestart
         \/ \E s \in statuses : SelectorStatus(s)
  PROVE  SelectorTypes' /\ WorkerTypes' /\ HistoryTypes'
<1>1. WorkerTypes' /\ HistoryTypes'
  BY DEF TInv, WorkerTypes, HistoryTypes, SelectorStop, SelectorBegin,
     SelectorExpire, SelectorTasksEnd, SelectorTerminate, SelectorRestart,
     SelectorStatus, brokerVars, workerVars, answerVars
<1>2. CASE SelectorStop \/ SelectorBegin \/ SelectorTasksEnd \/ SelectorTerminate
  <2>1. UNCHANGED <<statuses, choosing, entries>> /\ sflag' \in BOOLEAN
    BY <1>2, Zenon DEF TInv, SelectorTypes, SelectorStop, SelectorBegin,
       SelectorTasksEnd, SelectorTerminate, brokerVars
  <2>2. \/ UNCHANGED spc
        \/ spc \in {"check", "tasks"} /\ spc' \in {"stopped", "status", "check"}
    BY <1>2, Zenon DEF SelectorStop, SelectorBegin, SelectorTasksEnd, SelectorTerminate
  <2>. QED  BY <1>1, <2>1, <2>2, Zenon DEF TInv, SelectorTypes
<1>3. CASE SelectorExpire
  <2>1. UNCHANGED <<statuses, choosing, sflag>> /\ spc = "status" /\ spc' = "tasks"
    BY <1>3, Zenon DEF SelectorExpire, brokerVars
  <2>2. \A n \in DOMAIN entries' : n \in DOMAIN entries /\ entries'[n] = entries[n]
    BY <1>3, Zenon DEF SelectorExpire
  <2>. QED  BY <1>1, <2>1, <2>2, Zenon DEF TInv, SelectorTypes
<1>4. CASE SelectorRestart
  <2>1. /\ UNCHANGED <<statuses, choosing>> /\ sflag' = FALSE
        /\ spc \in {"stopped", "crashed"} /\ spc' = "check"
    BY <1>4, Zenon DEF SelectorRestart, SelectorRunning, brokerVars
  <2>2. DOMAIN entries' = {}
    BY <1>4, Zenon DEF SelectorRestart, EmptyRegistry
  <2>. QED  BY <1>1, <2>1, <2>2, Zenon DEF TInv, SelectorTypes
<1>5. ASSUME NEW s \in statuses, SelectorStatus(s) PROVE SelectorTypes'
  <2>1. s \in Backend
    BY Zenon DEF TInv, SelectorTypes
  <2>2. \A n \in DOMAIN entries' : entries'[n].backend \in Backend
    BY <1>5, <2>1 DEF SelectorStatus, insertOrRefresh, TInv, SelectorTypes
  <2>. QED  BY <1>5, <2>2, Zenon DEF SelectorStatus, TInv, SelectorTypes
<1>. QED  BY <1>1, <1>2, <1>3, <1>4, <1>5, Zenon

LEMMA SelectorTaskTInv ==
  ASSUME TInv,
         \/ SelectorAssign \/ SelectorCrash
         \/ \E t \in Tasks : SelectorReceive(t) \/ ClientSends(t)
  PROVE  SelectorTypes' /\ WorkerTypes' /\ HistoryTypes'
<1>1. WorkerTypes'
  BY Zenon DEF TInv, WorkerTypes, SelectorAssign, SelectorCrash, SelectorReceive,
     ClientSends, workerVars
<1>2. CASE SelectorAssign
  <2>1. choosing \in Tasks
    BY <1>2, Zenon DEF TInv, SelectorTypes, SelectorAssign
  <2>2. HistoryTypes'
    BY <1>2, <2>1, SendTypes, CountFacts, Zenon DEF TInv, HistoryTypes, SelectorAssign,
       SendLost, answerVars
  <2>. QED  BY <1>1, <1>2, <2>2, Zenon DEF TInv, SelectorTypes, SelectorAssign
<1>3. CASE SelectorCrash
  <2>1. crashed' \in Counters
    BY <1>3 DEF TInv, HistoryTypes, SelectorCrash, Counters
  <2>. QED  BY <1>1, <1>3, <2>1 DEF TInv, HistoryTypes, SelectorTypes, SelectorCrash,
               brokerVars, answerVars
<1>4. ASSUME NEW t \in Tasks, SelectorReceive(t) PROVE SelectorTypes' /\ HistoryTypes'
  <2>1. intake' \in Counters /\ ackFailures' \in Counters
    BY <1>4, CountFacts, Zenon DEF TInv, HistoryTypes, SelectorReceive, AckFails
  <2>2. t # None
    BY DistributedAssumption, Zenon
  <2>3. UNCHANGED <<statuses, sflag, entries>> /\ spc' = "assign" /\ choosing' = t
    BY <1>4, Zenon DEF SelectorReceive
  <2>4. SelectorTypes'
    BY <2>2, <2>3, Zenon DEF TInv, SelectorTypes
  <2>. QED  BY <1>4, <2>1, <2>4, Zenon DEF TInv, HistoryTypes, SelectorReceive, answerVars
<1>5. ASSUME NEW t \in Tasks, ClientSends(t) PROVE SelectorTypes' /\ HistoryTypes'
  BY <1>5, CountFacts, Zenon DEF TInv, HistoryTypes, SelectorTypes, ClientSends,
     selectorVars, answerVars
<1>. QED  BY <1>1, <1>2, <1>3, <1>4, <1>5, Zenon

LEMMA WorkerTInv ==
  ASSUME SumLaws, TInv, NEW w \in Workers,
         Worker(w) \/ WorkerTerminate(w) \/ WorkerCrash(w) \/ WorkerRestart(w)
  PROVE  SelectorTypes' /\ WorkerTypes' /\ HistoryTypes'
<1>1. CASE \/ WorkerReceiveNone(w) \/ WorkerSubmitDone(w) \/ WorkerCollectDone(w)
           \/ WorkerTerminate(w) \/ WorkerRestart(w)
  <2>1. WorkerTypes'
    BY <1>1, Zenon DEF WorkerReceiveNone, WorkerSubmitDone, WorkerCollectDone,
       WorkerTerminate, WorkerRestart, TInv, WorkerTypes
  <2>2. UNCHANGED <<brokerVars, selectorVars, answerVars, abandoned, crashed, ackFailures>>
    BY <1>1, Zenon DEF WorkerReceiveNone, WorkerSubmitDone, WorkerCollectDone,
       WorkerTerminate, WorkerRestart
  <2>3. stops' \in Nat
    BY <1>1 DEF WorkerReceiveNone, WorkerSubmitDone, WorkerCollectDone,
       WorkerTerminate, WorkerRestart, TInv, HistoryTypes
  <2>. QED  BY <2>1, <2>2, <2>3, Zenon DEF TInv, SelectorTypes, HistoryTypes,
               brokerVars, selectorVars, answerVars
<1>2. CASE WorkerRefresh(w)
  <2>1. \A online \in BOOLEAN : Status(w, online) \in Backend
    BY DistributedAssumption, Zenon DEF Status, Backend
  <2>. QED  BY <1>2, <2>1, Zenon DEF WorkerRefresh, publish, TInv, SelectorTypes,
               WorkerTypes, HistoryTypes, selectorVars, answerVars
<1>3. CASE WorkerStop(w)
  <2>1. \A t \in Tasks : CopiesOf(ready[w], t) \in Nat
    BY CopiesNat, Zenon DEF TInv, IInv, Types
  <2>2. abandoned' \in Counters
    BY <1>3, <2>1 DEF WorkerStop, TInv, HistoryTypes, Counters
  <2>. QED  BY <1>3, <2>2, Zenon DEF WorkerStop, TInv, SelectorTypes, WorkerTypes,
               HistoryTypes, brokerVars, selectorVars, answerVars
<1>4. CASE WorkerCrash(w)
  <2>.  ready[w] \in Copies /\ submitted[w] \in Copies
    BY Zenon DEF TInv, IInv, Types
  <2>1. \A t \in Tasks : Held(w, t) \in Nat
    BY HeldIs, HeldNat, Zenon
  <2>2. crashed' \in Counters
    BY <1>4, <2>1 DEF WorkerCrash, TInv, HistoryTypes, Counters
  <2>. QED  BY <1>4, <2>2 DEF WorkerCrash, TInv, SelectorTypes, WorkerTypes,
               HistoryTypes, brokerVars, selectorVars, answerVars
<1>5. CASE compileAndSchedule(w)
  <2>1. preparing[w] \in Assigned
    BY <1>5, SuitsFacts, Zenon DEF compileAndSchedule, TInv, IInv, Routed
  <2>2. preparing[w][1] \in Tasks
    BY <2>1, Zenon DEF Assigned
  <2>3. results' \in Counters /\ cancellations' \in Counters /\ lostSends' \in Counters
    BY <1>5, <2>2, SendTypes, Zenon DEF compileAndSchedule, TInv, HistoryTypes, answerVars
  <2>. QED  BY <1>5, <2>3, Zenon DEF compileAndSchedule, TInv, SelectorTypes, WorkerTypes,
               HistoryTypes, brokerVars, selectorVars
<1>6. ASSUME NEW m \in Assigned, WorkerReceive(w, m)
      PROVE  SelectorTypes' /\ WorkerTypes' /\ HistoryTypes'
  <2>1. m[1] \in Tasks
    BY Zenon DEF Assigned
  <2>2. ackFailures' \in Counters
    BY <1>6, <2>1, CountFacts, Zenon DEF WorkerReceive, AckFails, TInv, HistoryTypes
  <2>. QED  BY <1>6, <2>2, Zenon DEF WorkerReceive, TInv, SelectorTypes, WorkerTypes,
               HistoryTypes, selectorVars, answerVars
<1>7. ASSUME NEW m \in Assigned, WorkerSubmit(w, m)
      PROVE  SelectorTypes' /\ WorkerTypes' /\ HistoryTypes'
  <2>1. m[1] \in Tasks
    BY Zenon DEF Assigned
  <2>2. /\ results' \in Counters /\ cancellations' \in Counters /\ lostSends' \in Counters
        /\ abandoned' \in Counters
    BY <1>7, <2>1, CountFacts, SendTypes, ZenonT(30)
    DEF WorkerSubmit, TInv, HistoryTypes, answerVars
  <2>. QED  BY <1>7, <2>2, Zenon DEF WorkerSubmit, TInv, SelectorTypes, WorkerTypes,
               HistoryTypes, brokerVars, selectorVars
<1>8. ASSUME NEW m \in Assigned, WorkerCollect(w, m)
      PROVE  SelectorTypes' /\ WorkerTypes' /\ HistoryTypes'
  <2>1. m[1] \in Tasks
    BY Zenon DEF Assigned
  <2>2. \A t \in Tasks : CopiesOf(submitted[w], t) \in Nat
    BY CopiesNat, Zenon DEF TInv, IInv, Types
  <2>3. abandoned' \in Counters
    <3>1. abandoned \in Counters
      BY Zenon DEF TInv, HistoryTypes
    <3>2. \/ UNCHANGED abandoned
          \/ abandoned' = [t \in Tasks |-> abandoned[t] + CopiesOf(submitted[w], t)]
      BY <1>8, Zenon DEF WorkerCollect
    <3>. QED  BY <2>2, <3>1, <3>2 DEF Counters
  <2>4. results' \in Counters /\ cancellations' \in Counters /\ lostSends' \in Counters
    BY <1>8, <2>1, SendTypes, Zenon DEF WorkerCollect, TInv, HistoryTypes, answerVars
  <2>. QED  BY <1>8, <2>3, <2>4, Zenon DEF WorkerCollect, TInv, SelectorTypes, WorkerTypes,
               HistoryTypes, brokerVars, selectorVars
<1>. QED  BY <1>1, <1>2, <1>3, <1>4, <1>5, <1>6, <1>7, <1>8, Zenon DEF Worker

LEMMA NextTInv == SumLaws /\ TInv /\ [Next]_vars => TInv'
<1>. SUFFICES ASSUME SumLaws, TInv, [Next]_vars PROVE TInv'
  BY Zenon
<1>1. IInv'
  BY NextIInv, Zenon DEF TInv
<1>2. CASE UNCHANGED vars
  BY <1>1, <1>2, Zenon DEF vars, TInv, SelectorTypes, WorkerTypes, HistoryTypes
<1>. QED  BY <1>1, <1>2, SelectorTInv, SelectorTaskTInv, WorkerTInv, Zenon DEF TInv, Next, Selector

(***************************************************************************)
(* A worker has at most one task in flight.                                *)
(***************************************************************************)

\* One copy of one forwarded task.
Single(m) == Incremented(Empty, m)

\* A worker's loop takes a task only when it holds none, and what it took is
\* either being prepared, or scheduled, or submitted.
InFlight(w) ==
  /\ preparing[w] # None <=> pc[w] = "prepare"
  /\ pc[w] \notin {"submit", "collect"} => ready[w] = Empty /\ submitted[w] = Empty
  /\ pc[w] = "collect" => ready[w] = Empty
  /\ \/ ready[w] = Empty /\ submitted[w] = Empty
     \/ \E m \in Assigned : \/ ready[w] = Single(m) /\ submitted[w] = Empty
                            \/ ready[w] = Empty /\ submitted[w] = Single(m)

FInv == TInv /\ \A w \in Workers : InFlight(w)

\* A step that touches nothing worker v holds.
SameAt(v) ==
  /\ pc'[v] = pc[v] /\ preparing'[v] = preparing[v]
  /\ ready'[v] = ready[v] /\ submitted'[v] = submitted[v]

LEMMA SameInFlight ==
  ASSUME NEW v \in Workers, InFlight(v), SameAt(v) PROVE InFlight(v)'
BY Zenon DEF InFlight, SameAt

\* A worker's step touches only what that worker holds.
LEMMA OthersSame ==
  ASSUME TInv, NEW w \in Workers,
         Worker(w) \/ WorkerTerminate(w) \/ WorkerCrash(w) \/ WorkerRestart(w)
  PROVE  \A v \in Workers \ {w} : SameAt(v)
<1>1. CASE \/ WorkerReceiveNone(w) \/ WorkerSubmitDone(w) \/ WorkerCollectDone(w)
           \/ WorkerTerminate(w) \/ WorkerRestart(w) \/ WorkerRefresh(w)
  BY <1>1, Zenon DEF WorkerReceiveNone, WorkerSubmitDone, WorkerCollectDone,
     WorkerTerminate, WorkerRestart, WorkerRefresh, Goto, SameAt, TInv, IInv, Types
<1>2. CASE WorkerStop(w) \/ WorkerCrash(w) \/ compileAndSchedule(w)
  BY <1>2, Zenon DEF WorkerStop, WorkerCrash, compileAndSchedule, Goto, SameAt, TInv, IInv, Types
<1>3. ASSUME NEW m \in Assigned, WorkerReceive(w, m) \/ WorkerSubmit(w, m) \/ WorkerCollect(w, m)
      PROVE  \A v \in Workers \ {w} : SameAt(v)
  BY <1>3, Zenon DEF WorkerReceive, WorkerSubmit, WorkerCollect, Goto, SameAt, TInv, IInv, Types
<1>. QED  BY <1>1, <1>2, <1>3, Zenon DEF Worker

LEMMA SingleFacts ==
  ASSUME NEW m \in Assigned
  PROVE  /\ \A k \in Assigned : Single(m)[k] > 0 => k = m
         /\ Decremented(Single(m), m) = Empty /\ Single(m)[m] = 1
         /\ \A k \in Assigned : k # m => Single(m)[k] = 0
         /\ Single(m) \in Copies
BY DEF Single, Incremented, Decremented, Empty, Copies

\* A worker takes a task only with empty hands.
LEMMA ReceiveInFlight ==
  ASSUME FInv, NEW w \in Workers, NEW m \in Assigned, WorkerReceive(w, m)
  PROVE  /\ preparing[w] = None /\ ready[w] = Empty /\ submitted[w] = Empty
         /\ preparing'[w] = m /\ ready'[w] = Empty /\ submitted'[w] = Empty
         /\ InFlight(w)'
<1>1. /\ pc[w] = "receive" /\ pc'[w] = "prepare" /\ preparing'[w] = m
      /\ UNCHANGED <<ready, submitted>>
  BY Zenon DEF WorkerReceive, Goto, FInv, TInv, IInv, Types
<1>2. preparing[w] = None /\ ready[w] = Empty /\ submitted[w] = Empty
  BY <1>1, Zenon DEF FInv, InFlight
<1>3. m # None
  BY DistributedAssumption, Zenon DEF Assigned
<1>. QED  BY <1>1, <1>2, <1>3, Zenon DEF InFlight

LEMMA CompileInFlight ==
  ASSUME FInv, NEW w \in Workers, compileAndSchedule(w)
  PROVE  /\ preparing[w] \in Assigned /\ ready[w] = Empty /\ submitted[w] = Empty
         /\ preparing'[w] = None /\ submitted'[w] = Empty
         /\ ready'[w] = IF UNCHANGED ready THEN Empty ELSE Single(preparing[w])
         /\ InFlight(w)'
<1>1. /\ pc[w] = "prepare" /\ pc'[w] = "submit" /\ preparing'[w] = None
      /\ UNCHANGED submitted
      /\ UNCHANGED ready \/ ready' = [ready EXCEPT ![w] = Incremented(@, preparing[w])]
  BY Zenon DEF compileAndSchedule, Goto, FInv, TInv, IInv, Types
<1>2. preparing[w] # None /\ ready[w] = Empty /\ submitted[w] = Empty
  BY <1>1, Zenon DEF FInv, InFlight
<1>3. preparing[w] \in Assigned
  BY <1>2, SuitsFacts, Zenon DEF FInv, TInv, IInv, Routed
<1>4. ready'[w] = IF UNCHANGED ready THEN Empty ELSE Single(preparing[w])
  BY <1>1, <1>2, Zenon DEF FInv, TInv, IInv, Types, Single
<1>. QED  BY <1>1, <1>2, <1>3, <1>4, Zenon DEF InFlight

\* What is submitted was the only task in the worker's hands.
LEMMA SubmitInFlight ==
  ASSUME FInv, NEW w \in Workers, NEW m \in Assigned, WorkerSubmit(w, m)
  PROVE  /\ preparing[w] = None /\ ready[w] = Single(m) /\ submitted[w] = Empty
         /\ preparing'[w] = None /\ ready'[w] = Empty
         /\ submitted'[w] = IF UNCHANGED submitted THEN Empty ELSE Single(m)
         /\ InFlight(w)'
<1>1. /\ pc[w] = "submit" /\ pc'[w] \in {"submit", "collect"} /\ UNCHANGED preparing
      /\ ready[w][m] > 0 /\ ready'[w] = Decremented(ready[w], m)
      /\ UNCHANGED submitted \/ submitted' = [submitted EXCEPT ![w] = Incremented(@, m)]
  BY Zenon DEF WorkerSubmit, Goto, FInv, TInv, IInv, Types
<1>2. preparing[w] = None
  BY <1>1, Zenon DEF FInv, InFlight
<1>3. ready[w] = Single(m) /\ submitted[w] = Empty
  BY <1>1, SingleFacts, EmptyFacts, Zenon DEF FInv, InFlight
<1>4. ready'[w] = Empty
  BY <1>1, <1>3, SingleFacts, Zenon
<1>5. submitted'[w] = IF UNCHANGED submitted THEN Empty ELSE Single(m)
  BY <1>1, <1>3, Zenon DEF FInv, TInv, IInv, Types, Single
<1>. QED  BY <1>1, <1>2, <1>3, <1>4, <1>5, Zenon DEF InFlight

LEMMA CollectInFlight ==
  ASSUME FInv, NEW w \in Workers, NEW m \in Assigned, WorkerCollect(w, m)
  PROVE  /\ preparing[w] = None /\ ready[w] = Empty /\ submitted[w] = Single(m)
         /\ preparing'[w] = None /\ ready'[w] = Empty /\ submitted'[w] = Empty
         /\ InFlight(w)'
<1>1. /\ pc[w] = "collect" /\ pc'[w] \in {"collect", "check"} /\ UNCHANGED <<preparing, ready>>
      /\ submitted[w][m] > 0
      /\ submitted'[w] \in {Decremented(submitted[w], m), Empty}
  BY Zenon DEF WorkerCollect, Goto, FInv, TInv, IInv, Types
<1>2. preparing[w] = None /\ ready[w] = Empty
  BY <1>1, Zenon DEF FInv, InFlight
<1>3. submitted[w] = Single(m)
  BY <1>1, SingleFacts, EmptyFacts, Zenon DEF FInv, InFlight
<1>4. submitted'[w] = Empty
  BY <1>1, <1>3, SingleFacts, Zenon
<1>. QED  BY <1>1, <1>2, <1>3, <1>4, Zenon DEF InFlight

\* When a loop ends the worker holds nothing; after a crash neither.
LEMMA EndInFlight ==
  ASSUME FInv, NEW w \in Workers, WorkerStop(w) \/ WorkerCrash(w)
  PROVE  /\ WorkerStop(w) => preparing[w] = None /\ ready[w] = Empty /\ submitted[w] = Empty
         /\ preparing'[w] = None /\ ready'[w] = Empty /\ submitted'[w] = Empty
         /\ InFlight(w)'
<1>1. CASE WorkerStop(w)
  <2>1. /\ pc[w] = "check" /\ pc'[w] = "stopped" /\ UNCHANGED <<preparing, submitted>>
        /\ ready'[w] = Empty
    BY <1>1, Zenon DEF WorkerStop, Goto, FInv, TInv, IInv, Types
  <2>2. preparing[w] = None /\ ready[w] = Empty /\ submitted[w] = Empty
    BY <2>1, Zenon DEF FInv, InFlight
  <2>. QED  BY <2>1, <2>2, Zenon DEF InFlight
<1>2. CASE WorkerCrash(w)
  <2>1. /\ pc[w] \notin {"stopped", "crashed"} /\ pc'[w] = "crashed"
        /\ preparing'[w] = None /\ ready'[w] = Empty /\ submitted'[w] = Empty
    BY <1>2, Zenon DEF WorkerCrash, WorkerRunning, Goto, FInv, TInv, IInv, Types
  <2>2. ~WorkerStop(w)
    <3>1. WorkerStop(w) => pc'[w] = "stopped"
      BY Zenon DEF WorkerStop, Goto, FInv, TInv, IInv, Types
    <3>. QED  BY <2>1, <3>1, Zenon
  <2>. QED  BY <2>1, <2>2, Zenon DEF InFlight
<1>. QED  BY <1>1, <1>2, Zenon

\* The steps that leave a worker's tasks where they are.
LEMMA KeepInFlight ==
  ASSUME FInv, NEW w \in Workers,
         \/ WorkerRefresh(w) \/ WorkerReceiveNone(w) \/ WorkerSubmitDone(w)
         \/ WorkerCollectDone(w) \/ WorkerTerminate(w) \/ WorkerRestart(w)
  PROVE  UNCHANGED <<preparing, ready, submitted>> /\ InFlight(w)'
<1>1. UNCHANGED <<preparing, ready, submitted>>
  BY Zenon DEF WorkerRefresh, WorkerReceiveNone, WorkerSubmitDone, WorkerCollectDone,
     WorkerTerminate, WorkerRestart
<1>2. \/ UNCHANGED pc
      \/ /\ pc[w] \in {"check", "receive", "stopped", "crashed"}
         /\ pc'[w] \in {"receive", "submit", "check"}
      \/ pc[w] = "submit" /\ pc'[w] = "collect" /\ ready[w] = Empty
      \/ pc[w] = "collect" /\ pc'[w] = "check" /\ submitted[w] = Empty
  BY Zenon DEF WorkerRefresh, WorkerReceiveNone, WorkerSubmitDone, WorkerCollectDone,
     WorkerTerminate, WorkerRestart, WorkerRunning, Goto, FInv, TInv, IInv, Types, WorkerLabels
<1>. QED  BY <1>1, <1>2, Zenon DEF FInv, InFlight

LEMMA InitFInv == Init => FInv
<1>. SUFFICES ASSUME Init PROVE FInv
  BY Zenon
<1>1. \A w \in Workers : InFlight(w)
  BY Zenon DEF Init, InFlight
<1>. QED  BY <1>1, InitTInv, Zenon DEF FInv

LEMMA NextFInv == SumLaws /\ FInv /\ [Next]_vars => FInv'
<1>. SUFFICES ASSUME SumLaws, FInv, [Next]_vars PROVE FInv'
  BY Zenon
<1>1. TInv'
  BY NextTInv, Zenon DEF FInv
<1>2. CASE \/ UNCHANGED vars \/ \E t \in Tasks : ClientSends(t)
           \/ Selector \/ SelectorTerminate \/ SelectorCrash \/ SelectorRestart
  <2>1. UNCHANGED <<pc, preparing, ready, submitted>>
    BY <1>2, Zenon DEF vars, ClientSends, Selector, SelectorTerminate, SelectorCrash,
       SelectorRestart, SelectorStop, SelectorBegin, SelectorExpire,
       SelectorTasksEnd, SelectorAssign, SelectorStatus, SelectorReceive, workerVars
  <2>. QED  BY <1>1, <2>1, Zenon DEF FInv, InFlight
<1>3. ASSUME NEW w \in Workers,
             Worker(w) \/ WorkerTerminate(w) \/ WorkerCrash(w) \/ WorkerRestart(w)
      PROVE  \A v \in Workers : InFlight(v)'
  <2>1. InFlight(w)'
    BY <1>3, ReceiveInFlight, CompileInFlight, SubmitInFlight, CollectInFlight,
       EndInFlight, KeepInFlight, Zenon DEF Worker
  <2>2. \A v \in Workers \ {w} : InFlight(v)'
    BY <1>3, OthersSame, SameInFlight, Zenon DEF FInv
  <2>. QED  BY <2>1, <2>2, Zenon
<1>. QED  BY <1>1, <1>2, <1>3, Zenon DEF FInv, Next

\* A worker that holds nothing, and one that holds m and nothing else.
LEMMA HeldNone ==
  ASSUME SumLaws, NEW t \in Tasks
  PROVE  HeldBy(None, Empty, Empty, t) = 0
<1>. DEFINE f == [n \in Names |-> Empty[<<t, n>>] + Empty[<<t, n>>]
                                    + (IF None = <<t, n>> THEN 1 ELSE 0)]
<1>1. \A n \in Names : f[n] = 0
  BY DistributedAssumption DEF Empty, Assigned
<1>2. DOMAIN f = Names
  BY Zenon
<1>. HIDE DEF f
<1>3. SumFunction(f) = 0
  BY <1>1, <1>2, SumZero, DistributedAssumption, Zenon
<1>. QED  BY <1>3, Zenon DEF f, HeldBy

\* One copy of the task of m, none of another.
One(m, t) == IF t = m[1] THEN 1 ELSE 0

LEMMA SingleSum ==
  ASSUME SumLaws, NEW m \in Assigned, NEW t \in Tasks,
         NEW f \in [Names -> Nat], \A n \in Names : f[n] = IF m = <<t, n>> THEN 1 ELSE 0
  PROVE  SumFunction(f) = One(m, t)
<1>. DEFINE zero == [n \in Names |-> 0]
<1>.  zero \in [Names -> Nat] /\ \A n \in Names : zero[n] = 0
  BY Zenon
<1>. HIDE DEF zero
<1>1. SumFunction(zero) = 0
  BY SumZero, DistributedAssumption, Zenon
<1>2. m[1] \in Tasks /\ m[2] \in Names /\ m = <<m[1], m[2]>>
  BY DEF Assigned
<1>3. CASE t # m[1]
  <2>1. \A n \in Names : f[n] = 0
    BY <1>2, <1>3
  <2>. QED  BY <1>3, <2>1, SumZero, DistributedAssumption, Zenon DEF One
<1>4. CASE t = m[1]
  <2>1. f[m[2]] = 1 /\ \A n \in Names : n # m[2] => f[n] = zero[n]
    BY <1>2, <1>4
  <2>2. SumFunction(f) + zero[m[2]] = SumFunction(zero) + f[m[2]]
    BY <1>2, <2>1, SumOnePoint, DistributedAssumption
  <2>3. SumFunction(f) \in Nat
    BY SumNat, DistributedAssumption, Zenon
  <2>. QED  BY <1>1, <1>2, <1>4, <2>1, <2>2, <2>3 DEF One
<1>. QED  BY <1>3, <1>4, Zenon

LEMMA HeldOne ==
  ASSUME SumLaws, NEW t \in Tasks, NEW m \in Assigned, NEW p, NEW r, NEW c,
         \/ p = m /\ r = Empty /\ c = Empty
         \/ p = None /\ r = Single(m) /\ c = Empty
         \/ p = None /\ r = Empty /\ c = Single(m)
  PROVE  HeldBy(p, r, c, t) = One(m, t)
<1>. DEFINE f == [n \in Names |-> r[<<t, n>>] + c[<<t, n>>]
                                    + (IF p = <<t, n>> THEN 1 ELSE 0)]
<1>1. ASSUME NEW n \in Names PROVE f[n] = IF m = <<t, n>> THEN 1 ELSE 0
  <2>1. <<t, n>> \in Assigned /\ <<t, n>> # None /\ Empty[<<t, n>>] = 0
    BY DistributedAssumption DEF Empty, Assigned
  <2>2. Single(m)[<<t, n>>] = IF m = <<t, n>> THEN 1 ELSE 0
    BY <2>1, SingleFacts, Zenon
  <2>. QED  BY <2>1, <2>2
<1>2. f \in [Names -> Nat]
  <2>1. f = [n \in Names |-> f[n]]
    BY Zenon
  <2>. HIDE DEF f
  <2>. QED  BY <1>1, <2>1
<1>. HIDE DEF f
<1>3. SumFunction(f) = One(m, t)
  BY <1>1, <1>2, SingleSum, Zenon
<1>. QED  BY <1>3, Zenon DEF f, HeldBy

\* What a worker holds is nothing or one copy of one task.
LEMMA HeldFlight ==
  ASSUME SumLaws, FInv, NEW w \in Workers
  PROVE  \/ \A t \in Tasks : Held(w, t) = 0
         \/ \E m \in Assigned : \A t \in Tasks : Held(w, t) = One(m, t)
<1>1. CASE preparing[w] # None
  <2>1. preparing[w] \in Assigned /\ ready[w] = Empty /\ submitted[w] = Empty
    BY <1>1, Zenon DEF FInv, InFlight, TInv, IInv, Types
  <2>. QED  BY <2>1, HeldIs, HeldOne
<1>2. CASE preparing[w] = None
  BY <1>2, HeldIs, HeldNone, HeldOne DEF FInv, InFlight
<1>. QED  BY <1>1, <1>2, Zenon

LEMMA FlightBound ==
  ASSUME SumLaws, FInv PROVE OneTaskInFlight
<1>1. ASSUME NEW w \in Workers
      PROVE  SumFunction([t \in Tasks |-> Held(w, t)]) <= 1
  <2>. DEFINE f == [t \in Tasks |-> Held(w, t)]
              zero == [t \in Tasks |-> 0]
  <2>.  /\ zero \in [Tasks -> Nat] /\ \A t \in Tasks : zero[t] = 0
        /\ DOMAIN f = Tasks /\ \A t \in Tasks : f[t] = Held(w, t)
    BY Zenon
  <2>1. f \in [Tasks -> Nat]
    BY HeldIs, HeldNat DEF FInv, TInv, IInv, Types
  <2>. HIDE DEF f, zero
  <2>2. SumFunction(zero) = 0
    BY SumZero, DistributedAssumption, Zenon
  <2>3. CASE \A t \in Tasks : Held(w, t) = 0
    <3>1. SumFunction(f) = 0
      BY <2>3, SumZero, DistributedAssumption, Zenon
    <3>. QED  BY <3>1 DEF f
  <2>4. CASE \E m \in Assigned : \A t \in Tasks : Held(w, t) = One(m, t)
    <3>1. PICK m \in Assigned : \A t \in Tasks : Held(w, t) = One(m, t)
      BY <2>4, Zenon
    <3>2. m[1] \in Tasks
      BY Zenon DEF Assigned
    <3>3. f[m[1]] = 1 /\ \A t \in Tasks : t # m[1] => f[t] = zero[t]
      BY <3>1, <3>2, Zenon DEF One
    <3>4. SumFunction(f) + zero[m[1]] = SumFunction(zero) + f[m[1]]
      BY <2>1, <3>2, <3>3, SumOnePoint, DistributedAssumption
    <3>5. SumFunction(f) \in Nat
      BY <2>1, SumNat, DistributedAssumption, Zenon
    <3>6. SumFunction(f) = 1
      BY <2>2, <3>2, <3>3, <3>4, <3>5
    <3>. QED  BY <3>6 DEF f
  <2>. QED  BY <1>1, <2>3, <2>4, HeldFlight, Zenon
<1>. QED  BY <1>1, Zenon DEF OneTaskInFlight

(***************************************************************************)
(* The copies of a task on the queues and in the workers, as sums.          *)
(***************************************************************************)

LEMMA CopiesIncremented ==
  ASSUME SumLaws, NEW f \in Copies, NEW m \in Assigned, NEW t \in Tasks
  PROVE  CopiesOf(Incremented(f, m), t) = CopiesOf(f, t) + One(m, t)
<1>. DEFINE F == [n \in Names |-> f[<<t, n>>]]
            H == [n \in Names |-> Incremented(f, m)[<<t, n>>]]
<1>1. m[1] \in Tasks /\ m[2] \in Names /\ m = <<m[1], m[2]>>
  BY DEF Assigned
<1>2. F \in [Names -> Nat] /\ H \in [Names -> Nat]
  <2>1. Incremented(f, m) \in Copies
    BY IncrementedFacts, Zenon
  <2>. QED  BY <2>1, Zenon DEF Copies, Assigned
<1>3. \A n \in Names : n # m[2] => H[n] = F[n]
  BY <1>1 DEF Incremented, Copies, Assigned
<1>4. H[m[2]] = F[m[2]] + One(m, t)
  BY <1>1 DEF Incremented, Copies, Assigned, One
<1>5. CopiesOf(f, t) = SumFunction(F) /\ CopiesOf(Incremented(f, m), t) = SumFunction(H)
  BY Zenon DEF CopiesOf
<1>. HIDE DEF F, H
<1>6. SumFunction(H) + F[m[2]] = SumFunction(F) + H[m[2]]
  BY <1>1, <1>2, <1>3, SumOnePoint, DistributedAssumption
<1>7. SumFunction(H) \in Nat /\ SumFunction(F) \in Nat /\ F[m[2]] \in Nat /\ One(m, t) \in Nat
  BY <1>1, <1>2, SumNat, DistributedAssumption, Zenon DEF One
<1>. QED  BY <1>4, <1>5, <1>6, <1>7

LEMMA PutBack ==
  ASSUME NEW f \in Copies, NEW m \in Assigned
  PROVE  Incremented(Decremented(f, m), m) = f
<1>1. f[m] \in Nat /\ (f[m] - 1) + 1 = f[m]
  BY DEF Copies
<1>2. Incremented(Decremented(f, m), m) = [f EXCEPT ![m] = (f[m] - 1) + 1]
  BY Zenon DEF Incremented, Decremented, Copies
<1>. QED  BY <1>1, <1>2, Zenon DEF Copies

\* The copies of t on the dispatch queues b, and those workers hold.
OnQueues(b, t) == SumFunction([q \in Queues |-> CopiesOf(b[q], t)])
InWorkers(t) == SumFunction([w \in Workers |-> Held(w, t)])

LEMMA OnQueuesNat ==
  ASSUME SumLaws, NEW b \in [Queues -> Copies], NEW t \in Tasks
  PROVE  OnQueues(b, t) \in Nat /\ [q \in Queues |-> CopiesOf(b[q], t)] \in [Queues -> Nat]
<1>1. [q \in Queues |-> CopiesOf(b[q], t)] \in [Queues -> Nat]
  BY CopiesNat, Zenon
<1>. QED  BY <1>1, SumNat, DistributedAssumption, Zenon DEF OnQueues

\* A message more on one queue is one copy more of its task.
LEMMA OnQueuesIncremented ==
  ASSUME SumLaws, NEW b \in [Queues -> Copies], NEW q \in Queues, NEW m \in Assigned,
         NEW t \in Tasks
  PROVE  OnQueues([b EXCEPT ![q] = Incremented(@, m)], t) = OnQueues(b, t) + One(m, t)
<1>. DEFINE c == [b EXCEPT ![q] = Incremented(@, m)]
            F == [r \in Queues |-> CopiesOf(b[r], t)]
            H == [r \in Queues |-> CopiesOf(c[r], t)]
<1>1. c \in [Queues -> Copies]
  BY IncrementedFacts, Zenon
<1>2. F \in [Queues -> Nat] /\ H \in [Queues -> Nat]
  BY <1>1, OnQueuesNat, Zenon
<1>3. \A r \in Queues : r # q => H[r] = F[r]
  BY Zenon
<1>4. H[q] = F[q] + One(m, t)
  BY CopiesIncremented, Zenon
<1>5. OnQueues(b, t) = SumFunction(F) /\ OnQueues(c, t) = SumFunction(H)
  BY Zenon DEF OnQueues
<1>. HIDE DEF F, H, c
<1>6. SumFunction(H) + F[q] = SumFunction(F) + H[q]
  BY <1>2, <1>3, SumOnePoint, DistributedAssumption
<1>7. SumFunction(H) \in Nat /\ SumFunction(F) \in Nat /\ F[q] \in Nat /\ One(m, t) \in Nat
  BY <1>2, SumNat, DistributedAssumption, Zenon DEF One
<1>8. OnQueues(c, t) = OnQueues(b, t) + One(m, t)
  BY <1>4, <1>5, <1>6, <1>7
<1>. QED  BY <1>8, Zenon DEF c

LEMMA OnQueuesDecremented ==
  ASSUME SumLaws, NEW b \in [Queues -> Copies], NEW q \in Queues, NEW m \in Assigned,
         NEW t \in Tasks, b[q][m] > 0
  PROVE  OnQueues(b, t) = OnQueues([b EXCEPT ![q] = Decremented(@, m)], t) + One(m, t)
<1>. DEFINE c == [b EXCEPT ![q] = Decremented(@, m)]
<1>1. c \in [Queues -> Copies]
  BY DecrementedFacts, Zenon
<1>2. Incremented(Decremented(b[q], m), m) = b[q]
  BY PutBack, Zenon
<1>3. [c EXCEPT ![q] = Incremented(@, m)] = b
  BY <1>2, Zenon
<1>. HIDE DEF c
<1>4. OnQueues(b, t) = OnQueues(c, t) + One(m, t)
  BY <1>1, <1>3, OnQueuesIncremented
<1>. QED  BY <1>4, Zenon DEF c

LEMMA WorkersNat ==
  ASSUME SumLaws, IInv, NEW t \in Tasks
  PROVE  /\ InWorkers(t) \in Nat
         /\ \A w \in Workers : Held(w, t) \in Nat /\ Held(w, t) <= InWorkers(t)
<1>. DEFINE f == [w \in Workers |-> Held(w, t)]
<1>1. f \in [Workers -> Nat] /\ \A w \in Workers : f[w] = Held(w, t) /\ Held(w, t) \in Nat
  BY HeldIs, HeldNat DEF IInv, Types
<1>2. InWorkers(t) = SumFunction(f)
  BY Zenon DEF InWorkers
<1>. HIDE DEF f
<1>. QED  BY <1>1, <1>2, SumNat, SumBounds, DistributedAssumption

LEMMA SameHeld ==
  ASSUME NEW v \in Workers, NEW t \in Tasks,
         preparing'[v] = preparing[v], ready'[v] = ready[v], submitted'[v] = submitted[v]
  PROVE  Held(v, t)' = Held(v, t)
BY HeldIs, Zenon

\* What a worker holds before and after a step, if it is nothing or just m.
LEMMA HeldNothing ==
  ASSUME SumLaws, NEW w \in Workers, NEW t \in Tasks
  PROVE  /\ preparing[w] = None /\ ready[w] = Empty /\ submitted[w] = Empty => Held(w, t) = 0
         /\ preparing'[w] = None /\ ready'[w] = Empty /\ submitted'[w] = Empty => Held(w, t)' = 0
BY HeldIs, HeldNone

Just(m, p, r, c) ==
  \/ p = m /\ r = Empty /\ c = Empty
  \/ p = None /\ r = Single(m) /\ c = Empty
  \/ p = None /\ r = Empty /\ c = Single(m)

LEMMA HeldSingle ==
  ASSUME SumLaws, NEW w \in Workers, NEW t \in Tasks, NEW m \in Assigned
  PROVE  /\ Just(m, preparing[w], ready[w], submitted[w]) => Held(w, t) = One(m, t)
         /\ Just(m, preparing'[w], ready'[w], submitted'[w]) => Held(w, t)' = One(m, t)
BY HeldIs, HeldOne DEF Just

LEMMA WorkersUnchanged ==
  ASSUME NEW t \in Tasks, UNCHANGED <<preparing, ready, submitted>>
  PROVE  InWorkers(t)' = InWorkers(t)
<1>1. \A v \in Workers : Held(v, t)' = Held(v, t)
  BY SameHeld, Zenon
<1>. QED  BY <1>1, Zenon DEF InWorkers

\* If only one worker's tasks move, the sum changes by what they do.
LEMMA WorkersOnePoint ==
  ASSUME SumLaws, IInv, IInv', NEW w \in Workers, NEW t \in Tasks,
         \A v \in Workers \ {w} : SameAt(v)
  PROVE  /\ InWorkers(t)' \in Nat
         /\ InWorkers(t)' + Held(w, t) = InWorkers(t) + Held(w, t)'
<1>. DEFINE F == [v \in Workers |-> Held(v, t)]
            H == [v \in Workers |-> Held(v, t)']
<1>1. \A v \in Workers \ {w} : Held(v, t)' = Held(v, t)
  BY SameHeld, Zenon DEF SameAt
<1>2. \A v \in Workers : Held(v, t) \in Nat
  BY HeldIs, HeldNat DEF IInv, Types
<1>3. Held(w, t)' \in Nat
  BY HeldIs, HeldNat DEF IInv, Types
<1>4. F \in [Workers -> Nat] /\ H \in [Workers -> Nat]
  BY <1>1, <1>2, <1>3, Zenon
<1>5. InWorkers(t) = SumFunction(F) /\ InWorkers(t)' = SumFunction(H)
  BY Zenon DEF InWorkers
<1>6. /\ \A v \in Workers : v # w => H[v] = F[v]
      /\ F[w] = Held(w, t) /\ H[w] = Held(w, t)'
  BY <1>1, Zenon
<1>. HIDE DEF F, H
<1>. QED  BY <1>4, <1>5, <1>6, SumNat, SumOnePoint, DistributedAssumption
=============================================================================
