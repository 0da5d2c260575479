-------------------- MODULE DistributedAccountingProofs --------------------
(***************************************************************************)
(* No copy of a task is dropped by the distributed deployment, or made     *)
(* except by the broker's redelivery; proved for any finite sets of tasks, *)
(* workers, devices and queues, however workers share them, and any number *)
(* of failures, signals and crashes.                                       *)
(***************************************************************************)
EXTENDS DistributedProofs


(***************************************************************************)
(* Every copy of a task is accounted for.                                  *)
(***************************************************************************)

InChoice(t) == IF choosing = t THEN 1 ELSE 0
Sent(t) == Answers(t) + lostSends[t]

\* The copies of t there should be.
Made(t) == (IF t \in unsent THEN 0 ELSE 1) + ackFailures[t]

Accounted(t) ==
  intake[t] + InChoice(t) + OnQueues(mail, t) + InWorkers(t) + Sent(t)
    + abandoned[t] + crashed[t] = Made(t)

\* A task no client has sent has no failed acknowledgement either.
UnsentUntouched == \A t \in unsent : ackFailures[t] = 0

AInv == FInv /\ (\A t \in Tasks : Accounted(t)) /\ UnsentUntouched

\* The places of a task, as numbers.
LEMMA PlaceFacts ==
  ASSUME SumLaws, TInv, NEW t \in Tasks
  PROVE  /\ intake[t] \in Nat /\ InChoice(t) \in Nat /\ OnQueues(mail, t) \in Nat
         /\ InWorkers(t) \in Nat /\ Sent(t) \in Nat
         /\ abandoned[t] \in Nat /\ crashed[t] \in Nat /\ Made(t) \in Nat
         /\ results[t] \in Nat /\ cancellations[t] \in Nat /\ lostSends[t] \in Nat
         /\ ackFailures[t] \in Nat
<1>. QED  BY OnQueuesNat, WorkersNat DEF TInv, HistoryTypes, Counters, IInv, Types,
            InChoice, Sent, Answers, Made

\* Task by task, i copies come to the intake queue, c to the selector, q to
\* the dispatch queues, h to the workers, s to the clients, a to the abandoned
\* and k to the crashed, and together they are the m copies made.
Moved(u, i, c, q, h, s, a, k, m) ==
  /\ intake'[u] = intake[u] + i /\ InChoice(u)' = InChoice(u) + c
  /\ OnQueues(mail, u)' = OnQueues(mail, u) + q /\ InWorkers(u)' = InWorkers(u) + h
  /\ Sent(u)' = Sent(u) + s
  /\ abandoned'[u] = abandoned[u] + a /\ crashed'[u] = crashed[u] + k
  /\ Made(u)' = Made(u) + m
  /\ i + c + q + h + s + a + k = m

LEMMA MovedAccounted ==
  ASSUME SumLaws, TInv, NEW u \in Tasks, Accounted(u),
         NEW i \in Int, NEW c \in Int, NEW q \in Int, NEW h \in Int, NEW s \in Int,
         NEW a \in Int, NEW k \in Int, NEW m \in Int,
         Moved(u, i, c, q, h, s, a, k, m)
  PROVE  Accounted(u)'
<1>1. PICK pi \in Nat, ph \in Nat, pq \in Nat, pw \in Nat :
        /\ pi = intake[u] /\ ph = InChoice(u)
        /\ pq = OnQueues(mail, u) /\ pw = InWorkers(u)
  BY PlaceFacts, Zenon
<1>2. PICK ps \in Nat, pa \in Nat, pk \in Nat, pm \in Nat :
        ps = Sent(u) /\ pa = abandoned[u] /\ pk = crashed[u] /\ pm = Made(u)
  BY PlaceFacts, Zenon
<1>3. pi + ph + pq + pw + ps + pa + pk = pm
  BY <1>1, <1>2, Zenon DEF Accounted
<1>6. /\ intake'[u] = pi + i /\ InChoice(u)' = ph + c
      /\ OnQueues(mail, u)' = pq + q /\ InWorkers(u)' = pw + h
      /\ Sent(u)' = ps + s /\ abandoned'[u] = pa + a /\ crashed'[u] = pk + k
      /\ Made(u)' = pm + m
  BY <1>1, <1>2, Zenon DEF Moved
<1>. QED  BY <1>6, <1>3 DEF Accounted, Moved

\* One copy if u is t, none otherwise.
OneOf(t, u) == IF u = t THEN 1 ELSE 0

LEMMA CountOne ==
  ASSUME NEW f \in Counters, NEW t \in Tasks, NEW u \in Tasks
  PROVE  /\ Incremented(f, t)[u] = f[u] + OneOf(t, u)
         /\ Decremented(f, t)[u] = f[u] - OneOf(t, u)
BY DEF Incremented, Decremented, Counters, OneOf

\* sendResult() and sendFailure() turn one copy into an answer or a lost send.
LEMMA SendOne ==
  ASSUME SumLaws, TInv, NEW t \in Tasks, NEW u \in Tasks,
         sendResult(t) \/ sendFailure(t)
           \/ (SendLost(t) /\ UNCHANGED <<results, cancellations>>)
  PROVE  Sent(u)' = Sent(u) + OneOf(t, u)
<1>2. PICK r \in Nat, c \in Nat, l \in Nat, o \in Nat :
        r = results[u] /\ c = cancellations[u] /\ l = lostSends[u] /\ o = OneOf(t, u)
  BY PlaceFacts, Zenon DEF OneOf
<1>. QED  BY <1>2, CountOne DEF Sent, Answers, sendResult, sendFailure, SendLost, TInv,
            HistoryTypes

\* Steps that move no task.
LEMMA QuietAccounted ==
  ASSUME SumLaws, TInv, NEW u \in Tasks, Accounted(u),
         UNCHANGED <<unsent, intake, mail, choosing, preparing, ready, submitted,
                     results, cancellations, lostSends, abandoned, crashed, ackFailures>>
  PROVE  Accounted(u)'
<1>. QED  BY WorkersUnchanged, Zenon DEF Accounted, InChoice, Sent, Answers, Made

LEMMA ClientAccounted ==
  ASSUME SumLaws, AInv, NEW t \in Tasks, NEW u \in Tasks, ClientSends(t)
  PROVE  Accounted(u)'
<1>.  TInv /\ Accounted(u) /\ intake \in Counters /\ ackFailures[u] \in Nat
  BY PlaceFacts, Zenon DEF AInv, FInv, TInv, HistoryTypes
<1>5. Moved(u, OneOf(t, u), 0, 0, 0, 0, 0, 0, OneOf(t, u)) /\ OneOf(t, u) \in Int
  BY PlaceFacts, WorkersUnchanged, CountOne DEF Moved, InChoice, Sent, Answers, OneOf,
     ClientSends, workerVars, Made, selectorVars, answerVars
<1>. QED  BY <1>5, MovedAccounted

LEMMA SelectorReceiveAccounted ==
  ASSUME SumLaws, AInv, NEW t \in Tasks, NEW u \in Tasks, SelectorReceive(t)
  PROVE  Accounted(u)'
<1>.  /\ TInv /\ Accounted(u) /\ intake \in Counters /\ ackFailures \in Counters
      /\ choosing = None
  BY Zenon DEF AInv, FInv, TInv, HistoryTypes, SelectorTypes, SelectorReceive
<1>2. UNCHANGED <<unsent, mail, results, cancellations, lostSends, abandoned, crashed>>
  BY Zenon DEF SelectorReceive, answerVars
<1>3. InChoice(u)' = InChoice(u) + OneOf(t, u) /\ OneOf(t, u) \in Int
  BY DistributedAssumption DEF SelectorReceive, InChoice, OneOf
<1>4. CASE intake' = Decremented(intake, t) /\ UNCHANGED ackFailures
  <2>2. Moved(u, -OneOf(t, u), OneOf(t, u), 0, 0, 0, 0, 0, 0)
    BY <1>2, <1>3, <1>4, PlaceFacts, WorkersUnchanged, CountOne DEF Moved, Sent,
       Answers, Made, SelectorReceive, workerVars
  <2>. QED  BY <1>3, <2>2, MovedAccounted
<1>5. CASE AckFails(t) /\ UNCHANGED intake
  <2>3. Moved(u, 0, OneOf(t, u), 0, 0, 0, 0, 0, OneOf(t, u))
    BY <1>2, <1>3, <1>5, PlaceFacts, WorkersUnchanged, CountOne DEF Moved, Sent,
       Answers, SelectorReceive, workerVars, Made, AckFails
  <2>. QED  BY <1>3, <2>3, MovedAccounted
<1>. QED  BY <1>4, <1>5, Zenon DEF SelectorReceive

\* A forwarded task arrives on a queue that exists.
LEMMA AssignAccounted ==
  ASSUME SumLaws, AInv, NEW u \in Tasks, SelectorAssign
  PROVE  Accounted(u)'
<1>. DEFINE o == OneOf(choosing, u)
<1>.  /\ TInv /\ Accounted(u) /\ choosing \in Tasks /\ choosing' = None
      /\ mail \in [Queues -> Copies]
  BY Zenon DEF AInv, FInv, TInv, SelectorTypes, SelectorAssign, IInv, Types
<1>1. InWorkers(u)' = InWorkers(u)
  BY WorkersUnchanged, Zenon DEF SelectorAssign, workerVars
<1>2. UNCHANGED <<unsent, intake, abandoned, crashed, ackFailures>>
  BY Zenon DEF SelectorAssign
<1>3. InChoice(u)' = InChoice(u) - o /\ o \in Int
  BY DistributedAssumption DEF InChoice, OneOf
<1>4. CASE \E n \in usable(choosing) :
             /\ mail' = [mail EXCEPT ![entries[n].backend.queueName]
                           = Incremented(@, <<choosing, n>>)]
             /\ UNCHANGED answerVars
  <2>1. PICK n \in usable(choosing) :
             mail' = [mail EXCEPT ![entries[n].backend.queueName]
                        = Incremented(@, <<choosing, n>>)]
    BY <1>4, Zenon
  <2>2. <<choosing, n>> \in Assigned /\ entries[n].backend.queueName \in Queues
    BY SuitsFacts, Zenon DEF usable, TInv, SelectorTypes, Backend
  <2>3. One(<<choosing, n>>, u) = o
    BY Zenon DEF One, OneOf
  <2>4. OnQueues(mail', u) = OnQueues(mail, u) + o
    BY <2>1, <2>2, <2>3, OnQueuesIncremented, ZenonT(30)
  <2>5. Moved(u, 0, -o, o, 0, 0, 0, 0, 0)
    BY <1>1, <1>2, <1>3, <1>4, <2>4, PlaceFacts DEF Moved, Sent, Answers, Made,
       answerVars, OneOf
  <2>. HIDE DEF o
  <2>. QED  BY <1>3, <2>5, MovedAccounted
<1>5. CASE /\ \/ sendFailure(choosing)
              \/ SendLost(choosing) /\ UNCHANGED <<results, cancellations>>
           /\ UNCHANGED mail
  <2>2. Moved(u, 0, -o, 0, 0, o, 0, 0, 0)
    BY <1>1, <1>2, <1>3, <1>5, PlaceFacts, SendOne DEF Moved, Made
  <2>. HIDE DEF o
  <2>. QED  BY <1>3, <2>2, MovedAccounted
<1>. QED  BY <1>4, <1>5, Zenon DEF SelectorAssign

LEMMA SelectorCrashAccounted ==
  ASSUME SumLaws, AInv, NEW u \in Tasks, SelectorCrash
  PROVE  Accounted(u)'
<1>.  TInv /\ Accounted(u)
  BY Zenon DEF AInv, FInv
<1>4. PICK c \in Int : c = InChoice(u)
  BY DEF InChoice
<1>5. Moved(u, 0, -c, 0, 0, 0, 0, c, 0)
  BY <1>4, PlaceFacts, WorkersUnchanged, DistributedAssumption DEF Moved, Sent, Answers,
     Made, SelectorCrash, workerVars, brokerVars, answerVars, InChoice
<1>. QED  BY <1>5, MovedAccounted

\* What a worker's step adds to what that worker holds, it adds to the sum.
LEMMA WorkerStepHeld ==
  ASSUME SumLaws, AInv, IInv', NEW w \in Workers, NEW u \in Tasks,
         Worker(w) \/ WorkerCrash(w)
  PROVE  /\ InWorkers(u)' + Held(w, u) = InWorkers(u) + Held(w, u)'
         /\ InWorkers(u) \in Nat /\ InWorkers(u)' \in Nat
<1>.  IInv /\ TInv
  BY Zenon DEF AInv, FInv, TInv
<1>. QED  BY OthersSame, WorkersOnePoint, WorkersNat, Zenon

LEMMA ReceiveAccounted ==
  ASSUME SumLaws, AInv, IInv', NEW w \in Workers, NEW m \in Assigned, NEW u \in Tasks,
         WorkerReceive(w, m)
  PROVE  Accounted(u)'
<1>. DEFINE o == One(m, u)
<1>.  /\ TInv /\ FInv /\ Accounted(u) /\ ackFailures \in Counters /\ o \in Int
      /\ mail \in [Queues -> Copies] /\ QueueOf[w] \in Queues /\ m[1] \in Tasks
  BY DistributedAssumption DEF AInv, FInv, TInv, HistoryTypes, IInv, Types, One,
     Assigned
<1>1. InWorkers(u)' = InWorkers(u) + (o - 0)
  BY ReceiveInFlight, HeldNothing, HeldSingle, WorkerStepHeld DEF Worker, Just
<1>2. UNCHANGED <<unsent, intake, choosing, results, cancellations, lostSends, abandoned, crashed>>
  BY Zenon DEF WorkerReceive, selectorVars, answerVars
<1>3. CASE mail' = [mail EXCEPT ![QueueOf[w]] = Decremented(@, m)] /\ UNCHANGED ackFailures
  <2>. HIDE DEF o
  <2>1. OnQueues(mail, u) = OnQueues(mail', u) + o
    <3>1. mail[QueueOf[w]][m] > 0
      BY Zenon DEF WorkerReceive
    <3>. QED  BY <1>3, <3>1, OnQueuesDecremented, Zenon DEF o
  <2>4. OnQueues(mail', u) = OnQueues(mail, u) - o
    BY <2>1, OnQueuesNat DEF IInv, Types
  <2>5. Moved(u, 0, 0, -o, o, 0, 0, 0, 0)
    BY <1>1, <1>2, <1>3, <2>4, PlaceFacts DEF Moved, InChoice, Sent, Answers, Made
  <2>. QED  BY <2>5, MovedAccounted
<1>4. CASE AckFails(m[1]) /\ UNCHANGED mail
  <2>2. Made(u)' = Made(u) + o
    BY <1>2, PlaceFacts, <1>4, CountOne DEF Made, AckFails, One, OneOf
  <2>3. Moved(u, 0, 0, 0, o, 0, 0, 0, o)
    BY <1>1, <1>2, <1>4, <2>2, PlaceFacts DEF Moved, InChoice, Sent, Answers
  <2>. HIDE DEF o
  <2>. QED  BY <2>3, MovedAccounted
<1>. QED  BY <1>3, <1>4, Zenon DEF WorkerReceive

\* A copy of the task of m is answered, its answer is lost, or it is abandoned.
Disposed(m, u) ==
  \/ (sendResult(m[1]) \/ sendFailure(m[1])) /\ UNCHANGED abandoned
  \/ UNCHANGED answerVars /\ abandoned'[u] = abandoned[u] + One(m, u)

LEMMA DisposedFacts ==
  ASSUME SumLaws, TInv, NEW m \in Assigned, NEW u \in Tasks, Disposed(m, u)
  PROVE  \E s, a \in Int : /\ s + a = One(m, u)
                           /\ Sent(u)' = Sent(u) + s /\ abandoned'[u] = abandoned[u] + a
<1>.  m[1] \in Tasks /\ One(m, u) = OneOf(m[1], u) /\ One(m, u) \in Int
  BY DEF Assigned, One, OneOf
<1>. QED  BY SendOne, PlaceFacts DEF Disposed, Sent, Answers, answerVars

\* A worker's step on a task the broker and the selector have passed on.
LEMMA ElsewhereUnchanged ==
  ASSUME SumLaws, TInv, NEW u \in Tasks,
         UNCHANGED <<unsent, intake, mail, choosing, ackFailures>>
  PROVE  /\ intake'[u] = intake[u] + 0 /\ InChoice(u)' = InChoice(u) + 0
         /\ OnQueues(mail, u)' = OnQueues(mail, u) + 0 /\ Made(u)' = Made(u) + 0
BY PlaceFacts DEF InChoice, Made

\* A worker is rid of the one task it held.
LEMMA LeavesAccounted ==
  ASSUME SumLaws, AInv, IInv', NEW w \in Workers, NEW m \in Assigned, NEW u \in Tasks,
         Worker(w), Held(w, u) = One(m, u), Held(w, u)' = 0, Disposed(m, u),
         UNCHANGED <<unsent, intake, mail, choosing, crashed, ackFailures>>
  PROVE  Accounted(u)'
<1>.  TInv /\ Accounted(u)
  BY Zenon DEF AInv, FInv
<1>1. PICK o \in Int, d \in Int : o = One(m, u) /\ d = 0 - o
  BY DEF One
<1>2. PICK s \in Int, a \in Int :
        s + a = o /\ Sent(u)' = Sent(u) + s /\ abandoned'[u] = abandoned[u] + a
  BY <1>1, DisposedFacts
<1>3. InWorkers(u)' = InWorkers(u) + d
  BY <1>1, WorkerStepHeld
<1>4. crashed'[u] = crashed[u] + 0
  BY PlaceFacts
<1>5. Moved(u, 0, 0, 0, d, s, a, 0, 0)
  BY <1>1, <1>2, <1>3, <1>4, ElsewhereUnchanged DEF Moved
<1>. QED  BY <1>5, MovedAccounted

\* A task stays with its worker, in another place.
LEMMA StaysAccounted ==
  ASSUME SumLaws, AInv, IInv', NEW w \in Workers, NEW u \in Tasks,
         Worker(w), Held(w, u)' = Held(w, u), abandoned'[u] = abandoned[u],
         UNCHANGED <<unsent, intake, mail, choosing, answerVars, crashed, ackFailures>>
  PROVE  Accounted(u)'
<1>.  Accounted(u) /\ IInv
  BY Zenon DEF AInv, FInv, TInv
<1>1. InWorkers(u)' = InWorkers(u)
  BY WorkersNat, WorkerStepHeld
<1>. QED  BY <1>1, Zenon DEF Accounted, InChoice, Made, Sent, Answers, answerVars

LEMMA CompileAccounted ==
  ASSUME SumLaws, AInv, IInv', NEW w \in Workers, NEW u \in Tasks, compileAndSchedule(w)
  PROVE  Accounted(u)'
<1>.  FInv /\ Worker(w)
  BY Zenon DEF AInv, Worker
<1>1. PICK m \in Assigned : m = preparing[w]
  BY CompileInFlight, Zenon
<1>3. UNCHANGED <<unsent, intake, mail, choosing, abandoned, crashed, ackFailures>>
  BY Zenon DEF compileAndSchedule, brokerVars, selectorVars
<1>4. CASE UNCHANGED ready /\ sendFailure(m[1])
  BY <1>1, <1>3, <1>4, CompileInFlight, HeldNothing, HeldSingle, LeavesAccounted
     DEF Disposed, Just
<1>5. CASE ~UNCHANGED ready /\ UNCHANGED answerVars
  <2>1. Held(w, u)' = Held(w, u)
    BY <1>5, CompileInFlight, HeldSingle, Zenon DEF Just
  <2>. QED  BY <1>3, <1>5, <2>1, StaysAccounted, Zenon
<1>6. ready' = [ready EXCEPT ![w] = Incremented(@, preparing[w])] => ~UNCHANGED ready
  BY CompileInFlight, SingleFacts, EmptyFacts DEF IInv, Types, Single
<1>. QED  BY <1>1, <1>4, <1>5, <1>6, Zenon DEF compileAndSchedule

LEMMA SubmitAccounted ==
  ASSUME SumLaws, AInv, IInv', NEW w \in Workers, NEW m \in Assigned, NEW u \in Tasks,
         WorkerSubmit(w, m)
  PROVE  Accounted(u)'
<1>.  FInv /\ Worker(w) /\ m[1] \in Tasks
  BY Zenon DEF AInv, Worker, Assigned
<1>1. Held(w, u) = One(m, u)
  BY SubmitInFlight, HeldSingle, Zenon DEF Just
<1>2. UNCHANGED <<unsent, intake, mail, choosing, crashed, ackFailures>>
  BY Zenon DEF WorkerSubmit, brokerVars, selectorVars
<1>3. CASE /\ submitted' = [submitted EXCEPT ![w] = Incremented(@, m)]
           /\ UNCHANGED <<answerVars, abandoned>>
  <2>1. submitted'[w] = Single(m)
    BY SubmitInFlight, <1>3, Zenon DEF IInv, Types, Single
  <2>2. Held(w, u)' = Held(w, u)
    BY <1>1, <2>1, SubmitInFlight, HeldSingle DEF Just
  <2>. QED  BY <1>2, <1>3, <2>2, StaysAccounted, Zenon
<1>4. CASE /\ UNCHANGED submitted
           /\ \/ sendFailure(m[1]) /\ UNCHANGED abandoned
              \/ abandoned' = Incremented(abandoned, m[1]) /\ UNCHANGED answerVars
  <2>1. Held(w, u)' = 0
    BY <1>4, SubmitInFlight, HeldNothing, Zenon
  <2>2. Disposed(m, u)
    BY <1>4, CountOne DEF FInv, TInv, HistoryTypes, One, OneOf, Disposed
  <2>. QED  BY <1>1, <1>2, <2>1, <2>2, LeavesAccounted, Zenon
<1>. QED  BY <1>3, <1>4, Zenon DEF WorkerSubmit

LEMMA CopiesEmpty ==
  ASSUME SumLaws PROVE \A t \in Tasks : CopiesOf(Empty, t) = 0
<1>1. ASSUME NEW t \in Tasks PROVE CopiesOf(Empty, t) = 0
  BY SumZero, DistributedAssumption, Zenon DEF Empty, Assigned, CopiesOf
<1>. QED  BY <1>1, Zenon

\* At shutdown all that is submitted is abandoned, which is that one task.
LEMMA CollectAccounted ==
  ASSUME SumLaws, AInv, IInv', NEW w \in Workers, NEW m \in Assigned, NEW u \in Tasks,
         WorkerCollect(w, m)
  PROVE  Accounted(u)'
<1>.  FInv /\ Worker(w) /\ m[1] \in Tasks
  BY Zenon DEF AInv, Worker, Assigned
<1>1. /\ Held(w, u) = One(m, u)
      /\ Held(w, u)' = 0
  BY CollectInFlight, HeldSingle, HeldNothing, Zenon DEF Just
<1>2. UNCHANGED <<unsent, intake, mail, choosing, crashed, ackFailures>>
  BY Zenon DEF WorkerCollect, brokerVars, selectorVars
<1>3. CopiesOf(submitted[w], u) = One(m, u)
  BY CollectInFlight, CopiesEmpty, EmptyFacts, CopiesIncremented DEF Single, One
<1>4. Disposed(m, u)
  BY <1>3, Zenon DEF WorkerCollect, Disposed
<1>. QED  BY <1>1, <1>2, <1>4, LeavesAccounted, Zenon

\* A loop that ends holds nothing.
LEMMA StopAccounted ==
  ASSUME SumLaws, AInv, IInv', NEW w \in Workers, NEW u \in Tasks, WorkerStop(w)
  PROVE  Accounted(u)'
<1>.  FInv /\ Worker(w)
  BY Zenon DEF AInv, Worker
<1>1. Held(w, u) = 0 /\ Held(w, u)' = 0
  BY EndInFlight, HeldNothing, Zenon
<1>2. CopiesOf(ready[w], u) = 0 /\ abandoned[u] \in Nat
  BY CopiesEmpty, EndInFlight, PlaceFacts, Zenon DEF FInv
<1>3. abandoned'[u] = abandoned[u]
  BY <1>2 DEF WorkerStop
<1>4. UNCHANGED <<unsent, intake, mail, choosing, answerVars, crashed, ackFailures>>
  BY Zenon DEF WorkerStop, brokerVars, selectorVars
<1>. QED  BY <1>1, <1>3, <1>4, StaysAccounted, Zenon

\* A crash takes what the worker held.
LEMMA CrashAccounted ==
  ASSUME SumLaws, AInv, IInv', NEW w \in Workers, NEW u \in Tasks, WorkerCrash(w)
  PROVE  Accounted(u)'
<1>.  IInv /\ TInv /\ Accounted(u)
  BY Zenon DEF AInv, FInv, TInv
<1>1. PICK x \in Int, d \in Int : x = Held(w, u) /\ d = 0 - x
  BY WorkersNat
<1>2. InWorkers(u)' = InWorkers(u) + d
  <2>1. Held(w, u)' = 0
    BY EndInFlight, HeldNothing, Zenon DEF AInv
  <2>. QED  BY <1>1, <2>1, WorkerStepHeld
<1>3. crashed'[u] = crashed[u] + x
  BY <1>1, Zenon DEF WorkerCrash
<1>4. UNCHANGED <<unsent, intake, mail, choosing, answerVars, abandoned, ackFailures>>
  BY Zenon DEF WorkerCrash, brokerVars, selectorVars
<1>5. Sent(u)' = Sent(u) + 0 /\ abandoned'[u] = abandoned[u] + 0
  BY <1>4, PlaceFacts, SMTT(20) DEF Sent, Answers, answerVars
<1>6. Moved(u, 0, 0, 0, d, 0, 0, x, 0)
  BY <1>1, <1>2, <1>3, <1>4, <1>5, ElsewhereUnchanged DEF Moved
<1>. QED  BY <1>6, MovedAccounted

\* Only a task that has a copy somewhere has an acknowledgement that fails.
LEMMA NextUntouched ==
  ASSUME SumLaws, AInv, Next PROVE UnsentUntouched'
<1>.  TInv /\ UnsentUntouched /\ unsent \subseteq Tasks /\ ackFailures \in Counters
  BY Zenon DEF AInv, FInv, TInv, HistoryTypes
<1>1. ASSUME NEW t \in Tasks, AckFails(t), UNCHANGED unsent, t \notin unsent
      PROVE  UnsentUntouched'
  BY <1>1 DEF UnsentUntouched, AckFails, Incremented
<1>2. CASE UNCHANGED ackFailures /\ unsent' \subseteq unsent
  BY <1>2, Zenon DEF UnsentUntouched
<1>3. ASSUME NEW t \in unsent PROVE intake[t] = 0 /\ OnQueues(mail, t) = 0
  <2>3. PICK pi \in Nat, ph \in Nat, pq \in Nat, pw \in Nat :
          /\ pi = intake[t] /\ ph = InChoice(t)
          /\ pq = OnQueues(mail, t) /\ pw = InWorkers(t)
    BY PlaceFacts, Zenon
  <2>4. PICK ps \in Nat, pa \in Nat, pk \in Nat :
          ps = Sent(t) /\ pa = abandoned[t] /\ pk = crashed[t]
    BY PlaceFacts, Zenon
  <2>5. pi + ph + pq + pw + ps + pa + pk = 0
    BY <2>3, <2>4 DEF Accounted, AInv, UnsentUntouched, Made
  <2>6. pi = 0 /\ pq = 0
    BY <2>5
  <2>. QED  BY <2>3, <2>6, Zenon
<1>4. ASSUME NEW t \in Tasks, SelectorReceive(t) PROVE UnsentUntouched'
  BY <1>3, <1>4, <1>1, <1>2, SMTT(20) DEF SelectorReceive
<1>5. ASSUME NEW w \in Workers, NEW m \in Assigned, WorkerReceive(w, m) PROVE UnsentUntouched'
  <2>.  m[1] \in Tasks /\ QueueOf[w] \in Queues /\ mail \in [Queues -> Copies]
    BY DistributedAssumption, Zenon DEF Assigned, TInv, IInv, Types
  <2>1. OnQueues(mail, m[1]) > 0
    <3>1. OnQueues(mail, m[1])
            = OnQueues([mail EXCEPT ![QueueOf[w]] = Decremented(@, m)], m[1]) + One(m, m[1])
      BY <1>5, OnQueuesDecremented, Zenon DEF WorkerReceive
    <3>3. OnQueues([mail EXCEPT ![QueueOf[w]] = Decremented(@, m)], m[1]) \in Nat
      BY OnQueuesNat, <1>5, DecrementedFacts, Zenon DEF WorkerReceive
    <3>. QED  BY <3>1, <3>3 DEF One
  <2>. QED  BY <1>1, <1>2, <1>3, <1>5, <2>1 DEF WorkerReceive
<1>6. CASE \/ SelectorStop \/ SelectorBegin \/ SelectorExpire \/ SelectorTasksEnd
           \/ SelectorAssign \/ (\E s \in statuses : SelectorStatus(s))
           \/ SelectorTerminate \/ SelectorCrash \/ SelectorRestart
           \/ \E t \in Tasks : ClientSends(t)
  BY <1>6, <1>2, Zenon DEF SelectorStop, SelectorBegin, SelectorExpire,
     SelectorTasksEnd, SelectorAssign, SelectorStatus, SelectorTerminate, SelectorCrash,
     SelectorRestart, ClientSends, brokerVars
<1>7. ASSUME NEW w \in Workers,
             \/ WorkerStop(w) \/ WorkerRefresh(w) \/ WorkerReceiveNone(w)
             \/ compileAndSchedule(w) \/ WorkerSubmitDone(w) \/ WorkerCollectDone(w)
             \/ WorkerTerminate(w) \/ WorkerCrash(w) \/ WorkerRestart(w)
             \/ \E m \in Assigned : WorkerSubmit(w, m) \/ WorkerCollect(w, m)
      PROVE  UnsentUntouched'
  BY <1>7, <1>2, Zenon DEF WorkerStop, WorkerRefresh, WorkerReceiveNone,
     compileAndSchedule, WorkerSubmitDone, WorkerCollectDone, WorkerTerminate,
     WorkerCrash, WorkerRestart, WorkerSubmit, WorkerCollect, brokerVars
<1>. QED  BY <1>4, <1>5, <1>6, <1>7, Zenon DEF Next, Selector, Worker

LEMMA NextAccounted ==
  ASSUME SumLaws, AInv, FInv', Next, NEW u \in Tasks PROVE Accounted(u)'
<1>.  TInv /\ Accounted(u) /\ IInv'
  BY Zenon DEF AInv, FInv, TInv
<1>1. CASE \/ SelectorStop \/ SelectorBegin \/ SelectorExpire \/ SelectorTasksEnd
           \/ (\E s \in statuses : SelectorStatus(s))
           \/ SelectorTerminate \/ SelectorRestart
  BY <1>1, QuietAccounted, Zenon DEF SelectorStop, SelectorBegin, SelectorExpire,
     SelectorTasksEnd, SelectorStatus, SelectorTerminate, SelectorRestart, brokerVars,
     workerVars, answerVars
<1>2. ASSUME NEW w \in Workers,
             \/ WorkerRefresh(w) \/ WorkerReceiveNone(w) \/ WorkerSubmitDone(w)
             \/ WorkerCollectDone(w) \/ WorkerTerminate(w) \/ WorkerRestart(w)
      PROVE  Accounted(u)'
  BY <1>2, QuietAccounted, Zenon DEF WorkerRefresh, WorkerReceiveNone, WorkerSubmitDone,
     WorkerCollectDone, WorkerTerminate, WorkerRestart, brokerVars, selectorVars,
     answerVars
<1>. QED  BY <1>1, <1>2, ClientAccounted, SelectorReceiveAccounted, AssignAccounted,
            SelectorCrashAccounted, ReceiveAccounted, CompileAccounted, SubmitAccounted,
            CollectAccounted, StopAccounted, CrashAccounted, Zenon DEF Next, Selector, Worker

LEMMA InitAInv == SumLaws /\ Init => AInv
<1>. SUFFICES ASSUME SumLaws, Init PROVE AInv
  BY Zenon
<1>3. ASSUME NEW t \in Tasks PROVE Accounted(t)
  <2>2. InWorkers(t) = 0
    <3>. QED  BY SumZero, DistributedAssumption, HeldIs, HeldNone DEF InWorkers, Init
  <2>. QED  BY <2>2, CopiesEmpty, SumZero, DistributedAssumption DEF Accounted, Init,
              OnQueues, InChoice, Sent, Answers, Made, Zero
<1>. QED  BY <1>3, InitFInv, Zenon DEF AInv, Init, UnsentUntouched, Zero

LEMMA NextAInv == SumLaws /\ AInv /\ [Next]_vars => AInv'
<1>. SUFFICES ASSUME SumLaws, AInv, [Next]_vars PROVE AInv'
  BY Zenon
<1>2. CASE Next
  BY <1>2, NextUntouched, NextAccounted, NextFInv, Zenon DEF AInv
<1>3. CASE UNCHANGED vars
  BY <1>3, QuietAccounted, NextFInv, Zenon DEF vars, AInv, FInv, UnsentUntouched
<1>. QED  BY <1>2, <1>3, Zenon

LEMMA AccountedSum ==
  ASSUME SumLaws, AInv, NEW t \in Tasks
  PROVE  intake[t] + (IF choosing = t THEN 1 ELSE 0)
           + SumFunction([q \in Queues |-> CopiesOf(mail[q], t)])
           + SumFunction([w \in Workers |-> Held(w, t)])
           + Answers(t) + lostSends[t] + abandoned[t] + crashed[t]
         = (IF t \in unsent THEN 0 ELSE 1) + ackFailures[t]
<1>1. PICK pi \in Nat, ph \in Nat, pq \in Nat, pw \in Nat :
        /\ pi = intake[t] /\ ph = InChoice(t)
        /\ pq = OnQueues(mail, t) /\ pw = InWorkers(t)
  BY PlaceFacts, Zenon DEF AInv, FInv
<1>2. PICK pt \in Nat, pl \in Nat, pa \in Nat, pk \in Nat :
        pt = Answers(t) /\ pl = lostSends[t] /\ pa = abandoned[t] /\ pk = crashed[t]
  <2>1. Answers(t) \in Nat
    BY PlaceFacts DEF AInv, FInv, Answers
  <2>. QED  BY <2>1, PlaceFacts, Zenon DEF AInv, FInv
<1>. QED  BY <1>1, <1>2 DEF Made, InChoice, OnQueues, InWorkers, AInv, Accounted, Sent

=============================================================================
