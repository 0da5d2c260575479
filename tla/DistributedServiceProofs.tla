---------------------- MODULE DistributedServiceProofs ----------------------
(***************************************************************************)
(* The distributed deployment implements TaskService, from the accounting  *)
(* of DistributedAccountingProofs.                                         *)
(***************************************************************************)
EXTENDS DistributedAccountingProofs


\* The refinement mapping.
ServiceStatus == [t \in Tasks |-> StatusOf(t)]

\* Where a copy of u can still be answered or lost.
Alive(u) ==
  intake[u] > 0 \/ choosing = u \/ OnQueues(mail, u) > 0 \/ InWorkers(u) > 0

\* Nothing was heard or lost of u.
Unheard(u) ==
  /\ results[u] = 0 /\ cancellations[u] = 0 /\ lostSends[u] = 0
  /\ abandoned[u] = 0 /\ crashed[u] = 0

\* If at most one copy was made, and it is alive, then there is no other.
LEMMA AtMostOneFacts ==
  ASSUME SumLaws, AInv, NEW u \in Tasks
  PROVE  /\ Alive(u) => Made(u) > 0
         /\ Made(u) = 0 \/ (Made(u) <= 1 /\ Alive(u)) => Unheard(u)
<1>.  TInv /\ Accounted(u)
  BY Zenon DEF AInv, FInv
<1>1. PICK i \in Nat, c \in Nat, q \in Nat, h \in Nat, m \in Nat :
        /\ i = intake[u] /\ c = InChoice(u) /\ q = OnQueues(mail, u)
        /\ h = InWorkers(u) /\ m = Made(u)
  BY PlaceFacts, Zenon
<1>2. PICK re \in Nat, ca \in Nat, lo \in Nat, ab \in Nat, cr \in Nat :
        /\ re = results[u] /\ ca = cancellations[u] /\ lo = lostSends[u]
        /\ ab = abandoned[u] /\ cr = crashed[u]
  BY PlaceFacts, Zenon
<1>3. i + c + q + h + (re + ca + lo) + ab + cr = m
  BY <1>1, <1>2, Zenon DEF Accounted, Sent, Answers
<1>4. /\ i > 0 \/ c > 0 \/ q > 0 \/ h > 0 => m > 0
      /\ m = 0 \/ (m <= 1 /\ (i > 0 \/ c > 0 \/ q > 0 \/ h > 0))
           => re = 0 /\ ca = 0 /\ lo = 0 /\ ab = 0 /\ cr = 0
  BY <1>3
<1>5. Alive(u) => i > 0 \/ c > 0 \/ q > 0 \/ h > 0
  BY <1>1 DEF Alive, InChoice
<1>. QED  BY <1>1, <1>2, <1>4, <1>5, Zenon DEF Unheard

\* Of a task with such a copy the client has heard nothing, unless the broker
\* delivered it twice.  This is where the accounting is needed.
LEMMA AliveIsPending ==
  ASSUME SumLaws, AInv, NEW u \in Tasks, Alive(u)
  PROVE  /\ u \notin unsent
         /\ ackFailures[u] = 0 => Unheard(u)
         /\ ackFailures[u] \in Nat
<1>1. ackFailures[u] \in Nat
  BY PlaceFacts, Zenon DEF AInv, FInv
<1>2. u \in unsent => Made(u) = 0
  BY DEF AInv, UnsentUntouched, Made
<1>3. ackFailures[u] = 0 => Made(u) <= 1
  BY DEF Made
<1>. QED  BY <1>1, <1>2, <1>3, AtMostOneFacts

\* A task a worker holds, or finds on its queue, is alive.
LEMMA WorkerAlive ==
  ASSUME SumLaws, AInv, NEW w \in Workers, NEW m \in Assigned,
         \/ HeldBy(preparing[w], ready[w], submitted[w], m[1]) = One(m, m[1])
         \/ mail[QueueOf[w]][m] > 0
  PROVE  Alive(m[1]) /\ m[1] \in Tasks
<1>.  m[1] \in Tasks /\ One(m, m[1]) = 1 /\ IInv
  BY Zenon DEF Assigned, One, AInv, FInv, TInv
<1>1. CASE HeldBy(preparing[w], ready[w], submitted[w], m[1]) = One(m, m[1])
  <2>1. Held(w, m[1]) = 1 /\ Held(w, m[1]) <= InWorkers(m[1]) /\ InWorkers(m[1]) \in Nat
    BY <1>1, HeldIs, WorkersNat, Zenon
  <2>. QED  BY <2>1 DEF Alive
<1>2. CASE mail[QueueOf[w]][m] > 0
  <2>. DEFINE left == [mail EXCEPT ![QueueOf[w]] = Decremented(@, m)]
  <2>.  QueueOf[w] \in Queues /\ mail \in [Queues -> Copies]
    BY DistributedAssumption, Zenon DEF IInv, Types
  <2>1. left \in [Queues -> Copies]
    BY <1>2, DecrementedFacts, Zenon
  <2>2. OnQueues(mail, m[1]) = OnQueues(left, m[1]) + 1
    BY <1>2, OnQueuesDecremented, Zenon
  <2>. HIDE DEF left
  <2>3. OnQueues(left, m[1]) \in Nat
    BY <2>1, OnQueuesNat, Zenon
  <2>. QED  BY <2>2, <2>3 DEF Alive
<1>. QED  BY <1>1, <1>2, Zenon

\* What StatusOf reads of u does not change.
Still(u) ==
  /\ u \in unsent' <=> u \in unsent
  /\ ackFailures'[u] = ackFailures[u]
  /\ results'[u] = results[u] /\ cancellations'[u] = cancellations[u]
  /\ lostSends'[u] = lostSends[u]
  /\ abandoned'[u] = abandoned[u] /\ crashed'[u] = crashed[u]

LEMMA StillFacts ==
  ASSUME NEW u \in Tasks, Still(u) PROVE StatusOf(u)' = StatusOf(u)
BY Zenon DEF Still, StatusOf

\* A copy of u is lost: a refused send, an abandoned task or a crash.
Loses(u) ==
  /\ Alive(u)
  /\ u \in unsent' <=> u \in unsent
  /\ ackFailures'[u] = ackFailures[u]
  /\ results'[u] = results[u] /\ cancellations'[u] = cancellations[u]
  /\ lostSends'[u] + abandoned'[u] + crashed'[u] > 0

LEMMA LosesFacts ==
  ASSUME SumLaws, AInv, NEW u \in Tasks, Loses(u)
  PROVE  \/ StatusOf(u)' = StatusOf(u)
         \/ StatusOf(u) = "pending" /\ StatusOf(u)' = "lost"
BY AliveIsPending, Zenon DEF Loses, StatusOf, Unheard

\* A copy of u is answered.
Answered(u, answer) ==
  /\ Alive(u)
  /\ u \in unsent' <=> u \in unsent
  /\ ackFailures'[u] = ackFailures[u]
  /\ results'[u] = results[u] + (IF answer = "result" THEN 1 ELSE 0)
  /\ cancellations'[u] = cancellations[u] + (IF answer = "cancelled" THEN 1 ELSE 0)

LEMMA AnsweredFacts ==
  ASSUME SumLaws, AInv, NEW u \in Tasks, NEW answer \in {"result", "cancelled"},
         Answered(u, answer)
  PROVE  \/ StatusOf(u)' = StatusOf(u)
         \/ StatusOf(u) = "pending" /\ StatusOf(u)' = answer
BY AliveIsPending DEF Answered, StatusOf, Unheard

\* A step that changes the status of one task, as the service allows.
LEMMA OneTaskMaps ==
  ASSUME NEW t \in Tasks, \A u \in Tasks \ {t} : StatusOf(u)' = StatusOf(u),
         \/ StatusOf(t)' = StatusOf(t)
         \/ StatusOf(t) = "new" /\ StatusOf(t)' = "pending"
         \/ StatusOf(t) = "pending" /\ StatusOf(t)' \in {"result", "cancelled", "duplicated"}
  PROVE  [Service!Next]_ServiceStatus
<1>1. ServiceStatus' = [ServiceStatus EXCEPT ![t] = StatusOf(t)']
  BY Zenon DEF ServiceStatus
<1>2. ServiceStatus[t] = StatusOf(t)
  BY Zenon DEF ServiceStatus
<1>3. CASE StatusOf(t)' = StatusOf(t)
  BY <1>3, Zenon DEF ServiceStatus
<1>4. CASE StatusOf(t) = "new" /\ StatusOf(t)' = "pending"
  <2>1. Service!Submit(t)
    BY <1>1, <1>2, <1>4, Zenon DEF Service!Submit, ServiceStatus
  <2>. QED  BY <2>1, Zenon DEF Service!Next
<1>5. CASE StatusOf(t) = "pending" /\ StatusOf(t)' \in {"result", "cancelled"}
  <2>1. Service!Answer(t, StatusOf(t)')
    BY <1>1, <1>2, <1>5 DEF Service!Answer, ServiceStatus
  <2>. QED  BY <1>5, <2>1, Zenon DEF Service!Next
<1>6. CASE StatusOf(t) = "pending" /\ StatusOf(t)' = "duplicated"
  <2>1. Service!Duplicate(t)
    BY <1>1, <1>2, <1>6, Zenon DEF Service!Duplicate, ServiceStatus
  <2>. QED  BY <2>1, Zenon DEF Service!Next
<1>. QED  BY <1>3, <1>4, <1>5, <1>6, Zenon

\* A step in which any number of tasks lose a copy.
LEMMA LosesMaps ==
  ASSUME SumLaws, AInv, \A u \in Tasks : Still(u) \/ Loses(u)
  PROVE  Service!Next
<1>1. \A u \in Tasks : \/ StatusOf(u)' = StatusOf(u)
                       \/ StatusOf(u) = "pending" /\ StatusOf(u)' = "lost"
  BY StillFacts, LosesFacts, Zenon
<1>2. \A u \in Tasks : StatusOf(u)' \in {"new", "pending", "result", "cancelled",
                                         "lost", "duplicated"}
  BY Zenon DEF StatusOf
<1>3. Service!Lose
  BY <1>1, <1>2, Zenon DEF Service!Lose, ServiceStatus
<1>. QED  BY <1>3, Zenon DEF Service!Next

\* A send, or a forward the broker refuses, for a task that is alive.
LEMMA SendMaps ==
  ASSUME SumLaws, AInv, NEW t \in Tasks, Alive(t),
         sendResult(t) \/ sendFailure(t)
           \/ (SendLost(t) /\ UNCHANGED <<results, cancellations>>),
         UNCHANGED <<unsent, ackFailures, abandoned, crashed>>
  PROVE  [Service!Next]_ServiceStatus
<1>.  /\ results \in Counters /\ cancellations \in Counters /\ lostSends \in Counters
      /\ abandoned \in Counters /\ crashed \in Counters
  BY Zenon DEF AInv, FInv, TInv, HistoryTypes
<1>1. CASE SendLost(t) /\ UNCHANGED <<results, cancellations>>
  <2>1. \A u \in Tasks : lostSends'[u] = lostSends[u] + OneOf(t, u)
    BY <1>1, CountOne, Zenon DEF SendLost
  <2>2. \A u \in Tasks \ {t} : Still(u)
    BY <1>1, <2>1 DEF Still, OneOf, Counters
  <2>3. Loses(t)
    BY <1>1, <2>1 DEF Loses, OneOf, Counters
  <2>. QED  BY <2>2, <2>3, LosesMaps, Zenon
<1>2. CASE results' = Incremented(results, t) /\ UNCHANGED <<cancellations, lostSends>>
  <2>1. \A u \in Tasks : results'[u] = results[u] + OneOf(t, u)
    BY <1>2, CountOne
  <2>2. \A u \in Tasks \ {t} : Still(u)
    BY <1>2, <2>1 DEF Still, OneOf, Counters
  <2>3. Answered(t, "result")
    BY <1>2, <2>1 DEF Answered, OneOf, Counters
  <2>. QED  BY <2>2, <2>3, StillFacts, AnsweredFacts, OneTaskMaps, Zenon
<1>3. CASE cancellations' = Incremented(cancellations, t) /\ UNCHANGED <<results, lostSends>>
  <2>1. \A u \in Tasks : cancellations'[u] = cancellations[u] + OneOf(t, u)
    BY <1>3, CountOne, Zenon
  <2>2. \A u \in Tasks \ {t} : Still(u)
    BY <1>3, <2>1 DEF Still, OneOf, Counters
  <2>3. Answered(t, "cancelled")
    BY <1>3, <2>1 DEF Answered, OneOf, Counters
  <2>. QED  BY <2>2, <2>3, StillFacts, AnsweredFacts, OneTaskMaps, Zenon
<1>. QED  BY <1>1, <1>2, <1>3, Zenon DEF sendResult, sendFailure

\* Tasks that are alive are abandoned, any number at once.
LEMMA AbandonMaps ==
  ASSUME SumLaws, AInv, UNCHANGED <<unsent, ackFailures, answerVars, crashed>>,
         \A u \in Tasks : \/ abandoned'[u] = abandoned[u]
                          \/ Alive(u) /\ abandoned'[u] = abandoned[u] + 1
  PROVE  [Service!Next]_ServiceStatus
<1>1. ASSUME NEW u \in Tasks PROVE Still(u) \/ Loses(u)
  <2>.  lostSends[u] \in Nat /\ abandoned[u] \in Nat /\ crashed[u] \in Nat
    BY PlaceFacts, Zenon DEF AInv, FInv
  <2>1. CASE abandoned'[u] = abandoned[u]
    BY <2>1, Zenon DEF Still, answerVars
  <2>2. CASE Alive(u) /\ abandoned'[u] = abandoned[u] + 1
    BY <2>2 DEF Loses, answerVars
  <2>. QED  BY <2>1, <2>2, Zenon
<1>. QED  BY <1>1, LosesMaps, Zenon

\* A failed acknowledgement duplicates the task before any answer.
LEMMA AckMaps ==
  ASSUME SumLaws, AInv, NEW t \in Tasks, Alive(t), UNCHANGED ackFailures \/ AckFails(t),
         UNCHANGED <<unsent, answerVars, abandoned, crashed>>
  PROVE  [Service!Next]_ServiceStatus
<1>.  ackFailures \in Counters
  BY Zenon DEF AInv, FInv, TInv, HistoryTypes
<1>1. \A u \in Tasks : ackFailures'[u] = ackFailures[u] \/ u = t
  BY CountOne DEF AckFails, OneOf, Counters
<1>2. \A u \in Tasks \ {t} : Still(u)
  BY <1>1, Zenon DEF answerVars, Still
<1>3. CASE UNCHANGED ackFailures
  <2>1. Still(t)
    BY <1>3, Zenon DEF answerVars, Still
  <2>. QED  BY <1>2, <2>1, StillFacts, OneTaskMaps, Zenon
<1>4. CASE AckFails(t)
  <2>1. ackFailures'[t] > 0 /\ ackFailures[t] \in Nat
    BY <1>4, CountOne DEF AckFails, OneOf, Counters
  <2>2. t \notin unsent' /\ StatusOf(t)' = "duplicated"
    BY <2>1, AliveIsPending, Zenon DEF StatusOf
  <2>3. StatusOf(t) \in {"pending", "duplicated"}
    BY <2>1, AliveIsPending DEF StatusOf, Unheard
  <2>. QED  BY <1>2, <2>2, <2>3, StillFacts, OneTaskMaps, Zenon
<1>. QED  BY <1>3, <1>4, Zenon

\* A step that leaves the history of every task alone.
LEMMA QuietMaps ==
  ASSUME UNCHANGED <<unsent, ackFailures, answerVars, abandoned, crashed>>
  PROVE  UNCHANGED ServiceStatus
<1>1. \A u \in Tasks : Still(u)
  BY Zenon DEF answerVars, Still
<1>. QED  BY <1>1, StillFacts, Zenon DEF ServiceStatus

LEMMA ClientSendsMaps ==
  ASSUME SumLaws, AInv, NEW t \in Tasks, ClientSends(t)
  PROVE  [Service!Next]_ServiceStatus
<1>1. \A u \in Tasks \ {t} : Still(u)
  BY Zenon DEF ClientSends, answerVars, Still
<1>2. ackFailures[t] = 0 /\ Made(t) = 0
  BY DEF AInv, UnsentUntouched, ClientSends, Made
<1>3. Unheard(t)
  BY <1>2, AtMostOneFacts, Zenon
<1>4. StatusOf(t) = "new" /\ StatusOf(t)' = "pending"
  BY <1>2, <1>3 DEF ClientSends, answerVars, StatusOf, Unheard
<1>. QED  BY <1>1, <1>4, StillFacts, OneTaskMaps

LEMMA SelectorMaps ==
  ASSUME SumLaws, AInv, Selector \/ SelectorTerminate \/ SelectorCrash \/ SelectorRestart
  PROVE  [Service!Next]_ServiceStatus
<1>1. CASE \/ SelectorStop \/ SelectorBegin \/ SelectorExpire \/ SelectorTasksEnd
           \/ (\E s \in statuses : SelectorStatus(s))
           \/ SelectorTerminate \/ SelectorRestart
  <2>1. UNCHANGED <<unsent, ackFailures, answerVars, abandoned, crashed>>
    BY <1>1, Zenon DEF SelectorStop, SelectorBegin, SelectorExpire, SelectorTasksEnd,
       SelectorStatus, SelectorTerminate, SelectorRestart, brokerVars
  <2>. QED  BY <2>1, QuietMaps, Zenon
<1>2. ASSUME NEW t \in Tasks, SelectorReceive(t) PROVE [Service!Next]_ServiceStatus
  <2>1. Alive(t)
    BY <1>2, Zenon DEF SelectorReceive, Alive
  <2>2. /\ UNCHANGED <<unsent, answerVars, abandoned, crashed>>
        /\ UNCHANGED ackFailures \/ AckFails(t)
    BY <1>2, Zenon DEF SelectorReceive
  <2>. QED  BY <2>1, <2>2, AckMaps, Zenon
<1>3. CASE SelectorAssign
  <2>1. choosing \in Tasks /\ Alive(choosing)
    BY <1>3, Zenon DEF AInv, FInv, TInv, SelectorTypes, SelectorAssign, Alive
  <2>2. /\ UNCHANGED <<unsent, ackFailures, abandoned, crashed>>
        /\ \/ UNCHANGED answerVars \/ sendFailure(choosing)
           \/ SendLost(choosing) /\ UNCHANGED <<results, cancellations>>
    BY <1>3, Zenon DEF SelectorAssign
  <2>. QED  BY <2>1, <2>2, SendMaps, QuietMaps, Zenon
<1>4. CASE SelectorCrash
  <2>1. ASSUME NEW u \in Tasks PROVE Still(u) \/ Loses(u)
    <3>.  lostSends[u] \in Nat /\ abandoned[u] \in Nat /\ crashed[u] \in Nat
      BY PlaceFacts, Zenon DEF AInv, FInv
    <3>1. crashed'[u] = crashed[u] + IF choosing = u THEN 1 ELSE 0
      BY <1>4, Zenon DEF SelectorCrash
    <3>. QED  BY <1>4, <3>1 DEF SelectorCrash, brokerVars, answerVars, Still, Loses, Alive
  <2>. QED  BY <2>1, LosesMaps, Zenon
<1>. QED  BY <1>1, <1>2, <1>3, <1>4 DEF Selector

\* What becomes of the task a worker holds.
LEMMA TaskMaps ==
  ASSUME SumLaws, AInv, NEW w \in Workers, NEW m \in Assigned,
         \/ WorkerReceive(w, m) \/ WorkerSubmit(w, m) \/ WorkerCollect(w, m)
         \/ compileAndSchedule(w) /\ m = preparing[w]
  PROVE  [Service!Next]_ServiceStatus
<1>.  FInv /\ m[1] \in Tasks /\ abandoned \in Counters
  BY Zenon DEF AInv, FInv, TInv, HistoryTypes, Assigned
<1>1. CASE WorkerReceive(w, m)
  <2>1. Alive(m[1])
    BY <1>1, WorkerAlive, Zenon DEF WorkerReceive
  <2>2. /\ UNCHANGED <<unsent, answerVars, abandoned, crashed>>
        /\ UNCHANGED ackFailures \/ AckFails(m[1])
    BY <1>1, Zenon DEF WorkerReceive
  <2>. QED  BY <2>1, <2>2, AckMaps, Zenon
<1>2. CASE compileAndSchedule(w) /\ m = preparing[w]
  <2>1. HeldBy(preparing[w], ready[w], submitted[w], m[1]) = One(m, m[1])
    BY <1>2, CompileInFlight, HeldOne
  <2>2. /\ UNCHANGED <<unsent, ackFailures, abandoned, crashed>>
        /\ UNCHANGED answerVars \/ sendFailure(m[1])
    BY <1>2, Zenon DEF compileAndSchedule, brokerVars
  <2>. QED  BY <2>1, <2>2, WorkerAlive, SendMaps, QuietMaps
<1>3. CASE WorkerSubmit(w, m)
  <2>1. HeldBy(preparing[w], ready[w], submitted[w], m[1]) = One(m, m[1])
    BY <1>3, SubmitInFlight, HeldOne
  <2>2. Alive(m[1])
    BY <2>1, WorkerAlive, Zenon
  <2>3. /\ UNCHANGED <<unsent, ackFailures, crashed>>
        /\ \/ UNCHANGED <<answerVars, abandoned>>
           \/ sendFailure(m[1]) /\ UNCHANGED abandoned
           \/ abandoned' = Incremented(abandoned, m[1]) /\ UNCHANGED answerVars
    BY <1>3, Zenon DEF WorkerSubmit, brokerVars
  <2>4. CASE abandoned' = Incremented(abandoned, m[1]) /\ UNCHANGED answerVars
    <3>1. \A u \in Tasks : \/ abandoned'[u] = abandoned[u]
                           \/ Alive(u) /\ abandoned'[u] = abandoned[u] + 1
      BY <2>2, <2>4, Zenon DEF Incremented, Counters
    <3>. QED  BY <2>3, <2>4, <3>1, AbandonMaps, Zenon
  <2>. QED  BY <2>2, <2>3, <2>4, SendMaps, QuietMaps, Zenon
<1>4. CASE WorkerCollect(w, m)
  <2>1. HeldBy(preparing[w], ready[w], submitted[w], m[1]) = One(m, m[1])
    BY <1>4, CollectInFlight, HeldOne
  <2>2. Alive(m[1])
    BY <2>1, WorkerAlive, Zenon
  <2>3. /\ UNCHANGED <<unsent, ackFailures, crashed>>
        /\ \/ (sendResult(m[1]) \/ sendFailure(m[1])) /\ UNCHANGED abandoned
           \/ /\ abandoned' = [t \in Tasks |-> abandoned[t] + CopiesOf(submitted[w], t)]
              /\ UNCHANGED answerVars
    BY <1>4, Zenon DEF WorkerCollect, brokerVars
  <2>4. CASE /\ abandoned' = [t \in Tasks |-> abandoned[t] + CopiesOf(submitted[w], t)]
             /\ UNCHANGED answerVars
    <3>1. ASSUME NEW u \in Tasks
          PROVE  \/ abandoned'[u] = abandoned[u]
                 \/ Alive(u) /\ abandoned'[u] = abandoned[u] + 1
      <4>1. submitted[w] = Incremented(Empty, m) /\ CopiesOf(Empty, u) = 0
        BY <1>4, CollectInFlight, CopiesEmpty, Zenon DEF Single
      <4>2. CopiesOf(submitted[w], u) = One(m, u)
        BY <4>1, EmptyFacts, CopiesIncremented DEF One
      <4>. QED  BY <2>2, <2>4, <4>2 DEF One, Counters
    <3>. QED  BY <2>3, <2>4, <3>1, AbandonMaps, Zenon
  <2>. QED  BY <2>2, <2>3, <2>4, SendMaps
<1>. QED  BY <1>1, <1>2, <1>3, <1>4

LEMMA WorkerMaps ==
  ASSUME SumLaws, AInv, NEW w \in Workers,
         Worker(w) \/ WorkerTerminate(w) \/ WorkerCrash(w) \/ WorkerRestart(w)
  PROVE  [Service!Next]_ServiceStatus
<1>1. CASE \/ WorkerRefresh(w) \/ WorkerReceiveNone(w) \/ WorkerSubmitDone(w)
           \/ WorkerCollectDone(w) \/ WorkerTerminate(w) \/ WorkerRestart(w)
  <2>1. UNCHANGED <<unsent, ackFailures, answerVars, abandoned, crashed>>
    BY <1>1, Zenon DEF WorkerRefresh, WorkerReceiveNone, WorkerSubmitDone, WorkerCollectDone,
       WorkerTerminate, WorkerRestart, brokerVars
  <2>. QED  BY <2>1, QuietMaps, Zenon
<1>2. CASE compileAndSchedule(w)
  <2>1. preparing[w] \in Assigned
    BY <1>2, CompileInFlight, Zenon DEF AInv
  <2>. QED  BY <1>2, <2>1, TaskMaps, Zenon
<1>3. CASE WorkerStop(w)
  <2>1. ASSUME NEW u \in Tasks PROVE abandoned'[u] = abandoned[u]
    <3>1. ready[w] = Empty
      BY <1>3, EndInFlight, Zenon DEF AInv
    <3>2. CopiesOf(ready[w], u) = 0 /\ abandoned[u] \in Nat
      BY <3>1, CopiesEmpty, PlaceFacts, Zenon DEF AInv, FInv
    <3>3. abandoned'[u] = abandoned[u] + CopiesOf(ready[w], u)
      BY <1>3, Zenon DEF WorkerStop
    <3>. QED  BY <3>2, <3>3
  <2>. QED  BY <1>3, <2>1, AbandonMaps, Zenon DEF WorkerStop, brokerVars
<1>4. CASE WorkerCrash(w)
  <2>1. ASSUME NEW u \in Tasks PROVE Still(u) \/ Loses(u)
    <3>.  lostSends[u] \in Nat /\ abandoned[u] \in Nat /\ crashed[u] \in Nat
      BY PlaceFacts, Zenon DEF AInv, FInv
    <3>1. Held(w, u) \in Nat /\ Held(w, u) <= InWorkers(u) /\ InWorkers(u) \in Nat
      BY WorkersNat, Zenon DEF AInv, FInv, TInv
    <3>2. crashed'[u] = crashed[u] + Held(w, u)
      BY <1>4, Zenon DEF WorkerCrash
    <3>3. UNCHANGED <<unsent, ackFailures, results, cancellations, lostSends, abandoned>>
      BY <1>4, Zenon DEF WorkerCrash, brokerVars, answerVars
    <3>4. CASE Held(w, u) = 0
      BY <3>2, <3>3, <3>4 DEF Still
    <3>5. CASE Held(w, u) > 0
      <4>1. Alive(u)
        BY <3>1, <3>5 DEF Alive
      <4>2. lostSends'[u] + abandoned'[u] + crashed'[u] > 0
        BY <3>1, <3>2, <3>3, <3>5
      <4>. QED  BY <3>3, <4>1, <4>2, Zenon DEF Loses
    <3>. QED  BY <3>1, <3>4, <3>5
  <2>. QED  BY <2>1, LosesMaps, Zenon
<1>. QED  BY <1>1, <1>2, <1>3, <1>4, TaskMaps, Zenon DEF Worker

\* Every step of the deployment is a step of the service, or none.
LEMMA NextMaps == SumLaws /\ AInv /\ [Next]_vars => [Service!Next]_ServiceStatus
<1>1. UNCHANGED vars => UNCHANGED ServiceStatus
  BY QuietMaps, Zenon DEF vars, answerVars
<1>. QED  BY <1>1, ClientSendsMaps, SelectorMaps, WorkerMaps, Zenon DEF Next

LEMMA InitMaps == Init => Service!Init
BY Zenon DEF Init, StatusOf, Service!Init

=============================================================================
