-------------------------- MODULE StandaloneProofs --------------------------
(***************************************************************************)
(* No copy of a task is dropped or duplicated by the standalone daemon,    *)
(* each is executed in the turn that selected its backend, and the daemon  *)
(* implements TaskService, for any set of tasks and any number of          *)
(* failures, signals and crashes.                                          *)
(***************************************************************************)
EXTENDS Standalone, TLAPS

\* The loop holds a task exactly while it prepares or executes one.
HandsMatch == pc \in {"prepare", "run"} <=> current \in Tasks

IInv == TypeOK /\ HandsMatch /\ EveryCopyAccountedFor

\* One copy if u is t, none otherwise.
One(t, u) == IF u = t THEN 1 ELSE 0

\* The copies of u there should be.
Made(u) == (IF u \in unsent THEN 0 ELSE 1) + ackFailures[u]

\* Task by task, q copies come to the queue, h to the hands, r to the
\* scheduler, s to the clients, a to the abandoned and c to the crashed,
\* and together they are the m copies made.
Moved(u, q, h, r, s, a, c, m) ==
  /\ queued'[u] = queued[u] + q /\ InHand(u)' = InHand(u) + h
  /\ ready'[u] = ready[u] + r /\ Sent(u)' = Sent(u) + s
  /\ abandoned'[u] = abandoned[u] + a /\ crashed'[u] = crashed[u] + c
  /\ Made(u)' = Made(u) + m
  /\ q + h + r + s + a + c = m

\* Incremented changes one counter by one.
LEMMA IncrementedFacts ==
  ASSUME NEW f \in Counters, NEW t \in Tasks
  PROVE  /\ Incremented(f, t) \in Counters
         /\ \A u \in Tasks : Incremented(f, t)[u] = f[u] + One(t, u)
BY DEF Counters, Incremented, One

\* Decremented takes one off a counter that is not zero.
LEMMA DecrementedFacts ==
  ASSUME NEW f \in Counters, NEW t \in Tasks, f[t] > 0
  PROVE  /\ Decremented(f, t) \in Counters
         /\ \A u \in Tasks : Decremented(f, t)[u] = f[u] - One(t, u)
BY DEF Counters, Decremented, One

\* sendResult() and sendFailure() turn one copy of a task into an answer, or
\* into a lost send.
LEMMA SendFacts ==
  ASSUME TypeOK, NEW t \in Tasks, sendResult(t) \/ sendFailure(t)
  PROVE  /\ results' \in Counters /\ cancellations' \in Counters
         /\ lostSends' \in Counters
         /\ \A u \in Tasks : Sent(u)' = Sent(u) + One(t, u)
<1>0. results \in Counters /\ cancellations \in Counters /\ lostSends \in Counters
  BY Zenon DEF TypeOK
<1>1. CASE results' = Incremented(results, t) /\ UNCHANGED <<cancellations, lostSends>>
  <2>1. results' \in Counters /\ \A u \in Tasks : results'[u] = results[u] + One(t, u)
    BY <1>0, <1>1, IncrementedFacts, Zenon
  <2> QED BY <1>0, <1>1, <2>1 DEF Counters, One, Sent
<1>2. CASE cancellations' = Incremented(cancellations, t) /\ UNCHANGED <<results, lostSends>>
  <2>1. /\ cancellations' \in Counters
        /\ \A u \in Tasks : cancellations'[u] = cancellations[u] + One(t, u)
    BY <1>0, <1>2, IncrementedFacts, Zenon
  <2> QED BY <1>0, <1>2, <2>1 DEF Counters, One, Sent
<1>3. CASE SendLost(t)
  <2>1. lostSends' \in Counters /\ \A u \in Tasks : lostSends'[u] = lostSends[u] + One(t, u)
    BY <1>0, <1>3, IncrementedFacts, Zenon DEF SendLost
  <2> QED BY <1>0, <1>3, <2>1 DEF Counters, One, Sent, SendLost
<1> QED
  BY <1>1, <1>2, <1>3, Zenon DEF sendResult, sendFailure

\* What the conservation law says of one task, in integers.
LEMMA CopyFacts ==
  ASSUME IInv, NEW u \in Tasks
  PROVE  /\ queued[u] \in Nat /\ InHand(u) \in Nat /\ ready[u] \in Nat
         /\ Sent(u) \in Nat /\ abandoned[u] \in Nat /\ crashed[u] \in Nat
         /\ Made(u) \in Nat
         /\ queued[u] + InHand(u) + ready[u] + Sent(u) + abandoned[u] + crashed[u] = Made(u)
BY DEF IInv, TypeOK, Counters, InHand, Sent, Made, EveryCopyAccountedFor

\* A step preserves the law if all it does is move copies and make new ones.
LEMMA BalancedStep ==
  ASSUME IInv, TypeOK', HandsMatch',
         \A u \in Tasks : \E q, h, r, s, a, c, m \in Int : Moved(u, q, h, r, s, a, c, m)
  PROVE  IInv'
<1>1. \A u \in Tasks : queued'[u] + InHand(u)' + ready'[u] + Sent(u)'
                         + abandoned'[u] + crashed'[u] = Made(u)'
  <2> TAKE u \in Tasks
  <2>1. PICK q, h, r, s, a, c, m \in Int : Moved(u, q, h, r, s, a, c, m)
    BY Zenon
  <2>2. /\ queued[u] \in Nat /\ InHand(u) \in Nat /\ ready[u] \in Nat
        /\ Sent(u) \in Nat /\ abandoned[u] \in Nat /\ crashed[u] \in Nat
        /\ Made(u) \in Nat
        /\ queued[u] + InHand(u) + ready[u] + Sent(u) + abandoned[u] + crashed[u] = Made(u)
    BY CopyFacts, Zenon
  <2>3. /\ queued'[u] = queued[u] + q /\ InHand(u)' = InHand(u) + h
        /\ ready'[u] = ready[u] + r /\ Sent(u)' = Sent(u) + s
        /\ abandoned'[u] = abandoned[u] + a /\ crashed'[u] = crashed[u] + c
        /\ Made(u)' = Made(u) + m
        /\ q + h + r + s + a + c = m
    BY <2>1, Zenon DEF Moved
  <2> QED BY <2>2, <2>3
<1> QED BY <1>1, Zenon DEF IInv, EveryCopyAccountedFor, Made

\* Nothing has been sent when the daemon first starts.
LEMMA InitIInv ==
  Init => IInv
<1> SUFFICES ASSUME Init PROVE IInv
  BY Zenon
<1>1. Zero \in Counters /\ \A u \in Tasks : Zero[u] = 0
  BY Zenon DEF Zero, Counters
<1>2. TypeOK
  BY <1>1, Zenon DEF Init, TypeOK
<1>3. HandsMatch
  BY StandaloneAssumption, Zenon DEF Init, HandsMatch
<1>4. EveryCopyAccountedFor
  BY <1>1, StandaloneAssumption DEF Init, EveryCopyAccountedFor, InHand, Sent
<1> QED BY <1>2, <1>3, <1>4, Zenon DEF IInv

\* A client sending a task makes its first copy.
LEMMA ClientSendsIInv ==
  ASSUME IInv, NEW t \in Tasks, ClientSends(t)
  PROVE  IInv'
<1>0. queued \in Counters /\ ackFailures \in Counters
  BY Zenon DEF IInv, TypeOK
<1>1. queued' \in Counters /\ \A u \in Tasks : queued'[u] = queued[u] + One(t, u)
  BY <1>0, IncrementedFacts, Zenon DEF ClientSends
<1>2. TypeOK' /\ HandsMatch'
  BY <1>1, Zenon DEF IInv, TypeOK, HandsMatch, ClientSends, answerVars
<1>3. \A u \in Tasks : Made(u)' = Made(u) + One(t, u)
  BY <1>0 DEF Made, One, ClientSends, Counters
<1>moves. \A u \in Tasks : \E q, h, r, s, a, c, m \in Int : Moved(u, q, h, r, s, a, c, m)
  <2> TAKE u \in Tasks
  <2>1. /\ queued'[u] = queued[u] + One(t, u) /\ Made(u)' = Made(u) + One(t, u)
        /\ InHand(u)' = InHand(u) /\ Sent(u)' = Sent(u) /\ One(t, u) \in Int
        /\ UNCHANGED <<ready, abandoned, crashed>>
    BY <1>1, <1>3 DEF ClientSends, answerVars, InHand, Sent, One
  <2>2. One(t, u) \in Int
    BY <2>1, CopyFacts, Zenon
  <2>3. One(t, u) + 0 + 0 + 0 + 0 + 0 = One(t, u)
    BY <2>2
  <2>4. /\ queued[u] \in Nat /\ InHand(u) \in Nat /\ ready[u] \in Nat /\ Sent(u) \in Nat
        /\ abandoned[u] \in Nat /\ crashed[u] \in Nat /\ Made(u) \in Nat
    BY CopyFacts, Zenon
  <2>5. /\ queued'[u] = queued[u] + One(t, u) /\ InHand(u)' = InHand(u) + 0
        /\ ready'[u] = ready[u] + 0 /\ Sent(u)' = Sent(u) + 0
        /\ abandoned'[u] = abandoned[u] + 0 /\ crashed'[u] = crashed[u] + 0
        /\ Made(u)' = Made(u) + One(t, u)
    BY <2>1, <2>4
  <2>6. Moved(u, One(t, u), 0, 0, 0, 0, 0, One(t, u))
    BY <2>3, <2>5, Zenon DEF Moved
  <2> QED BY <2>2, <2>6
<1> QED BY <1>2, <1>moves, BalancedStep, Zenon

\* Leaving the loop abandons what the scheduler holds.
LEMMA StopIInv ==
  ASSUME IInv, Stop
  PROVE  IInv'
<1>1. /\ abandoned' \in Counters /\ ready' \in Counters
      /\ \A u \in Tasks : /\ ready[u] \in Nat /\ ready'[u] = ready[u] + (0 - ready[u])
                          /\ abandoned'[u] = abandoned[u] + ready[u]
  BY DEF IInv, TypeOK, Stop, Zero, Counters
<1>2. TypeOK' /\ HandsMatch'
  BY <1>1, Zenon DEF IInv, TypeOK, HandsMatch, Stop, answerVars
<1>moves. \A u \in Tasks : \E q, h, r, s, a, c, m \in Int : Moved(u, q, h, r, s, a, c, m)
  <2> TAKE u \in Tasks
  <2>1. /\ ready[u] \in Int /\ 0 - ready[u] \in Int
        /\ ready'[u] = ready[u] + (0 - ready[u]) /\ abandoned'[u] = abandoned[u] + ready[u]
        /\ InHand(u)' = InHand(u) /\ Sent(u)' = Sent(u) /\ Made(u)' = Made(u)
        /\ UNCHANGED <<queued, crashed>>
    BY <1>1 DEF Stop, answerVars, InHand, Sent, Made
  <2>2. 0 - ready[u] \in Int /\ ready[u] \in Int
    BY <2>1, CopyFacts, Zenon
  <2>3. 0 + 0 + (0 - ready[u]) + 0 + ready[u] + 0 = 0
    BY <2>2
  <2>4. /\ queued[u] \in Nat /\ InHand(u) \in Nat /\ ready[u] \in Nat /\ Sent(u) \in Nat
        /\ abandoned[u] \in Nat /\ crashed[u] \in Nat /\ Made(u) \in Nat
    BY CopyFacts, Zenon
  <2>5. /\ queued'[u] = queued[u] + 0 /\ InHand(u)' = InHand(u) + 0
        /\ ready'[u] = ready[u] + (0 - ready[u]) /\ Sent(u)' = Sent(u) + 0
        /\ abandoned'[u] = abandoned[u] + ready[u] /\ crashed'[u] = crashed[u] + 0
        /\ Made(u)' = Made(u) + 0
    BY <2>1, <2>4
  <2>6. Moved(u, 0, 0, 0 - ready[u], 0, ready[u], 0, 0)
    BY <2>3, <2>5, Zenon DEF Moved
  <2> QED BY <2>2, <2>6
<1> QED BY <1>2, <1>moves, BalancedStep, Zenon

\* Steps that only move the loop along, or start it again, move no copy.
LEMMA ControlIInv ==
  ASSUME IInv,
         Refresh \/ DrainEnds \/ ExecuteDone \/ RequestTermination \/ Restart
  PROVE  IInv'
<1>1. UNCHANGED <<unsent, queued, current, ready, results, cancellations,
                  lostSends, abandoned, crashed, ackFailures>>
  BY Zenon DEF Refresh, DrainEnds, ExecuteDone, RequestTermination, Restart, answerVars
<1>2. HandsMatch'
  BY <1>1, Zenon DEF IInv, HandsMatch, Refresh, DrainEnds, ExecuteDone,
              RequestTermination, Restart, Running
<1>3. TypeOK'
  <2>1. CASE Refresh
    BY <1>1, <2>1, Zenon DEF IInv, TypeOK, Refresh
  <2>2. CASE DrainEnds \/ ExecuteDone
    BY <1>1, <2>2, Zenon DEF IInv, TypeOK, DrainEnds, ExecuteDone
  <2>3. CASE RequestTermination
    BY <1>1, <2>3 DEF IInv, TypeOK, RequestTermination
  <2>4. CASE Restart
    BY <1>1, <2>4, Zenon DEF IInv, TypeOK, Restart
  <2> QED BY <2>1, <2>2, <2>3, <2>4, Zenon
<1>4. EveryCopyAccountedFor'
  BY <1>1, Zenon DEF IInv, EveryCopyAccountedFor, InHand, Sent
<1> QED BY <1>2, <1>3, <1>4, Zenon DEF IInv

\* A received copy moves from the queue to the handler.
LEMMA ReceiveIInv ==
  ASSUME IInv, NEW t \in Tasks, receive(t)
  PROVE  IInv'
<1>0. /\ queued \in Counters /\ ackFailures \in Counters
      /\ current \notin Tasks /\ current' = t
  BY Zenon DEF IInv, TypeOK, HandsMatch, receive
<1>1. /\ UNCHANGED <<unsent, ready, results, cancellations, lostSends,
                     abandoned, crashed>>
      /\ \A u \in Tasks : InHand(u)' = InHand(u) + One(t, u) /\ Sent(u)' = Sent(u)
  BY <1>0 DEF receive, answerVars, InHand, One, Sent
<1>2. CASE queued' = Decremented(queued, t) /\ UNCHANGED ackFailures
  <2>1. queued' \in Counters /\ \A u \in Tasks : queued'[u] = queued[u] - One(t, u)
    BY <1>0, <1>2, DecrementedFacts, Zenon DEF receive
  <2>2. TypeOK' /\ HandsMatch'
    BY <1>0, <1>1, <1>2, <2>1, Zenon DEF IInv, TypeOK, HandsMatch, receive
  <2>moves. \A u \in Tasks : \E q, h, r, s, a, c, m \in Int : Moved(u, q, h, r, s, a, c, m)
    <3> TAKE u \in Tasks
    <3>1. /\ queued'[u] = queued[u] - One(t, u) /\ InHand(u)' = InHand(u) + One(t, u)
          /\ One(t, u) \in Int /\ 0 - One(t, u) \in Int
          /\ Sent(u)' = Sent(u) /\ Made(u)' = Made(u) /\ UNCHANGED <<ready, abandoned, crashed>>
      BY <1>1, <1>2, <2>1 DEF One, Made
    <3>2. 0 - One(t, u) \in Int /\ One(t, u) \in Int
      BY <3>1, CopyFacts, Zenon
    <3>3. (0 - One(t, u)) + One(t, u) + 0 + 0 + 0 + 0 = 0
      BY <3>2
    <3>4. /\ queued[u] \in Nat /\ InHand(u) \in Nat /\ ready[u] \in Nat /\ Sent(u) \in Nat
          /\ abandoned[u] \in Nat /\ crashed[u] \in Nat /\ Made(u) \in Nat
      BY CopyFacts, Zenon
    <3>5. /\ queued'[u] = queued[u] + (0 - One(t, u)) /\ InHand(u)' = InHand(u) + One(t, u)
          /\ ready'[u] = ready[u] + 0 /\ Sent(u)' = Sent(u) + 0
          /\ abandoned'[u] = abandoned[u] + 0 /\ crashed'[u] = crashed[u] + 0
          /\ Made(u)' = Made(u) + 0
      BY <3>1, <3>4
    <3>6. Moved(u, 0 - One(t, u), One(t, u), 0, 0, 0, 0, 0)
      BY <3>3, <3>5, Zenon DEF Moved
    <3> QED BY <3>2, <3>6
  <2> QED BY <2>2, <2>moves, BalancedStep, Zenon
\* If its acknowledgement failed the queue keeps it: there is one more.
<1>3. CASE ackFailures' = Incremented(ackFailures, t) /\ UNCHANGED queued
  <2>1. /\ ackFailures' \in Counters
        /\ \A u \in Tasks : ackFailures'[u] = ackFailures[u] + One(t, u)
    BY <1>0, <1>3, IncrementedFacts, Zenon
  <2>2. TypeOK' /\ HandsMatch'
    BY <1>0, <1>1, <1>3, <2>1, Zenon DEF IInv, TypeOK, HandsMatch, receive
  <2>3. \A u \in Tasks : Made(u)' = Made(u) + One(t, u)
    BY <1>0, <1>1, <2>1 DEF Made, One, Counters
  <2>moves. \A u \in Tasks : \E q, h, r, s, a, c, m \in Int : Moved(u, q, h, r, s, a, c, m)
    <3> TAKE u \in Tasks
    <3>1. /\ Made(u)' = Made(u) + One(t, u) /\ InHand(u)' = InHand(u) + One(t, u)
          /\ One(t, u) \in Int /\ Sent(u)' = Sent(u)
          /\ UNCHANGED <<queued, ready, abandoned, crashed>>
      BY <1>1, <1>3, <2>3 DEF One
    <3>2. One(t, u) \in Int
      BY <3>1, CopyFacts, Zenon
    <3>3. 0 + One(t, u) + 0 + 0 + 0 + 0 = One(t, u)
      BY <3>2
    <3>4. /\ queued[u] \in Nat /\ InHand(u) \in Nat /\ ready[u] \in Nat /\ Sent(u) \in Nat
          /\ abandoned[u] \in Nat /\ crashed[u] \in Nat /\ Made(u) \in Nat
      BY CopyFacts, Zenon
    <3>5. /\ queued'[u] = queued[u] + 0 /\ InHand(u)' = InHand(u) + One(t, u)
          /\ ready'[u] = ready[u] + 0 /\ Sent(u)' = Sent(u) + 0
          /\ abandoned'[u] = abandoned[u] + 0 /\ crashed'[u] = crashed[u] + 0
          /\ Made(u)' = Made(u) + One(t, u)
      BY <3>1, <3>4
    <3>6. Moved(u, 0, One(t, u), 0, 0, 0, 0, One(t, u))
      BY <3>3, <3>5, Zenon DEF Moved
    <3> QED BY <3>2, <3>6
  <2> QED BY <2>2, <2>moves, BalancedStep, Zenon
<1> QED BY <1>2, <1>3, Zenon DEF receive

\* The handler passes its copy to the scheduler or answers it.
LEMMA PrepareIInv ==
  ASSUME IInv, selectCompileAndSchedule
  PROVE  IInv'
<1>0. current \in Tasks /\ ready \in Counters /\ current' = None /\ TypeOK
  BY Zenon DEF IInv, TypeOK, HandsMatch, selectCompileAndSchedule
<1>1. /\ UNCHANGED <<unsent, queued, abandoned, crashed, ackFailures>>
      /\ \A u \in Tasks : InHand(u)' = InHand(u) - One(current, u) /\ Made(u)' = Made(u)
  BY <1>0, StandaloneAssumption DEF selectCompileAndSchedule, InHand, One, Made
<1>2. CASE ready' = Incremented(ready, current) /\ UNCHANGED answerVars
  <2>1. ready' \in Counters /\ \A u \in Tasks : ready'[u] = ready[u] + One(current, u)
    BY <1>0, <1>2, IncrementedFacts, Zenon
  <2>2. TypeOK' /\ HandsMatch'
    BY <1>0, <1>1, <1>2, <2>1, StandaloneAssumption, Zenon
       DEF IInv, TypeOK, HandsMatch, selectCompileAndSchedule, answerVars
  <2>moves. \A u \in Tasks : \E q, h, r, s, a, c, m \in Int : Moved(u, q, h, r, s, a, c, m)
    <3> TAKE u \in Tasks
    <3>1. /\ ready'[u] = ready[u] + One(current, u) /\ InHand(u)' = InHand(u) - One(current, u)
          /\ One(current, u) \in Int /\ 0 - One(current, u) \in Int
          /\ Sent(u)' = Sent(u) /\ Made(u)' = Made(u) /\ UNCHANGED <<queued, abandoned, crashed>>
      BY <1>1, <1>2, <2>1 DEF One, Sent, answerVars
    <3>2. 0 - One(current, u) \in Int /\ One(current, u) \in Int
      BY <3>1, CopyFacts, Zenon
    <3>3. 0 + (0 - One(current, u)) + One(current, u) + 0 + 0 + 0 = 0
      BY <3>2
    <3>4. /\ queued[u] \in Nat /\ InHand(u) \in Nat /\ ready[u] \in Nat /\ Sent(u) \in Nat
          /\ abandoned[u] \in Nat /\ crashed[u] \in Nat /\ Made(u) \in Nat
      BY CopyFacts, Zenon
    <3>5. /\ queued'[u] = queued[u] + 0 /\ InHand(u)' = InHand(u) + (0 - One(current, u))
          /\ ready'[u] = ready[u] + One(current, u) /\ Sent(u)' = Sent(u) + 0
          /\ abandoned'[u] = abandoned[u] + 0 /\ crashed'[u] = crashed[u] + 0
          /\ Made(u)' = Made(u) + 0
      BY <3>1, <3>4
    <3>6. Moved(u, 0, 0 - One(current, u), One(current, u), 0, 0, 0, 0)
      BY <3>3, <3>5, Zenon DEF Moved
    <3> QED BY <3>2, <3>6
  <2> QED BY <2>2, <2>moves, BalancedStep, Zenon
<1>3. CASE sendFailure(current) /\ UNCHANGED ready
  <2>1. /\ results' \in Counters /\ cancellations' \in Counters /\ lostSends' \in Counters
        /\ \A u \in Tasks : Sent(u)' = Sent(u) + One(current, u)
    BY <1>0, <1>3, SendFacts, Zenon
  <2>2. TypeOK' /\ HandsMatch'
    BY <1>0, <1>1, <1>3, <2>1, StandaloneAssumption, Zenon
       DEF IInv, TypeOK, HandsMatch, selectCompileAndSchedule
  <2>moves. \A u \in Tasks : \E q, h, r, s, a, c, m \in Int : Moved(u, q, h, r, s, a, c, m)
    <3> TAKE u \in Tasks
    <3>1. /\ Sent(u)' = Sent(u) + One(current, u) /\ InHand(u)' = InHand(u) - One(current, u)
          /\ One(current, u) \in Int /\ 0 - One(current, u) \in Int
          /\ Made(u)' = Made(u) /\ UNCHANGED <<queued, ready, abandoned, crashed>>
      BY <1>1, <1>3, <2>1 DEF One
    <3>2. 0 - One(current, u) \in Int /\ One(current, u) \in Int
      BY <3>1, CopyFacts, Zenon
    <3>3. 0 + (0 - One(current, u)) + 0 + One(current, u) + 0 + 0 = 0
      BY <3>2
    <3>4. /\ queued[u] \in Nat /\ InHand(u) \in Nat /\ ready[u] \in Nat /\ Sent(u) \in Nat
          /\ abandoned[u] \in Nat /\ crashed[u] \in Nat /\ Made(u) \in Nat
      BY CopyFacts, Zenon
    <3>5. /\ queued'[u] = queued[u] + 0 /\ InHand(u)' = InHand(u) + (0 - One(current, u))
          /\ ready'[u] = ready[u] + 0 /\ Sent(u)' = Sent(u) + One(current, u)
          /\ abandoned'[u] = abandoned[u] + 0 /\ crashed'[u] = crashed[u] + 0
          /\ Made(u)' = Made(u) + 0
      BY <3>1, <3>4
    <3>6. Moved(u, 0, 0 - One(current, u), 0, One(current, u), 0, 0, 0)
      BY <3>3, <3>5, Zenon DEF Moved
    <3> QED BY <3>2, <3>6
  <2> QED BY <2>2, <2>moves, BalancedStep, Zenon
<1> QED BY <1>2, <1>3, Zenon DEF selectCompileAndSchedule

\* A copy leaves the scheduler for the executor, an answer or oblivion.
LEMMA ExecuteNextIInv ==
  ASSUME IInv, NEW t \in Tasks, ExecuteNext(t)
  PROVE  IInv'
<1>0. ready \in Counters /\ abandoned \in Counters /\ current \notin Tasks /\ TypeOK
  BY Zenon DEF IInv, TypeOK, HandsMatch, ExecuteNext
<1>1. ready' \in Counters /\ \A u \in Tasks : ready'[u] = ready[u] - One(t, u)
  BY <1>0, DecrementedFacts, Zenon DEF ExecuteNext
<1>2. /\ UNCHANGED <<unsent, queued, crashed, ackFailures>>
      /\ \A u \in Tasks : Made(u)' = Made(u)
  BY Zenon DEF ExecuteNext, Made
<1>3. CASE ~flag /\ current' = t /\ pc' = "run" /\ UNCHANGED <<answerVars, abandoned>>
  <2>1. TypeOK' /\ HandsMatch'
    BY <1>1, <1>2, <1>3, Zenon DEF IInv, TypeOK, HandsMatch, ExecuteNext, answerVars
  <2>moves. \A u \in Tasks : \E q, h, r, s, a, c, m \in Int : Moved(u, q, h, r, s, a, c, m)
    <3> TAKE u \in Tasks
    <3>1. /\ ready'[u] = ready[u] - One(t, u) /\ One(t, u) \in Int /\ 0 - One(t, u) \in Int
          /\ Made(u)' = Made(u) /\ UNCHANGED <<queued, crashed>>
          /\ InHand(u)' = InHand(u) + One(t, u)
          /\ Sent(u)' = Sent(u) /\ UNCHANGED abandoned
      BY <1>0, <1>1, <1>2, <1>3 DEF One, InHand, Sent, answerVars
    <3>2. 0 - One(t, u) \in Int /\ One(t, u) \in Int
      BY <3>1, CopyFacts, Zenon
    <3>3. 0 + One(t, u) + (0 - One(t, u)) + 0 + 0 + 0 = 0
      BY <3>2
    <3>4. /\ queued[u] \in Nat /\ InHand(u) \in Nat /\ ready[u] \in Nat /\ Sent(u) \in Nat
          /\ abandoned[u] \in Nat /\ crashed[u] \in Nat /\ Made(u) \in Nat
      BY CopyFacts, Zenon
    <3>5. /\ queued'[u] = queued[u] + 0 /\ InHand(u)' = InHand(u) + One(t, u)
          /\ ready'[u] = ready[u] + (0 - One(t, u)) /\ Sent(u)' = Sent(u) + 0
          /\ abandoned'[u] = abandoned[u] + 0 /\ crashed'[u] = crashed[u] + 0
          /\ Made(u)' = Made(u) + 0
      BY <3>1, <3>4
    <3>6. Moved(u, 0, One(t, u), 0 - One(t, u), 0, 0, 0, 0)
      BY <3>3, <3>5, Zenon DEF Moved
    <3> QED BY <3>2, <3>6
  <2> QED BY <2>1, <2>moves, BalancedStep, Zenon
<1>4. CASE flag /\ sendFailure(t) /\ UNCHANGED <<current, pc, abandoned>>
  <2>1. /\ results' \in Counters /\ cancellations' \in Counters /\ lostSends' \in Counters
        /\ \A u \in Tasks : Sent(u)' = Sent(u) + One(t, u)
    BY <1>0, <1>4, SendFacts, Zenon
  <2>2. TypeOK' /\ HandsMatch'
    BY <1>1, <1>2, <1>4, <2>1, Zenon DEF IInv, TypeOK, HandsMatch, ExecuteNext
  <2>moves. \A u \in Tasks : \E q, h, r, s, a, c, m \in Int : Moved(u, q, h, r, s, a, c, m)
    <3> TAKE u \in Tasks
    <3>1. /\ ready'[u] = ready[u] - One(t, u) /\ One(t, u) \in Int /\ 0 - One(t, u) \in Int
          /\ Made(u)' = Made(u) /\ UNCHANGED <<queued, crashed>>
          /\ Sent(u)' = Sent(u) + One(t, u)
          /\ InHand(u)' = InHand(u) /\ UNCHANGED abandoned
      BY <1>1, <1>2, <1>4, <2>1 DEF One, InHand
    <3>2. 0 - One(t, u) \in Int /\ One(t, u) \in Int
      BY <3>1, CopyFacts, Zenon
    <3>3. 0 + 0 + (0 - One(t, u)) + One(t, u) + 0 + 0 = 0
      BY <3>2
    <3>4. /\ queued[u] \in Nat /\ InHand(u) \in Nat /\ ready[u] \in Nat /\ Sent(u) \in Nat
          /\ abandoned[u] \in Nat /\ crashed[u] \in Nat /\ Made(u) \in Nat
      BY CopyFacts, Zenon
    <3>5. /\ queued'[u] = queued[u] + 0 /\ InHand(u)' = InHand(u) + 0
          /\ ready'[u] = ready[u] + (0 - One(t, u)) /\ Sent(u)' = Sent(u) + One(t, u)
          /\ abandoned'[u] = abandoned[u] + 0 /\ crashed'[u] = crashed[u] + 0
          /\ Made(u)' = Made(u) + 0
      BY <3>1, <3>4
    <3>6. Moved(u, 0, 0, 0 - One(t, u), One(t, u), 0, 0, 0)
      BY <3>3, <3>5, Zenon DEF Moved
    <3> QED BY <3>2, <3>6
  <2> QED BY <2>2, <2>moves, BalancedStep, Zenon
<1>5. CASE /\ flag /\ abandoned' = Incremented(abandoned, t) /\ pc' = "check"
           /\ UNCHANGED <<current, answerVars>>
  <2>1. /\ abandoned' \in Counters
        /\ \A u \in Tasks : abandoned'[u] = abandoned[u] + One(t, u)
    BY <1>0, <1>5, IncrementedFacts, Zenon
  <2>2. TypeOK' /\ HandsMatch'
    BY <1>0, <1>1, <1>2, <1>5, <2>1, Zenon DEF IInv, TypeOK, HandsMatch, ExecuteNext, answerVars
  <2>moves. \A u \in Tasks : \E q, h, r, s, a, c, m \in Int : Moved(u, q, h, r, s, a, c, m)
    <3> TAKE u \in Tasks
    <3>1. /\ ready'[u] = ready[u] - One(t, u) /\ One(t, u) \in Int /\ 0 - One(t, u) \in Int
          /\ Made(u)' = Made(u) /\ UNCHANGED <<queued, crashed>>
          /\ abandoned'[u] = abandoned[u] + One(t, u)
          /\ InHand(u)' = InHand(u) /\ Sent(u)' = Sent(u)
      BY <1>1, <1>2, <1>5, <2>1 DEF One, InHand, Sent, answerVars
    <3>2. 0 - One(t, u) \in Int /\ One(t, u) \in Int
      BY <3>1, CopyFacts, Zenon
    <3>3. 0 + 0 + (0 - One(t, u)) + 0 + One(t, u) + 0 = 0
      BY <3>2
    <3>4. /\ queued[u] \in Nat /\ InHand(u) \in Nat /\ ready[u] \in Nat /\ Sent(u) \in Nat
          /\ abandoned[u] \in Nat /\ crashed[u] \in Nat /\ Made(u) \in Nat
      BY CopyFacts, Zenon
    <3>5. /\ queued'[u] = queued[u] + 0 /\ InHand(u)' = InHand(u) + 0
          /\ ready'[u] = ready[u] + (0 - One(t, u)) /\ Sent(u)' = Sent(u) + 0
          /\ abandoned'[u] = abandoned[u] + One(t, u) /\ crashed'[u] = crashed[u] + 0
          /\ Made(u)' = Made(u) + 0
      BY <3>1, <3>4
    <3>6. Moved(u, 0, 0, 0 - One(t, u), 0, One(t, u), 0, 0)
      BY <3>3, <3>5, Zenon DEF Moved
    <3> QED BY <3>2, <3>6
  <2> QED BY <2>2, <2>moves, BalancedStep, Zenon
<1> QED BY <1>3, <1>4, <1>5, Zenon DEF ExecuteNext

\* An execution ends in an answer, or in an abandoned task.
LEMMA ExecuteEndsIInv ==
  ASSUME IInv, ExecuteEnds
  PROVE  IInv'
<1>0. current \in Tasks /\ current' = None /\ abandoned \in Counters /\ TypeOK
  BY Zenon DEF IInv, TypeOK, HandsMatch, ExecuteEnds
<1>1. /\ UNCHANGED <<unsent, queued, ready, crashed, ackFailures>>
      /\ \A u \in Tasks : InHand(u)' = InHand(u) - One(current, u) /\ Made(u)' = Made(u)
  BY <1>0, StandaloneAssumption DEF ExecuteEnds, InHand, One, Made
<1>2. CASE /\ sendResult(current) \/ sendFailure(current)
           /\ pc' = "execute" /\ UNCHANGED abandoned
  <2>1. /\ results' \in Counters /\ cancellations' \in Counters /\ lostSends' \in Counters
        /\ \A u \in Tasks : Sent(u)' = Sent(u) + One(current, u)
    BY <1>0, <1>2, SendFacts, Zenon
  <2>2. TypeOK' /\ HandsMatch'
    BY <1>0, <1>1, <1>2, <2>1, StandaloneAssumption, Zenon DEF IInv, TypeOK, HandsMatch, ExecuteEnds
  <2>moves. \A u \in Tasks : \E q, h, r, s, a, c, m \in Int : Moved(u, q, h, r, s, a, c, m)
    <3> TAKE u \in Tasks
    <3>1. /\ InHand(u)' = InHand(u) - One(current, u)
          /\ One(current, u) \in Int /\ 0 - One(current, u) \in Int
          /\ Made(u)' = Made(u) /\ UNCHANGED <<queued, ready, crashed>>
          /\ Sent(u)' = Sent(u) + One(current, u) /\ UNCHANGED abandoned
      BY <1>1, <1>2, <2>1 DEF One
    <3>2. 0 - One(current, u) \in Int /\ One(current, u) \in Int
      BY <3>1, CopyFacts, Zenon
    <3>3. 0 + (0 - One(current, u)) + 0 + One(current, u) + 0 + 0 = 0
      BY <3>2
    <3>4. /\ queued[u] \in Nat /\ InHand(u) \in Nat /\ ready[u] \in Nat /\ Sent(u) \in Nat
          /\ abandoned[u] \in Nat /\ crashed[u] \in Nat /\ Made(u) \in Nat
      BY CopyFacts, Zenon
    <3>5. /\ queued'[u] = queued[u] + 0 /\ InHand(u)' = InHand(u) + (0 - One(current, u))
          /\ ready'[u] = ready[u] + 0 /\ Sent(u)' = Sent(u) + One(current, u)
          /\ abandoned'[u] = abandoned[u] + 0 /\ crashed'[u] = crashed[u] + 0
          /\ Made(u)' = Made(u) + 0
      BY <3>1, <3>4
    <3>6. Moved(u, 0, 0 - One(current, u), 0, One(current, u), 0, 0, 0)
      BY <3>3, <3>5, Zenon DEF Moved
    <3> QED BY <3>2, <3>6
  <2> QED BY <2>2, <2>moves, BalancedStep, Zenon
<1>3. CASE /\ flag /\ abandoned' = Incremented(abandoned, current) /\ pc' = "check"
           /\ UNCHANGED answerVars
  <2>1. /\ abandoned' \in Counters
        /\ \A u \in Tasks : abandoned'[u] = abandoned[u] + One(current, u)
    BY <1>0, <1>3, IncrementedFacts, Zenon
  <2>2. TypeOK' /\ HandsMatch'
    BY <1>0, <1>1, <1>3, <2>1, StandaloneAssumption, Zenon
       DEF IInv, TypeOK, HandsMatch, ExecuteEnds, answerVars
  <2>moves. \A u \in Tasks : \E q, h, r, s, a, c, m \in Int : Moved(u, q, h, r, s, a, c, m)
    <3> TAKE u \in Tasks
    <3>1. /\ InHand(u)' = InHand(u) - One(current, u)
          /\ One(current, u) \in Int /\ 0 - One(current, u) \in Int
          /\ Made(u)' = Made(u) /\ UNCHANGED <<queued, ready, crashed>>
          /\ abandoned'[u] = abandoned[u] + One(current, u) /\ Sent(u)' = Sent(u)
      BY <1>1, <1>3, <2>1 DEF One, Sent, answerVars
    <3>2. 0 - One(current, u) \in Int /\ One(current, u) \in Int
      BY <3>1, CopyFacts, Zenon
    <3>3. 0 + (0 - One(current, u)) + 0 + 0 + One(current, u) + 0 = 0
      BY <3>2
    <3>4. /\ queued[u] \in Nat /\ InHand(u) \in Nat /\ ready[u] \in Nat /\ Sent(u) \in Nat
          /\ abandoned[u] \in Nat /\ crashed[u] \in Nat /\ Made(u) \in Nat
      BY CopyFacts, Zenon
    <3>5. /\ queued'[u] = queued[u] + 0 /\ InHand(u)' = InHand(u) + (0 - One(current, u))
          /\ ready'[u] = ready[u] + 0 /\ Sent(u)' = Sent(u) + 0
          /\ abandoned'[u] = abandoned[u] + One(current, u) /\ crashed'[u] = crashed[u] + 0
          /\ Made(u)' = Made(u) + 0
      BY <3>1, <3>4
    <3>6. Moved(u, 0, 0 - One(current, u), 0, 0, One(current, u), 0, 0)
      BY <3>3, <3>5, Zenon DEF Moved
    <3> QED BY <3>2, <3>6
  <2> QED BY <2>2, <2>moves, BalancedStep, Zenon
<1> QED BY <1>2, <1>3, Zenon DEF ExecuteEnds

\* A crash loses what the process held, and nothing else.
LEMMA CrashIInv ==
  ASSUME IInv, Crash
  PROVE  IInv'
<1>0. /\ ready \in Counters /\ crashed \in Counters
      /\ \A u \in Tasks : InHand(u) \in Nat /\ InHand(u)' = 0
  BY StandaloneAssumption, Zenon DEF IInv, TypeOK, InHand, Crash
<1>1. /\ crashed' \in Counters /\ ready' \in Counters
      /\ \A u \in Tasks : /\ ready[u] \in Nat /\ ready'[u] = ready[u] + (0 - ready[u])
                          /\ crashed'[u] = crashed[u] + (ready[u] + InHand(u))
  BY <1>0 DEF Crash, Zero, Counters
<1>2. TypeOK' /\ HandsMatch'
  BY <1>1, StandaloneAssumption DEF IInv, TypeOK, HandsMatch, Crash, answerVars
<1>moves. \A u \in Tasks : \E q, h, r, s, a, c, m \in Int : Moved(u, q, h, r, s, a, c, m)
  <2> TAKE u \in Tasks
  <2>1. /\ ready[u] \in Int /\ InHand(u) \in Int /\ 0 - ready[u] \in Int /\ 0 - InHand(u) \in Int
        /\ ready[u] + InHand(u) \in Int
        /\ ready'[u] = ready[u] + (0 - ready[u]) /\ InHand(u)' = InHand(u) + (0 - InHand(u))
        /\ crashed'[u] = crashed[u] + (ready[u] + InHand(u))
        /\ Sent(u)' = Sent(u) /\ Made(u)' = Made(u) /\ UNCHANGED <<queued, abandoned>>
    BY <1>0, <1>1 DEF Crash, answerVars, Sent, Made
  <2>2. 0 - InHand(u) \in Int /\ 0 - ready[u] \in Int /\ ready[u] + InHand(u) \in Int
    BY <2>1, CopyFacts, Zenon
  <2>3. 0 + (0 - InHand(u)) + (0 - ready[u]) + 0 + 0 + (ready[u] + InHand(u)) = 0
    <3>1. ready[u] \in Int /\ InHand(u) \in Int
      BY <2>1, Zenon
    <3> QED BY <3>1
  <2>4. /\ queued[u] \in Nat /\ InHand(u) \in Nat /\ ready[u] \in Nat /\ Sent(u) \in Nat
        /\ abandoned[u] \in Nat /\ crashed[u] \in Nat /\ Made(u) \in Nat
    BY CopyFacts, Zenon
  <2>5. /\ queued'[u] = queued[u] + 0 /\ InHand(u)' = InHand(u) + (0 - InHand(u))
        /\ ready'[u] = ready[u] + (0 - ready[u]) /\ Sent(u)' = Sent(u) + 0
        /\ abandoned'[u] = abandoned[u] + 0 /\ crashed'[u] = crashed[u] + (ready[u] + InHand(u))
        /\ Made(u)' = Made(u) + 0
    BY <2>1, <2>4
  <2>6. Moved(u, 0, 0 - InHand(u), 0 - ready[u], 0, 0, ready[u] + InHand(u), 0)
    BY <2>3, <2>5, Zenon DEF Moved
  <2> QED BY <2>2, <2>6
<1> QED BY <1>2, <1>moves, BalancedStep, Zenon

\* Every step of the daemon and of its surroundings keeps the invariant.
LEMMA NextIInv ==
  IInv /\ [Next]_vars => IInv'
<1> SUFFICES ASSUME IInv, [Next]_vars PROVE IInv'
  BY Zenon
<1>1. CASE UNCHANGED vars
  BY <1>1, Zenon DEF vars, IInv, TypeOK, HandsMatch, EveryCopyAccountedFor, InHand, Sent
<1>2. CASE Next
  BY <1>2, ClientSendsIInv, StopIInv, ControlIInv, ReceiveIInv, PrepareIInv,
     ExecuteNextIInv, ExecuteEndsIInv, CrashIInv, Zenon DEF Next, Daemon
<1> QED BY <1>1, <1>2, Zenon

\* The accounting of the standalone daemon holds in every state.
THEOREM Inductive ==
  Spec => []IInv
BY InitIInv, NextIInv, PTL DEF Spec

\* Every variable of the loop keeps its type; no counter goes below zero.
THEOREM TypeCorrect ==
  Spec => []TypeOK
<1>1. IInv => TypeOK
  BY Zenon DEF IInv
<1> QED BY <1>1, Inductive, PTL

\* The drain and execution loops neither drop a copy silently nor answer one
\* twice, whatever fails and whenever the process is stopped.
THEOREM CopiesAreAccountedFor ==
  Spec => []EveryCopyAccountedFor
<1>1. IInv => EveryCopyAccountedFor
  BY Zenon DEF IInv
<1> QED BY <1>1, Inductive, PTL

\* With acknowledgements that never fail, a client gets at most one answer
\* for a task, counting results and cancellations together.
THEOREM AtMostOneAnswer ==
  Spec => [](\A t \in Tasks : ackFailures[t] = 0 => Answers(t) <= 1)
<1>1. IInv => \A t \in Tasks : ackFailures[t] = 0 => Answers(t) <= 1
  <2> SUFFICES ASSUME IInv, NEW u \in Tasks, ackFailures[u] = 0 PROVE Answers(u) <= 1
    BY Zenon
  <2>1. Made(u) <= 1
    BY DEF Made
  <2>2. Sent(u) <= 1
    BY <2>1, CopyFacts
  <2>3. results[u] \in Nat /\ cancellations[u] \in Nat /\ lostSends[u] \in Nat
    BY Zenon DEF IInv, TypeOK, Counters
  <2> QED BY <2>2, <2>3 DEF Answers, Sent
<1> QED BY <1>1, Inductive, PTL

\* The scheduler of a process that ended is gone, so that the next process
\* starts with none of its tasks.
EndedHoldsNothing == ~Running => \A t \in Tasks : ~(ready[t] > 0)

TurnInv == ExecutedInTheirTurn /\ EndedHoldsNothing

LEMMA InitTurn == Init => TurnInv
BY DEF Init, TurnInv, ExecutedInTheirTurn, EndedHoldsNothing, Running, Zero

LEMMA NextTurn == IInv /\ TurnInv /\ [Next]_vars => TurnInv'
<1>. SUFFICES ASSUME IInv, TurnInv, [Next]_vars PROVE TurnInv'
  BY Zenon
<1>. USE DEF Running
<1>0. ready \in Counters /\ TypeOK
  BY Zenon DEF IInv, TypeOK
<1>1. CASE UNCHANGED vars
  BY <1>1, Zenon DEF vars, TurnInv, ExecutedInTheirTurn, EndedHoldsNothing
<1>2. CASE Stop \/ Crash
  BY <1>2 DEF Stop, Crash, Zero, TurnInv, ExecutedInTheirTurn, EndedHoldsNothing
<1>3. CASE Refresh
  \* At the loop condition with the flag clear the scheduler is empty.
  <2>1. \A t \in Tasks : ~(ready[t] > 0)
    BY <1>3, Zenon DEF Refresh, TurnInv, ExecutedInTheirTurn
  <2>. QED  BY <1>3, <2>1, Zenon DEF Refresh, TurnInv, ExecutedInTheirTurn, EndedHoldsNothing
<1>4. ASSUME NEW t \in Tasks, receive(t) \/ ClientSends(t) PROVE TurnInv'
  BY <1>4, Zenon DEF receive, ClientSends, TurnInv, ExecutedInTheirTurn, EndedHoldsNothing
<1>5. CASE DrainEnds \/ RequestTermination
  BY <1>5, Zenon DEF DrainEnds, RequestTermination, TurnInv, ExecutedInTheirTurn, EndedHoldsNothing
<1>6. CASE selectCompileAndSchedule
  BY <1>6, Zenon DEF selectCompileAndSchedule, TurnInv, ExecutedInTheirTurn, EndedHoldsNothing
<1>7. CASE ExecuteDone
  BY <1>7 DEF ExecuteDone, Zero, TurnInv, ExecutedInTheirTurn, EndedHoldsNothing
<1>8. CASE ExecuteEnds
  BY <1>8, Zenon DEF ExecuteEnds, TurnInv, ExecutedInTheirTurn, EndedHoldsNothing
<1>9. ASSUME NEW t \in Tasks, ExecuteNext(t) PROVE TurnInv'
  <2>1. entry' = entry /\ entry = "online" /\ pc = "execute"
    BY <1>9, Zenon DEF ExecuteNext, TurnInv, ExecutedInTheirTurn
  <2>2. pc' = "check" => flag'
    BY <1>9, Zenon DEF ExecuteNext
  <2>3. Running'
    BY <1>9, Zenon DEF ExecuteNext
  <2>. QED  BY <2>1, <2>2, <2>3, Zenon DEF TurnInv, ExecutedInTheirTurn, EndedHoldsNothing
<1>10. CASE Restart
  BY <1>10, Zenon DEF Restart, TurnInv, ExecutedInTheirTurn, EndedHoldsNothing
<1>. QED  BY <1>1, <1>2, <1>3, <1>4, <1>5, <1>6, <1>7, <1>8, <1>9, <1>10, Zenon
  DEF Next, Daemon

\* The execution loop is left with tasks in the scheduler only on the way
\* out, so no task meets a registry entry other than the one it was selected
\* from, in this process or in the next.
THEOREM TasksMeetTheirEntry == Spec => []ExecutedInTheirTurn
<1>1. TurnInv => ExecutedInTheirTurn
  BY Zenon DEF TurnInv
<1>. QED  BY <1>1, Inductive, InitTurn, NextTurn, PTL DEF Spec

(***************************************************************************)
(* The standalone daemon implements TaskService.                           *)
(***************************************************************************)

\* A task that no client has sent has no failed acknowledgement either, so a
\* task enters the service as new and leaves that status only by being sent.
UnsentUntouched == \A t \in unsent : ackFailures[t] = 0

RInv == IInv /\ UnsentUntouched

\* The refinement mapping.
ServiceStatus == [t \in Tasks |-> StatusOf(t)]

\* Where a copy of u can still be answered or lost.
Alive(u) == queued[u] > 0 \/ InHand(u) > 0 \/ ready[u] > 0

\* If at most one copy was made, and it is alive, then there is no other.
LEMMA AtMostOneFacts ==
  ASSUME IInv, NEW u \in Tasks
  PROVE  /\ Alive(u) => Made(u) > 0
         /\ Made(u) = 0 \/ (Made(u) <= 1 /\ Alive(u))
              => /\ results[u] = 0 /\ cancellations[u] = 0 /\ lostSends[u] = 0
                 /\ abandoned[u] = 0 /\ crashed[u] = 0
<1>1. /\ queued[u] \in Nat /\ InHand(u) \in Nat /\ ready[u] \in Nat
      /\ abandoned[u] \in Nat /\ crashed[u] \in Nat /\ Made(u) \in Nat
      /\ queued[u] + InHand(u) + ready[u] + Sent(u) + abandoned[u] + crashed[u] = Made(u)
  BY CopyFacts, Zenon
<1>2. results[u] \in Nat /\ cancellations[u] \in Nat /\ lostSends[u] \in Nat
  BY Zenon DEF IInv, TypeOK, Counters
<1>3. queued[u] + InHand(u) + ready[u] + (results[u] + cancellations[u] + lostSends[u])
        + abandoned[u] + crashed[u] = Made(u)
  BY <1>1, Zenon DEF Sent
<1>4. Alive(u) <=> queued[u] > 0 \/ InHand(u) > 0 \/ ready[u] > 0
  BY Zenon DEF Alive
<1>5. PICK q \in Nat, h \in Nat, r \in Nat, m \in Nat :
        q = queued[u] /\ h = InHand(u) /\ r = ready[u] /\ m = Made(u)
  BY <1>1, Zenon
<1>6. PICK re \in Nat, ca \in Nat, lo \in Nat, ab \in Nat, cr \in Nat :
        /\ re = results[u] /\ ca = cancellations[u] /\ lo = lostSends[u]
        /\ ab = abandoned[u] /\ cr = crashed[u]
  BY <1>1, <1>2, SMTT(20)
<1>7. q + h + r + (re + ca + lo) + ab + cr = m
  BY <1>3, <1>5, <1>6, Zenon
<1>8. /\ q > 0 \/ h > 0 \/ r > 0 => m > 0
      /\ m = 0 \/ (m <= 1 /\ (q > 0 \/ h > 0 \/ r > 0))
           => re = 0 /\ ca = 0 /\ lo = 0 /\ ab = 0 /\ cr = 0
  BY <1>7
<1>. QED  BY <1>4, <1>5, <1>6, <1>8, Zenon

\* Of a task with such a copy the client has heard nothing, unless the broker
\* delivered it twice.  This is where the accounting is needed.
LEMMA AliveIsPending ==
  ASSUME RInv, NEW u \in Tasks, Alive(u)
  PROVE  /\ u \notin unsent
         /\ ackFailures[u] = 0 =>
              /\ results[u] = 0 /\ cancellations[u] = 0 /\ lostSends[u] = 0
              /\ abandoned[u] = 0 /\ crashed[u] = 0
<1>1. ackFailures[u] \in Nat
  BY Zenon DEF RInv, IInv, TypeOK, Counters
<1>2. u \in unsent => Made(u) = 0
  BY DEF RInv, UnsentUntouched, Made
<1>3. ackFailures[u] = 0 => Made(u) <= 1
  BY DEF Made
<1>. QED  BY <1>1, <1>2, <1>3, AtMostOneFacts DEF RInv

\* What StatusOf reads of u does not change.
Still(u) ==
  /\ u \in unsent' <=> u \in unsent
  /\ ackFailures'[u] = ackFailures[u]
  /\ results'[u] = results[u] /\ cancellations'[u] = cancellations[u]
  /\ lostSends'[u] = lostSends[u]
  /\ abandoned'[u] = abandoned[u] /\ crashed'[u] = crashed[u]

LEMMA StillFacts ==
  ASSUME NEW u \in Tasks, Still(u) PROVE StatusOf(u)' = StatusOf(u)
BY Zenon DEF Still, StatusOf

\* A copy of u is lost: a refused send, an abandoned task or a crash.
Loses(u) ==
  /\ Alive(u)
  /\ u \in unsent' <=> u \in unsent
  /\ ackFailures'[u] = ackFailures[u]
  /\ results'[u] = results[u] /\ cancellations'[u] = cancellations[u]
  /\ lostSends'[u] + abandoned'[u] + crashed'[u] > 0

LEMMA LosesFacts ==
  ASSUME RInv, NEW u \in Tasks, Loses(u)
  PROVE  \/ StatusOf(u)' = StatusOf(u)
         \/ StatusOf(u) = "pending" /\ StatusOf(u)' = "lost"
<1>1. ackFailures[u] \in Nat
  BY Zenon DEF RInv, IInv, TypeOK, Counters
<1>. QED  BY <1>1, AliveIsPending, Zenon DEF Loses, StatusOf

\* A copy of u is answered.
Answered(u, answer) ==
  /\ Alive(u)
  /\ u \in unsent' <=> u \in unsent
  /\ ackFailures'[u] = ackFailures[u]
  /\ results'[u] = results[u] + (IF answer = "result" THEN 1 ELSE 0)
  /\ cancellations'[u] = cancellations[u] + (IF answer = "cancelled" THEN 1 ELSE 0)

LEMMA AnsweredFacts ==
  ASSUME RInv, NEW u \in Tasks, NEW answer \in {"result", "cancelled"},
         Answered(u, answer)
  PROVE  \/ StatusOf(u)' = StatusOf(u)
         \/ StatusOf(u) = "pending" /\ StatusOf(u)' = answer
<1>1. ackFailures[u] \in Nat
  BY Zenon DEF RInv, IInv, TypeOK, Counters
<1>. QED  BY <1>1, AliveIsPending DEF Answered, StatusOf

(***************************************************************************)
(* Steps of the service.                                                   *)
(***************************************************************************)

\* A step that changes the status of one task, as the service allows.
LEMMA OneTaskMaps ==
  ASSUME NEW t \in Tasks, \A u \in Tasks \ {t} : StatusOf(u)' = StatusOf(u),
         \/ StatusOf(t)' = StatusOf(t)
         \/ StatusOf(t) = "new" /\ StatusOf(t)' = "pending"
         \/ StatusOf(t) = "pending" /\ StatusOf(t)' \in {"result", "cancelled", "duplicated"}
  PROVE  [Service!Next]_ServiceStatus
<1>1. ServiceStatus' = [ServiceStatus EXCEPT ![t] = StatusOf(t)']
  BY Zenon DEF ServiceStatus
<1>2. ServiceStatus[t] = StatusOf(t)
  BY Zenon DEF ServiceStatus
<1>3. CASE StatusOf(t)' = StatusOf(t)
  BY <1>3, Zenon DEF ServiceStatus
<1>4. CASE StatusOf(t) = "new" /\ StatusOf(t)' = "pending"
  <2>1. Service!Submit(t)
    BY <1>1, <1>2, <1>4, Zenon DEF Service!Submit, ServiceStatus
  <2>. QED  BY <2>1, Zenon DEF Service!Next
<1>5. CASE StatusOf(t) = "pending" /\ StatusOf(t)' \in {"result", "cancelled"}
  <2>1. Service!Answer(t, StatusOf(t)')
    BY <1>1, <1>2, <1>5, Zenon DEF Service!Answer, ServiceStatus
  <2>. QED  BY <1>5, <2>1, Zenon DEF Service!Next
<1>6. CASE StatusOf(t) = "pending" /\ StatusOf(t)' = "duplicated"
  <2>1. Service!Duplicate(t)
    BY <1>1, <1>2, <1>6, Zenon DEF Service!Duplicate, ServiceStatus
  <2>. QED  BY <2>1, Zenon DEF Service!Next
<1>. QED  BY <1>3, <1>4, <1>5, <1>6, Zenon

\* A step in which any number of tasks lose a copy.
LEMMA LosesMaps ==
  ASSUME RInv, \A u \in Tasks : Still(u) \/ Loses(u)
  PROVE  Service!Next
<1>1. \A u \in Tasks : \/ StatusOf(u)' = StatusOf(u)
                       \/ StatusOf(u) = "pending" /\ StatusOf(u)' = "lost"
  BY StillFacts, LosesFacts, Zenon
<1>2. \A u \in Tasks : StatusOf(u)' \in {"new", "pending", "result", "cancelled",
                                         "lost", "duplicated"}
  BY Zenon DEF StatusOf
<1>3. Service!Lose
  BY <1>1, <1>2, Zenon DEF Service!Lose, ServiceStatus
<1>. QED  BY <1>3, Zenon DEF Service!Next

\* sendResult() and sendFailure() of a task that is alive.
LEMMA SendMaps ==
  ASSUME RInv, NEW t \in Tasks, Alive(t), sendResult(t) \/ sendFailure(t),
         UNCHANGED <<unsent, ackFailures, abandoned, crashed>>
  PROVE  [Service!Next]_ServiceStatus
<1>0. /\ results \in Counters /\ cancellations \in Counters /\ lostSends \in Counters
      /\ abandoned \in Counters /\ crashed \in Counters
  BY Zenon DEF RInv, IInv, TypeOK
<1>1. CASE SendLost(t)
  <2>1. \A u \in Tasks : lostSends'[u] = lostSends[u] + One(t, u)
    BY <1>0, <1>1, IncrementedFacts, Zenon DEF SendLost
  <2>2. \A u \in Tasks \ {t} : Still(u)
    BY <1>0, <1>1, <2>1 DEF SendLost, Still, One, Counters
  <2>3. Loses(t)
    BY <1>0, <1>1, <2>1 DEF SendLost, Loses, One, Counters
  <2>. QED  BY <2>2, <2>3, LosesMaps, Zenon
<1>2. CASE results' = Incremented(results, t) /\ UNCHANGED <<cancellations, lostSends>>
  <2>1. \A u \in Tasks : results'[u] = results[u] + One(t, u)
    BY <1>0, <1>2, IncrementedFacts, Zenon
  <2>2. \A u \in Tasks \ {t} : Still(u)
    BY <1>0, <1>2, <2>1 DEF Still, One, Counters
  <2>3. Answered(t, "result")
    BY <1>0, <1>2, <2>1 DEF Answered, One, Counters
  <2>. QED  BY <2>2, <2>3, StillFacts, AnsweredFacts, OneTaskMaps, Zenon
<1>3. CASE cancellations' = Incremented(cancellations, t) /\ UNCHANGED <<results, lostSends>>
  <2>1. \A u \in Tasks : cancellations'[u] = cancellations[u] + One(t, u)
    BY <1>0, <1>3, IncrementedFacts, Zenon
  <2>2. \A u \in Tasks \ {t} : Still(u)
    BY <1>0, <1>3, <2>1 DEF Still, One, Counters
  <2>3. Answered(t, "cancelled")
    BY <1>0, <1>3, <2>1 DEF Answered, One, Counters
  <2>. QED  BY <2>2, <2>3, StillFacts, AnsweredFacts, OneTaskMaps, Zenon
<1>. QED  BY <1>1, <1>2, <1>3, Zenon DEF sendResult, sendFailure

\* One task is abandoned.
LEMMA AbandonMaps ==
  ASSUME RInv, NEW t \in Tasks, Alive(t), abandoned' = Incremented(abandoned, t),
         UNCHANGED <<unsent, ackFailures, answerVars, crashed>>
  PROVE  [Service!Next]_ServiceStatus
<1>0. /\ lostSends \in Counters /\ abandoned \in Counters /\ crashed \in Counters
  BY Zenon DEF RInv, IInv, TypeOK
<1>1. \A u \in Tasks : abandoned'[u] = abandoned[u] + One(t, u)
  BY <1>0, IncrementedFacts, Zenon
<1>2. \A u \in Tasks \ {t} : Still(u)
  BY <1>0, <1>1 DEF answerVars, Still, One, Counters
<1>3. Loses(t)
  BY <1>0, <1>1 DEF answerVars, Loses, One, Counters
<1>. QED  BY <1>2, <1>3, LosesMaps, Zenon

(***************************************************************************)
(* Steps of the daemon.                                                    *)
(***************************************************************************)

LEMMA ClientSendsMaps ==
  ASSUME RInv, NEW t \in Tasks, ClientSends(t)
  PROVE  [Service!Next]_ServiceStatus
<1>1. \A u \in Tasks \ {t} : Still(u)
  BY Zenon DEF ClientSends, answerVars, Still
<1>2. ackFailures[t] = 0 /\ Made(t) = 0
  BY DEF RInv, UnsentUntouched, ClientSends, Made
<1>3. /\ results[t] = 0 /\ cancellations[t] = 0
      /\ lostSends[t] = 0 /\ abandoned[t] = 0 /\ crashed[t] = 0
  BY <1>2, AtMostOneFacts, Zenon DEF RInv
<1>4. StatusOf(t) = "new" /\ StatusOf(t)' = "pending"
  BY <1>2, <1>3 DEF ClientSends, answerVars, StatusOf
<1>. QED  BY <1>1, <1>4, StillFacts, OneTaskMaps, Zenon

\* A failed acknowledgement duplicates the task before any answer.
LEMMA ReceiveMaps ==
  ASSUME RInv, NEW t \in Tasks, receive(t)
  PROVE  [Service!Next]_ServiceStatus
<1>0. ackFailures \in Counters /\ Alive(t)
  BY Zenon DEF RInv, IInv, TypeOK, receive, Alive
<1>1. \A u \in Tasks : ackFailures'[u] = ackFailures[u] \/ u = t
  BY <1>0, IncrementedFacts DEF receive, One, Counters
<1>2. \A u \in Tasks \ {t} : Still(u)
  BY <1>1, Zenon DEF receive, answerVars, Still
<1>3. CASE UNCHANGED ackFailures
  <2>1. Still(t)
    BY <1>3, Zenon DEF receive, answerVars, Still
  <2>. QED  BY <1>2, <2>1, StillFacts, OneTaskMaps, Zenon
<1>4. CASE ackFailures' = Incremented(ackFailures, t)
  <2>1. ackFailures'[t] > 0 /\ ackFailures[t] \in Nat
    BY <1>0, <1>4, IncrementedFacts DEF One, Counters
  <2>2. t \notin unsent' /\ StatusOf(t)' = "duplicated"
    BY <1>0, <2>1, AliveIsPending, Zenon DEF receive, StatusOf
  <2>3. StatusOf(t) \in {"pending", "duplicated"}
    BY <1>0, <2>1, AliveIsPending DEF StatusOf
  <2>. QED  BY <1>2, <2>2, <2>3, StillFacts, OneTaskMaps, Zenon
<1>. QED  BY <1>3, <1>4, Zenon DEF receive

\* A crash or the end of the loop loses every task the process holds.
LEMMA EndMaps ==
  ASSUME RInv, Stop \/ Crash
  PROVE  [Service!Next]_ServiceStatus
<1>1. \A u \in Tasks : Still(u) \/ Loses(u)
  <2>. TAKE u \in Tasks
  <2>1. /\ lostSends[u] \in Nat /\ ready[u] \in Nat /\ InHand(u) \in Nat
        /\ abandoned[u] \in Nat /\ crashed[u] \in Nat
    BY CopyFacts, Zenon DEF RInv, IInv, TypeOK, Counters
  <2>2. CASE Stop
    <3>1. abandoned'[u] = abandoned[u] + ready[u]
      BY <2>2, Zenon DEF Stop
    <3>2. UNCHANGED <<unsent, answerVars, crashed, ackFailures>>
      BY <2>2, Zenon DEF Stop
    <3>3. /\ u \in unsent' <=> u \in unsent
          /\ ackFailures'[u] = ackFailures[u]
          /\ results'[u] = results[u] /\ cancellations'[u] = cancellations[u]
          /\ lostSends'[u] = lostSends[u] /\ crashed'[u] = crashed[u]
      BY <3>2, Zenon DEF answerVars
    <3>4. CASE ready[u] = 0
      <4>1. abandoned'[u] = abandoned[u]
        BY <2>1, <3>1, <3>4
      <4>. QED  BY <3>3, <4>1, Zenon DEF Still
    <3>5. CASE ready[u] > 0
      <4>1. lostSends'[u] + abandoned'[u] + crashed'[u] > 0
        BY <2>1, <3>1, <3>3, <3>5
      <4>. QED  BY <3>3, <3>5, <4>1, Zenon DEF Loses, Alive
    <3>. QED  BY <2>1, <3>4, <3>5
  <2>3. CASE Crash
    <3>1. crashed'[u] = crashed[u] + ready[u] + InHand(u)
      BY <2>3, Zenon DEF Crash
    <3>2. UNCHANGED <<unsent, answerVars, abandoned, ackFailures>>
      BY <2>3, Zenon DEF Crash
    <3>3. /\ u \in unsent' <=> u \in unsent
          /\ ackFailures'[u] = ackFailures[u]
          /\ results'[u] = results[u] /\ cancellations'[u] = cancellations[u]
          /\ lostSends'[u] = lostSends[u] /\ abandoned'[u] = abandoned[u]
      BY <3>2, Zenon DEF answerVars
    <3>4. CASE ready[u] = 0 /\ InHand(u) = 0
      <4>1. crashed'[u] = crashed[u]
        BY <2>1, <3>1, <3>4
      <4>. QED  BY <3>3, <4>1, Zenon DEF Still
    <3>5. CASE ready[u] > 0 \/ InHand(u) > 0
      <4>1. lostSends'[u] + abandoned'[u] + crashed'[u] > 0
        BY <2>1, <3>1, <3>3, <3>5
      <4>. QED  BY <3>3, <3>5, <4>1, Zenon DEF Loses, Alive
    <3>. QED  BY <2>1, <3>4, <3>5
  <2>. QED  BY <2>2, <2>3, Zenon
<1>. QED  BY <1>1, LosesMaps, Zenon

\* What selection or execution makes of the task in hand or next in line.
LEMMA HandledMaps ==
  ASSUME RInv,
         \/ selectCompileAndSchedule \/ ExecuteEnds
         \/ \E t \in Tasks : ExecuteNext(t)
  PROVE  [Service!Next]_ServiceStatus
<1>0. current \in Tasks => Alive(current)
  BY DEF Alive, InHand
<1>1. CASE selectCompileAndSchedule
  <2>1. current \in Tasks
    BY <1>1, Zenon DEF RInv, IInv, HandsMatch, selectCompileAndSchedule
  <2>2. CASE UNCHANGED answerVars
    <3>1. \A u \in Tasks : Still(u)
      BY <1>1, <2>2, Zenon DEF selectCompileAndSchedule, answerVars, Still
    <3>. QED  BY <2>1, <3>1, StillFacts, OneTaskMaps, Zenon
  <2>3. CASE sendFailure(current)
    BY <1>0, <1>1, <2>1, <2>3, SendMaps, Zenon DEF selectCompileAndSchedule
  <2>. QED  BY <1>1, <2>2, <2>3, Zenon DEF selectCompileAndSchedule
<1>2. CASE ExecuteEnds
  <2>1. current \in Tasks
    BY <1>2, Zenon DEF RInv, IInv, HandsMatch, ExecuteEnds
  <2>. QED  BY <1>0, <1>2, <2>1, SendMaps, AbandonMaps, Zenon DEF ExecuteEnds
<1>3. ASSUME NEW t \in Tasks, ExecuteNext(t) PROVE [Service!Next]_ServiceStatus
  <2>1. Alive(t)
    BY <1>3, Zenon DEF ExecuteNext, Alive
  <2>2. CASE UNCHANGED <<answerVars, abandoned>>
    <3>1. \A u \in Tasks : Still(u)
      BY <1>3, <2>2, Zenon DEF ExecuteNext, answerVars, Still
    <3>. QED  BY <3>1, StillFacts, OneTaskMaps, Zenon
  <2>. QED  BY <1>3, <2>1, <2>2, SendMaps, AbandonMaps, Zenon DEF ExecuteNext
<1>. QED  BY <1>1, <1>2, <1>3, Zenon

LEMMA QuietMaps ==
  ASSUME Refresh \/ DrainEnds \/ ExecuteDone \/ RequestTermination \/ Restart
           \/ UNCHANGED vars
  PROVE  UNCHANGED ServiceStatus
<1>1. \A u \in Tasks : Still(u)
  BY Zenon DEF Refresh, DrainEnds, ExecuteDone, RequestTermination, Restart, vars,
         answerVars, Still
<1>. QED  BY <1>1, StillFacts, Zenon DEF ServiceStatus

\* Every step of the daemon is a step of the service, or none.
LEMMA NextMaps == RInv /\ [Next]_vars => [Service!Next]_ServiceStatus
BY ClientSendsMaps, ReceiveMaps, EndMaps, HandledMaps, QuietMaps, Zenon DEF Next, Daemon

LEMMA InitMaps == Init => Service!Init
BY Zenon DEF Init, StatusOf, Service!Init

LEMMA InitUnsent == Init => UnsentUntouched
BY Zenon DEF Init, UnsentUntouched, Zero

LEMMA NextUnsent == IInv /\ UnsentUntouched /\ [Next]_vars => UnsentUntouched'
<1>. SUFFICES ASSUME IInv, UnsentUntouched, [Next]_vars PROVE UnsentUntouched'
  BY Zenon
<1>1. unsent' \subseteq unsent /\ unsent \subseteq Tasks /\ ackFailures \in Counters
  BY Zenon DEF Next, Daemon, Stop, Refresh, DrainEnds, selectCompileAndSchedule,
     ExecuteDone, ExecuteEnds, receive, ExecuteNext, ClientSends,
     RequestTermination, Crash, Restart, vars, IInv, TypeOK
<1>2. CASE UNCHANGED ackFailures
  BY <1>1, <1>2, Zenon DEF UnsentUntouched
<1>3. ASSUME NEW t \in Tasks, receive(t) PROVE UnsentUntouched'
  <2>1. t \notin unsent
    BY <1>3, AliveIsPending, Zenon DEF RInv, receive, Alive
  <2>2. \A u \in Tasks \ {t} : ackFailures'[u] = ackFailures[u]
    BY <1>1, <1>3, IncrementedFacts DEF receive, One, Counters
  <2>. QED  BY <1>1, <2>1, <2>2, Zenon DEF UnsentUntouched
<1>. QED  BY <1>2, <1>3, Zenon
  DEF Next, Daemon, Stop, Refresh, DrainEnds, selectCompileAndSchedule,
      ExecuteDone, ExecuteEnds, ExecuteNext, ClientSends,
      RequestTermination, Crash, Restart, vars

\* Each task is answered at most once, and no answer is withdrawn or
\* replaced, whatever fails in the loop and whenever it is stopped; only a
\* task whose acknowledgement failed is not covered, and the others are not
\* touched by that.
THEOREM StandaloneImplementsTaskService == Spec => ImplementsTaskService
<1>1. Spec => []UnsentUntouched
  BY InitUnsent, NextUnsent, Inductive, PTL DEF Spec
<1>2. IInv /\ UnsentUntouched /\ [Next]_vars => [Service!Next]_ServiceStatus
  BY NextMaps, Zenon DEF RInv
<1>. QED  BY <1>1, <1>2, InitMaps, Inductive, PTL
  DEF Spec, ImplementsTaskService, Service!Spec, ServiceStatus
=============================================================================
