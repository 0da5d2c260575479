-------------------------- MODULE DeploymentProofs --------------------------
(***************************************************************************)
(* What a deployment rests on before a task arrives: the configuration of  *)
(* its daemons (Configuration), proved for any file and environment, and   *)
(* what the selector knows of its workers (StatusPropagation), proved for  *)
(* any workers, names, queues, intervals and times to live.                *)
(***************************************************************************)
EXTENDS Configuration, StatusPropagation, TLAPS

(***************************************************************************)
(* Propagation of statuses.                                                *)
(***************************************************************************)

\* Once no status of a route waits, the entry has been refreshed after the
\* last one was sent.
RefreshedSinceSent ==
  \A n \in DOMAIN entries :
    LET r == Route(entries[n].backend)
    IN  ~Waiting(r) => -entries[n].lastRefreshed <= silence[r]

\* The last status of a route in the queue is the last one sent on it.
LastInQueueIsLastSent ==
  \A i \in 1..Len(statuses) :
    (\A j \in i+1..Len(statuses) : Route(statuses[j]) # Route(statuses[i]))
      => statuses[i].online = lastSent[Route(statuses[i])]

IInv == TypeOK /\ RefreshedSinceSent /\ LastInQueueIsLastSent /\ NewestStatusWins

\* What is known of a status.
LEMMA BackendFacts ==
  ASSUME NEW b \in Backend
  PROVE  /\ Route(b) \in Routes
         /\ b.name \in Names /\ b.queueName # NoQueue /\ b.online \in BOOLEAN
         /\ Route(b).name = b.name /\ Route(b).queueName = b.queueName
<1>1. PICK w \in Workers, online \in BOOLEAN :
        b = [name |-> RouteOf(w).name, queueName |-> RouteOf(w).queueName,
             online |-> online]
  BY DEF Backend, Routes
<1>2. b = [name |-> DeviceOf[w], queueName |-> QueueOf[w], online |-> online]
  BY <1>1, Zenon DEF RouteOf
<1>. QED  BY <1>2, PropagationAssumption, Zenon DEF Route, Routes, RouteOf, Names

\* Two statuses of one name and one queue have the same route.
LEMMA RouteEqual ==
  ASSUME NEW b \in Backend, NEW c \in Backend,
         b.name = c.name, b.queueName = c.queueName
  PROVE  Route(b) = Route(c)
BY Zenon DEF Route

\* A worker's own status is one the selector may be sent.
LEMMA StatusFacts ==
  ASSUME NEW w \in Workers, NEW online \in BOOLEAN
  PROVE  /\ Status(w, online) \in Backend
         /\ Route(Status(w, online)) = RouteOf(w)
         /\ RouteOf(w) \in Routes
         /\ Status(w, online).online = online
BY DEF Status, Backend, Routes, Route, RouteOf

\* Ages grow to the horizon and keep their order.
LEMMA OlderFacts ==
  ASSUME NEW cap \in Nat, NEW a \in 0..cap, NEW b \in 0..cap, a <= b
  PROVE  Older(a, cap) \in 0..cap /\ Older(a, cap) <= Older(b, cap)
BY DEF Older

LEMMA InitIInv == Init => IInv
<1>. SUFFICES ASSUME Init PROVE IInv
  BY Zenon
<1>1. TypeOK
  BY PropagationAssumption
  DEF Init, TypeOK, EmptyRegistry, Horizon
<1>. QED  BY <1>1
  DEF IInv, Init, RefreshedSinceSent, LastInQueueIsLastSent, NewestStatusWins,
      EmptyRegistry

\* Steps that change neither the queue, the registry nor the history keep
\* what relates them.
LEMMA FrameIInv ==
  ASSUME IInv, TypeOK', UNCHANGED <<statuses, entries, silence, lastSent>>
  PROVE  IInv'
BY Zenon DEF IInv, RefreshedSinceSent, LastInQueueIsLastSent, NewestStatusWins, Waiting

\* A worker starting, ending, claiming a slot and failing to publish.
LEMMA WorkerQuietIInv ==
  ASSUME IInv, NEW w \in Workers,
         WorkerStarts(w) \/ WorkerEnds(w) \/ claim(w) \/ PublishFails(w)
  PROVE  IInv'
<1>. USE DEF IInv
<1>1. UNCHANGED <<statuses, selectorVars, silence, lastSent>>
  BY Zenon DEF WorkerStarts, WorkerEnds, claim, PublishFails
<1>2. pc' \in [Workers -> {"down", "loop", "read"}]
  BY Zenon DEF TypeOK, WorkerStarts, WorkerEnds, claim, PublishFails, Goto
<1>3. slot' \in [Workers -> 0..PublishInterval]
  BY PropagationAssumption
  DEF TypeOK, WorkerStarts, WorkerEnds, claim, PublishFails
<1>4. TypeOK'
  BY <1>1, <1>2, <1>3, Zenon DEF TypeOK, selectorVars
<1>. QED  BY <1>1, <1>4, FrameIInv, Zenon DEF selectorVars

\* A status is sent: its route has one waiting, and its last word is the new
\* one; what was known of the other routes stands.
LEMMA PublishIInv ==
  ASSUME IInv, NEW w \in Workers, NEW online \in BOOLEAN, publish(w, online)
  PROVE  IInv'
<1>. DEFINE s == Status(w, online)
            n == Len(statuses)
<1>. USE DEF IInv
<1>1. s \in Backend /\ Route(s) = RouteOf(w) /\ RouteOf(w) \in Routes /\ s.online = online
  BY StatusFacts, Zenon
<1>2. /\ statuses' = Append(statuses, s) /\ n < MaxStatuses
      /\ silence' = [silence EXCEPT ![RouteOf(w)] = 0]
      /\ lastSent' = [lastSent EXCEPT ![RouteOf(w)] = online]
      /\ UNCHANGED <<slot, spc, entries>>
      /\ pc' = [pc EXCEPT ![w] = "loop"]
  BY Zenon DEF publish, selectorVars, Goto
<1>. HIDE DEF s
<1>3. statuses \in Seq(Backend) /\ n \in Nat
  BY DEF TypeOK
<1>4. /\ statuses' \in Seq(Backend) /\ Len(statuses') = n + 1
      /\ statuses'[n + 1] = s
      /\ \A i \in 1..n : statuses'[i] = statuses[i]
  BY <1>1, <1>2, <1>3
<1>5. TypeOK'
  <2>1. Len(statuses') <= MaxStatuses
    BY <1>2, <1>3, <1>4, PropagationAssumption
  <2>2. 0 \in 0..Horizon
    BY PropagationAssumption DEF Horizon
  <2>3. silence' \in [Routes -> 0..Horizon] /\ lastSent' \in [Routes -> BOOLEAN]
    BY <1>2, <2>2, Zenon DEF TypeOK
  <2>. QED  BY <1>2, <1>4, <2>1, <2>2, <2>3, Zenon DEF TypeOK
<1>6. Waiting(RouteOf(w))'
  BY <1>1, <1>3, <1>4 DEF Waiting
<1>7. \A r \in Routes : Waiting(r) => Waiting(r)'
  BY <1>3, <1>4 DEF Waiting
<1>8. \A r \in Routes : ~Waiting(r)'
        => /\ r # RouteOf(w) /\ ~Waiting(r)
           /\ silence'[r] = silence[r] /\ lastSent'[r] = lastSent[r]
  BY <1>2, <1>6, <1>7, Zenon DEF TypeOK
<1>9. \A m \in DOMAIN entries : Route(entries[m].backend) \in Routes
  BY BackendFacts, Zenon DEF TypeOK
<1>10. RefreshedSinceSent'
  BY <1>2, <1>8, <1>9, Zenon DEF RefreshedSinceSent
<1>11. NewestStatusWins'
  BY <1>2, <1>8, <1>9, Zenon DEF NewestStatusWins
<1>12. LastInQueueIsLastSent'
  <2>. SUFFICES ASSUME NEW i \in 1..n+1,
                       \A j \in i+1..n+1 : Route(statuses'[j]) # Route(statuses'[i])
                PROVE  statuses'[i].online = lastSent'[Route(statuses'[i])]
    BY <1>4, Zenon DEF LastInQueueIsLastSent
  <2>1. CASE i = n + 1
    BY <2>1, <1>1, <1>2, <1>4 DEF TypeOK
  <2>2. CASE i \in 1..n
    <3>1. Route(statuses[i]) # RouteOf(w)
      BY <2>2, <1>1, <1>3, <1>4
    <3>2. statuses[i] \in Backend
      BY <2>2, <1>3
    <3>3. Route(statuses[i]) \in Routes
      BY <3>2, BackendFacts, Zenon
    <3>4. \A j \in i+1..n : Route(statuses[j]) # Route(statuses[i])
      BY <2>2, <1>3, <1>4
    <3>5. statuses[i].online = lastSent[Route(statuses[i])]
      BY <2>2, <3>4, Zenon DEF LastInQueueIsLastSent
    <3>. QED  BY <2>2, <3>1, <3>3, <3>5, <1>2, <1>4, Zenon DEF TypeOK
  <2>. QED  BY <2>1, <2>2, <1>3
<1>. QED  BY <1>5, <1>10, <1>11, <1>12, Zenon

\* A selector starting, ending and ending its drain.
LEMMA SelectorQuietIInv ==
  ASSUME IInv, SelectorStarts \/ SelectorEnds \/ SelectorDrainEnds
  PROVE  IInv'
<1>. USE DEF IInv
<1>1. CASE SelectorDrainEnds
  <2>1. UNCHANGED <<pc, slot, statuses, entries, silence, lastSent>> /\ spc' = "expire"
    BY <1>1, Zenon DEF SelectorDrainEnds, workerVars
  <2>2. TypeOK'
    BY <2>1, Zenon DEF TypeOK
  <2>. QED  BY <2>1, <2>2, FrameIInv, Zenon
<1>2. CASE SelectorStarts \/ SelectorEnds
  <2>1. /\ UNCHANGED <<pc, slot, statuses, silence, lastSent>>
        /\ spc' \in {"down", "drain"} /\ entries' = EmptyRegistry
    BY <1>2, Zenon DEF SelectorStarts, SelectorEnds, workerVars
  <2>2. TypeOK'
    BY <2>1, Zenon DEF TypeOK, EmptyRegistry
  <2>. QED  BY <2>1, <2>2, Zenon
    DEF RefreshedSinceSent, NewestStatusWins, LastInQueueIsLastSent, EmptyRegistry
<1>. QED  BY <1>1, <1>2, Zenon

\* expire() keeps entries as they are, or drops them.
LEMMA ExpireIInv ==
  ASSUME IInv, SelectorExpire
  PROVE  IInv'
<1>. USE DEF IInv
<1>1. /\ UNCHANGED <<pc, slot, statuses, silence, lastSent>> /\ spc' = "drain"
      /\ entries' = expire(entries, 0, TimeToLive)
  BY Zenon DEF SelectorExpire, workerVars
<1>2. DOMAIN entries' \subseteq DOMAIN entries
  BY <1>1, Zenon DEF expire
<1>3. \A n \in DOMAIN entries' : entries'[n] = entries[n]
  BY <1>1, Zenon DEF expire
<1>4. TypeOK'
  <2>1. entries' \in [DOMAIN entries' ->
                        [backend : Backend, lastRefreshed : -Horizon..0]]
    BY <1>1, <1>2, Zenon DEF TypeOK, expire
  <2>. QED  BY <1>1, <1>2, <1>3, <2>1, Zenon DEF TypeOK
<1>5. RefreshedSinceSent' /\ NewestStatusWins' /\ LastInQueueIsLastSent'
  BY <1>1, <1>2, <1>3
  DEF RefreshedSinceSent, NewestStatusWins, LastInQueueIsLastSent, Waiting
<1>. QED  BY <1>4, <1>5, Zenon

\* Time ages the entry and the silence alike.
LEMMA TickIInv ==
  ASSUME IInv, Tick
  PROVE  IInv'
<1>. USE DEF IInv
<1>1. Horizon \in Nat /\ PublishInterval \in Nat
  BY PropagationAssumption DEF Horizon
<1>2. /\ UNCHANGED <<pc, statuses, spc, lastSent>>
      /\ slot' = [w \in Workers |-> Older(slot[w], PublishInterval)]
      /\ silence' = [r \in Routes |-> Older(silence[r], Horizon)]
      /\ DOMAIN entries' = DOMAIN entries
  BY Zenon DEF Tick
<1>3. \A n \in DOMAIN entries :
        /\ entries[n].backend \in Backend /\ entries[n].lastRefreshed \in -Horizon..0
        /\ entries'[n] = [backend |-> entries[n].backend,
                          lastRefreshed |-> -Older(-entries[n].lastRefreshed, Horizon)]
  BY DEF Tick, TypeOK
<1>4. \A n \in DOMAIN entries :
        /\ -entries[n].lastRefreshed \in 0..Horizon
        /\ Older(-entries[n].lastRefreshed, Horizon) \in 0..Horizon
  <2>. SUFFICES ASSUME NEW n \in DOMAIN entries, NEW a, a = -entries[n].lastRefreshed
                PROVE  a \in 0..Horizon /\ Older(a, Horizon) \in 0..Horizon
    BY Zenon
  <2>1. a \in 0..Horizon
    <3>1. entries[n].lastRefreshed \in -Horizon..0
      BY <1>3, Zenon
    <3>. QED  BY <3>1, <1>1
  <2>. QED  BY <2>1, <1>1, OlderFacts
<1>5. \A n \in DOMAIN entries :
        /\ entries'[n] \in [backend : Backend, lastRefreshed : -Horizon..0]
        /\ entries'[n].backend = entries[n].backend
        /\ -entries'[n].lastRefreshed = Older(-entries[n].lastRefreshed, Horizon)
  <2>. SUFFICES ASSUME NEW n \in DOMAIN entries,
                       NEW a, a = Older(-entries[n].lastRefreshed, Horizon)
                PROVE  /\ entries'[n] \in [backend : Backend, lastRefreshed : -Horizon..0]
                       /\ entries'[n].backend = entries[n].backend
                       /\ -entries'[n].lastRefreshed = a
    BY Zenon
  <2>1. a \in 0..Horizon
    BY <1>4, Zenon
  <2>2. -a \in -Horizon..0 /\ -(-a) = a
    BY <2>1, <1>1
  <2>3. entries[n].backend \in Backend
    BY <1>3, Zenon
  <2>4. entries'[n] = [backend |-> entries[n].backend, lastRefreshed |-> -a]
    BY <1>3, Zenon
  <2>. QED  BY <2>2, <2>3, <2>4
<1>6. \A r \in Routes : silence[r] \in 0..Horizon /\ silence'[r] = Older(silence[r], Horizon)
  BY <1>2, Zenon DEF TypeOK
<1>7. TypeOK'
  <2>1. slot' \in [Workers -> 0..PublishInterval]
    BY <1>1, <1>2, OlderFacts DEF TypeOK
  <2>2. silence' \in [Routes -> 0..Horizon]
    BY <1>1, <1>2, <1>6, OlderFacts DEF TypeOK
  <2>3. entries' \in [DOMAIN entries' ->
                        [backend : Backend, lastRefreshed : -Horizon..0]]
    BY <1>2, <1>5, Zenon DEF Tick
  <2>. QED  BY <1>2, <1>5, <2>1, <2>2, <2>3, Zenon DEF TypeOK
<1>8. RefreshedSinceSent'
  <2>. SUFFICES ASSUME NEW n \in DOMAIN entries, ~Waiting(Route(entries[n].backend))
                PROVE  -entries'[n].lastRefreshed <= silence'[Route(entries[n].backend)]
    BY <1>2, <1>5, Zenon DEF RefreshedSinceSent, Waiting
  <2>1. Route(entries[n].backend) \in Routes
    BY <1>3, BackendFacts, Zenon
  <2>2. -entries[n].lastRefreshed <= silence[Route(entries[n].backend)]
    BY Zenon DEF RefreshedSinceSent
  <2>. QED  BY <2>1, <2>2, <1>1, <1>4, <1>5, <1>6, OlderFacts, Zenon
<1>9. NewestStatusWins' /\ LastInQueueIsLastSent'
  BY <1>2, <1>5, Zenon DEF NewestStatusWins, LastInQueueIsLastSent, Waiting
<1>. QED  BY <1>7, <1>8, <1>9, Zenon

\* What insertOrRefresh() makes of the registry: the status's own entry, made
\* anew, and entries of other routes, kept.  A conflicting status is of
\* another route than the entry that keeps it out.
LEMMA InsertFacts ==
  ASSUME TypeOK, NEW h \in Backend,
         NEW after, after = insertOrRefresh(entries, h, 0)
  PROVE  /\ DOMAIN after \subseteq Names /\ DOMAIN entries \subseteq DOMAIN after
         /\ after \in [DOMAIN after -> [backend : Backend, lastRefreshed : -Horizon..0]]
         /\ \A n \in DOMAIN after :
              /\ after[n].backend.name = n
              /\ \/ /\ n \in DOMAIN entries /\ after[n] = entries[n]
                    /\ Route(entries[n].backend) # Route(h)
                 \/ after[n] = [backend |-> h, lastRefreshed |-> 0]
         /\ \A n \in DOMAIN entries :
              after[n].backend.queueName = entries[n].backend.queueName
<1>. DEFINE new == [backend |-> h, lastRefreshed |-> 0]
<1>1. new \in [backend : Backend, lastRefreshed : -Horizon..0]
  BY PropagationAssumption DEF Horizon
<1>2. h.name \in Names /\ h.queueName # NoQueue
  BY BackendFacts, Zenon
<1>3. \A n \in DOMAIN entries :
        /\ entries[n] \in [backend : Backend, lastRefreshed : -Horizon..0]
        /\ entries[n].backend \in Backend /\ entries[n].backend.name = n
        /\ entries[n].backend.queueName # NoQueue
        /\ Route(entries[n].backend).name = n
        /\ Route(entries[n].backend).queueName = entries[n].backend.queueName
  BY BackendFacts, Zenon DEF TypeOK
<1>4. Route(h).name = h.name /\ Route(h).queueName = h.queueName
  BY Zenon DEF Route
<1>5. CASE conflicts(entries, h)
  <2>1. after = entries
    BY <1>5, Zenon DEF insertOrRefresh
  <2>2. h.name \in DOMAIN entries /\ entries[h.name].backend.queueName # h.queueName
    BY <1>5, Zenon DEF conflicts, contains
  <2>3. \A n \in DOMAIN entries : Route(entries[n].backend) # Route(h)
    BY <1>3, <1>4, <2>2
  <2>. QED  BY <2>1, <2>3, <1>3, Zenon DEF TypeOK
<1>6. CASE ~conflicts(entries, h)
  <2>1. after = [n \in DOMAIN entries \cup {h.name} |->
                   IF n = h.name THEN new ELSE entries[n]]
    BY <1>6, Zenon DEF insertOrRefresh
  <2>2. h.name \in DOMAIN entries => entries[h.name].backend.queueName = h.queueName
    BY <1>2, <1>3, <1>6, Zenon DEF conflicts, contains
  <2>3. after \in [DOMAIN after -> [backend : Backend, lastRefreshed : -Horizon..0]]
    BY <2>1, <1>1, <1>3
  <2>4. \A n \in DOMAIN entries : n # h.name => Route(entries[n].backend) # Route(h)
    BY <1>3, <1>4, Zenon
  <2>5. DOMAIN after = DOMAIN entries \cup {h.name}
    BY <2>1, Zenon
  <2>6. after[h.name] = new
    BY <2>1, Zenon
  <2>7. \A n \in DOMAIN after \ {h.name} : n \in DOMAIN entries /\ after[n] = entries[n]
    BY <2>1, Zenon
  <2>8. DOMAIN after \subseteq Names
    BY <2>5, <1>2, Zenon DEF TypeOK
  <2>9. \A n \in DOMAIN after : after[n].backend.name = n
    BY <2>6, <2>7, <1>3
  <2>10. \A n \in DOMAIN entries :
           after[n].backend.queueName = entries[n].backend.queueName
    BY <2>2, <2>5, <2>6, <2>7
  <2>. QED  BY <2>3, <2>4, <2>5, <2>6, <2>7, <2>8, <2>9, <2>10, Zenon
<1>. QED  BY <1>5, <1>6, Zenon

\* A status is received: the entry it renews says what it says, and if it was
\* the last of its route that is the last word sent.
LEMMA ReceiveIInv ==
  ASSUME IInv, NEW acked \in BOOLEAN, SelectorReceive(acked)
  PROVE  IInv'
<1>. DEFINE n == Len(statuses)
<1>. USE DEF IInv
<1>0. PICK h : h = Head(statuses)
  BY Zenon
<1>1. /\ statuses \in Seq(Backend) /\ statuses # <<>> /\ n \in Nat /\ n >= 1
      /\ h = statuses[1] /\ h \in Backend
  BY <1>0 DEF SelectorReceive, TypeOK
<1>2. /\ entries' = insertOrRefresh(entries, h, 0)
      /\ statuses' = IF acked THEN Tail(statuses) ELSE statuses
      /\ UNCHANGED <<pc, slot, spc, silence, lastSent>>
  BY <1>0, Zenon DEF SelectorReceive, workerVars
<1>3. /\ DOMAIN entries' \subseteq Names
      /\ entries' \in [DOMAIN entries' ->
                         [backend : Backend, lastRefreshed : -Horizon..0]]
      /\ \A m \in DOMAIN entries' :
           /\ entries'[m].backend.name = m
           /\ \/ /\ m \in DOMAIN entries /\ entries'[m] = entries[m]
                 /\ Route(entries[m].backend) # Route(h)
              \/ entries'[m] = [backend |-> h, lastRefreshed |-> 0]
  BY <1>1, <1>2, InsertFacts
<1>4. CASE ~acked
  <2>1. statuses' = statuses
    BY <1>2, <1>4, Zenon
  <2>2. Waiting(Route(h))
    BY <1>1 DEF Waiting
  <2>3. TypeOK'
    BY <1>2, <1>3, <2>1, Zenon DEF TypeOK
  <2>4. \A m \in DOMAIN entries' :
          \/ m \in DOMAIN entries /\ entries'[m] = entries[m]
          \/ Waiting(Route(entries'[m].backend))
    BY <1>3, <2>2
  <2>5. \A r : Waiting(r)' <=> Waiting(r)
    BY <2>1, Zenon DEF Waiting
  <2>6. RefreshedSinceSent'
    BY <1>2, <2>4, <2>5, Zenon DEF RefreshedSinceSent
  <2>7. NewestStatusWins'
    BY <1>2, <2>4, <2>5, Zenon DEF NewestStatusWins
  <2>8. LastInQueueIsLastSent'
    BY <1>2, <2>1, Zenon DEF LastInQueueIsLastSent
  <2>. QED  BY <2>3, <2>6, <2>7, <2>8, Zenon
<1>5. CASE acked
  <2>1. /\ statuses' = Tail(statuses) /\ statuses' \in Seq(Backend)
        /\ Len(statuses') = n - 1
        /\ \A i \in 1..n-1 : statuses'[i] = statuses[i + 1]
    BY <1>1, <1>2, <1>5
  <2>2. TypeOK'
    BY <1>1, <1>2, <1>3, <2>1, PropagationAssumption DEF TypeOK
  <2>3. ASSUME NEW r, Waiting(r), r # Route(h) PROVE Waiting(r)'
    <3>1. PICK i \in 1..n : Route(statuses[i]) = r
      BY <2>3, <1>1 DEF Waiting
    <3>2. i # 1 /\ i - 1 \in 1..n-1
      BY <3>1, <2>3, <1>1
    <3>3. statuses'[i - 1] = statuses[i] /\ i - 1 \in DOMAIN statuses'
      BY <3>2, <2>1, <1>1
    <3>. QED  BY <3>1, <3>3, Zenon DEF Waiting
  <2>4. ~Waiting(Route(h))' => h.online = lastSent[Route(h)]
    <3>. SUFFICES ASSUME ~Waiting(Route(h))' PROVE h.online = lastSent[Route(h)]
      BY Zenon
    <3>1. \A j \in 2..n : Route(statuses[j]) # Route(h)
      <4>. SUFFICES ASSUME NEW j \in 2..n PROVE Route(statuses[j]) # Route(h)
        BY Zenon
      <4>1. j - 1 \in 1..n-1 /\ j - 1 \in DOMAIN statuses'
        BY <1>1, <2>1
      <4>2. statuses'[j - 1] = statuses[j]
        BY <4>1, <2>1, <1>1
      <4>. QED  BY <4>1, <4>2, Zenon DEF Waiting
    <3>. QED  BY <3>1, <1>1 DEF LastInQueueIsLastSent
  <2>5. Route(h) \in Routes /\ silence[Route(h)] >= 0
    BY <1>1, BackendFacts, PropagationAssumption DEF TypeOK, Horizon
  <2>6. RefreshedSinceSent'
    BY <1>2, <1>3, <2>3, <2>5 DEF RefreshedSinceSent
  <2>7. NewestStatusWins'
    BY <1>2, <1>3, <2>3, <2>4 DEF NewestStatusWins
  <2>8. LastInQueueIsLastSent'
    <3>. SUFFICES ASSUME NEW i \in 1..n-1,
                         \A j \in i+1..n-1 : Route(statuses'[j]) # Route(statuses'[i])
                  PROVE  statuses'[i].online = lastSent[Route(statuses'[i])]
      BY <1>2, <2>1, Zenon DEF LastInQueueIsLastSent
    <3>1. \A j \in i+2..n : Route(statuses[j]) # Route(statuses[i + 1])
      <4>. SUFFICES ASSUME NEW j \in i+2..n
                    PROVE  Route(statuses[j]) # Route(statuses[i + 1])
        BY Zenon
      <4>1. j - 1 \in i+1..n-1 /\ j - 1 \in 1..n-1
        BY <1>1
      <4>2. statuses'[j - 1] = statuses[j] /\ statuses'[i] = statuses[i + 1]
        BY <4>1, <2>1, <1>1
      <4>. QED  BY <4>1, <4>2, Zenon
    <3>2. i + 1 \in 1..n /\ (i + 1) + 1 = i + 2
      BY <1>1
    <3>3. statuses[i + 1].online = lastSent[Route(statuses[i + 1])]
      BY <3>1, <3>2, Zenon DEF LastInQueueIsLastSent
    <3>. QED  BY <3>3, <2>1, Zenon
  <2>. QED  BY <2>2, <2>6, <2>7, <2>8, Zenon
<1>. QED  BY <1>4, <1>5, Zenon

LEMMA NextIInv == IInv /\ [Next]_vars => IInv'
<1>. SUFFICES ASSUME IInv, [Next]_vars PROVE IInv'
  BY Zenon
<1>1. CASE UNCHANGED vars
  <2>1. TypeOK'
    BY <1>1, Zenon DEF vars, TypeOK, IInv
  <2>. QED  BY <1>1, <2>1, FrameIInv, Zenon DEF vars
<1>2. ASSUME NEW w \in Workers, Worker(w) \/ WorkerStarts(w) \/ WorkerEnds(w)
      PROVE  IInv'
  BY <1>2, WorkerQuietIInv, PublishIInv, Zenon DEF Worker
<1>3. CASE Selector \/ SelectorStarts \/ SelectorEnds
  BY <1>3, SelectorQuietIInv, ReceiveIInv, ExpireIInv, Zenon DEF Selector
<1>4. CASE Tick
  BY <1>4, TickIInv, Zenon
<1>. QED  BY <1>1, <1>2, <1>3, <1>4, Zenon DEF Next

\* The invariant holds of the whole system.
THEOREM Inductive == Spec => []IInv
BY InitIInv, NextIInv, PTL DEF Spec

\* Every variable keeps its type: every status names a queue, and ages and
\* the status queue stay within their bounds.
THEOREM TypeCorrect == Spec => []TypeOK
<1>1. IInv => TypeOK
  BY Zenon DEF IInv
<1>. QED  BY <1>1, Inductive, PTL

\* insertOrRefresh(), expire() and best-effort delivery in order together
\* keep the selector's view current, for any number of workers and names.
THEOREM RegistryIsCurrent == Spec => []NewestStatusWins
<1>1. IInv => NewestStatusWins
  BY Zenon DEF IInv
<1>. QED  BY <1>1, Inductive, PTL

\* No step of any process moves a registered name to another queue.
THEOREM QueuesAreStable == Spec => QueueNeverReassigned
<1>. DEFINE Stable ==
       \A n \in DOMAIN entries \cap DOMAIN entries' :
         entries'[n].backend.queueName = entries[n].backend.queueName
<1>1. IInv /\ [Next]_vars => [Stable]_vars
  <2>. SUFFICES ASSUME IInv, Next PROVE Stable
    BY Zenon
  <2>. USE DEF IInv
  <2>1. CASE UNCHANGED entries
    BY <2>1, Zenon
  <2>2. CASE entries' = EmptyRegistry
    BY <2>2, Zenon DEF EmptyRegistry
  <2>3. ASSUME NEW acked \in BOOLEAN, SelectorReceive(acked) PROVE Stable
    <3>1. Head(statuses) \in Backend /\ entries' = insertOrRefresh(entries, Head(statuses), 0)
      BY <2>3 DEF SelectorReceive, TypeOK
    <3>. QED  BY <3>1, InsertFacts
  <2>4. CASE SelectorExpire
    BY <2>4, Zenon DEF SelectorExpire, expire
  <2>5. CASE Tick
    BY <2>5, ZenonT(40) DEF Tick, TypeOK
  <2>. QED  BY <2>1, <2>2, <2>3, <2>4, <2>5, Zenon
    DEF Next, Worker, WorkerStarts, WorkerEnds, claim, PublishFails, publish,
        Selector, SelectorStarts, SelectorEnds, SelectorDrainEnds, selectorVars
<1>. QED  BY <1>1, Inductive, PTL DEF Spec, QueueNeverReassigned

\* A selector that does not run knows nothing.
DownKnowsNothing == ~SelectorUp => DOMAIN entries = {}

LEMMA DownInductive == Spec => []DownKnowsNothing
<1>1. Init => DownKnowsNothing
  BY Zenon DEF Init, DownKnowsNothing, EmptyRegistry
<1>2. DownKnowsNothing /\ [Next]_vars => DownKnowsNothing'
  <2>. SUFFICES ASSUME DownKnowsNothing, [Next]_vars PROVE DownKnowsNothing'
    BY Zenon
  <2>1. CASE DOMAIN entries' = DOMAIN entries /\ spc' = spc
    BY <2>1, Zenon DEF DownKnowsNothing, SelectorUp
  <2>2. CASE entries' = EmptyRegistry
    BY <2>2, Zenon DEF DownKnowsNothing, EmptyRegistry
  <2>3. CASE Selector
    BY <2>3, Zenon DEF DownKnowsNothing, SelectorUp, Selector, SelectorReceive,
                SelectorDrainEnds, SelectorExpire
  <2>. QED  BY <2>1, <2>2, <2>3, Zenon
    DEF Next, vars, Worker, WorkerStarts, WorkerEnds, claim, PublishFails, publish,
        SelectorStarts, SelectorEnds, Tick, selectorVars
<1>. QED  BY <1>1, <1>2, PTL DEF Spec

\* A backend is dropped only after a silence longer than the time to live, or
\* with a status of it still unread: for any publish interval, which the
\* selector's time to live is nowhere compared with.
THEOREM DroppedAfterSilence == Spec => DroppedOnlyAfterSilence
<1>. DEFINE Dropped ==
       \A n \in DOMAIN entries \ DOMAIN entries' :
         LET r == Route(entries[n].backend)
         IN  SelectorUp' => silence[r] > TimeToLive \/ Waiting(r)
<1>1. IInv /\ DownKnowsNothing /\ [Next]_vars => [Dropped]_vars
  <2>. SUFFICES ASSUME IInv, DownKnowsNothing, Next PROVE Dropped
    BY Zenon
  <2>. USE DEF IInv
  <2>1. CASE DOMAIN entries \subseteq DOMAIN entries'
    BY <2>1, Zenon
  <2>2. CASE SelectorStarts \/ SelectorEnds
    BY <2>2, Zenon DEF SelectorStarts, SelectorEnds, SelectorUp, DownKnowsNothing
  <2>3. ASSUME NEW acked \in BOOLEAN, SelectorReceive(acked) PROVE Dropped
    <3>1. Head(statuses) \in Backend /\ entries' = insertOrRefresh(entries, Head(statuses), 0)
      BY <2>3 DEF SelectorReceive, TypeOK
    <3>. QED  BY <3>1, InsertFacts, <2>1, Zenon
  <2>4. CASE SelectorExpire
    <3>. SUFFICES ASSUME NEW n \in DOMAIN entries \ DOMAIN entries',
                         ~Waiting(Route(entries[n].backend))
                  PROVE  silence[Route(entries[n].backend)] > TimeToLive
      BY Zenon
    <3>1. 0 - entries[n].lastRefreshed > TimeToLive
      BY <2>4, Zenon DEF SelectorExpire, expire
    <3>2. -entries[n].lastRefreshed <= silence[Route(entries[n].backend)]
      BY Zenon DEF RefreshedSinceSent
    <3>3. Route(entries[n].backend) \in Routes
      BY BackendFacts, Zenon DEF TypeOK
    <3>4. silence[Route(entries[n].backend)] \in Int /\ entries[n].lastRefreshed \in Int
      BY <3>3, PropagationAssumption DEF TypeOK, Horizon
    <3>. QED  BY <3>1, <3>2, <3>4, PropagationAssumption
  <2>5. CASE Tick
    BY <2>5, <2>1, Zenon DEF Tick
  <2>. QED  BY <2>1, <2>2, <2>3, <2>4, <2>5, Zenon
    DEF Next, Worker, WorkerStarts, WorkerEnds, claim, PublishFails, publish,
        Selector, SelectorDrainEnds, selectorVars
<1>. QED  BY <1>1, Inductive, DownInductive, PTL DEF Spec, DroppedOnlyAfterSilence

(***************************************************************************)
(* Configuration: the walk over schema and fields.                         *)
(***************************************************************************)

\* The two tables, and what tells their entries apart.
LEMMA FieldCount == Len(Fields) = 28 /\ DOMAIN Fields = 1..28
BY DEF Fields

LEMMA TableCount == Len(Tables) = 8 /\ DOMAIN Tables = 1..8
BY DEF Tables

\* The fields read as integers.
Numeric(f) == f.kind \in {"port", "positive", "nonNegative"}

LEMMA FieldKinds ==
  ASSUME NEW i \in 1..28
  PROVE  /\ Fields[i].kind \in {"string", "required", "port", "policy", "positive", "nonNegative"}
         /\ Fields[i].kind = "required" <=> Fields[i].key \in NeverEmpty
         /\ Fields[i].kind = "positive" <=> Fields[i].key \in AboveZero
         /\ Fields[i].kind = "nonNegative"
              <=> Fields[i].key \in {"compiler.taskReceiveTimeout", "submitter.jobWaitTimeout"}
         /\ Fields[i].kind = "port" <=> Fields[i].key = "common.connection.port"
         /\ Fields[i].kind = "policy" <=> Fields[i].key = "selector.selectionPolicy"
         /\ Fields[i].overridable /\ Numeric(Fields[i]) => Fields[i].kind = "port"
BY DEF Fields, Field, Numeric, NeverEmpty, AboveZero

\* No two fields have one key, so that none overwrites another.
LEMMA KeysDiffer ==
  ASSUME NEW i \in 1..28, NEW j \in 1..28, Fields[i].key = Fields[j].key
  PROVE  i = j
BY DEF Fields, Field

\* Every field has a default of its type.
LEMMA DefaultTyped ==
  ASSUME NEW i \in 1..28
  PROVE  /\ Default(Fields[i]) \in Int \cup {"default", "lowest-name"}
         /\ Numeric(Fields[i]) => Default(Fields[i]) \in Int
<1>. DEFINE numbers ==
       {"common.connection.port", "common.stagePollInterval",
        "selector.backendRegistry.entryTimeToLive",
        "submitter.backendRegistry.entryTimeToLive",
        "submitter.backendStatusPublishInterval",
        "compiler.taskReceiveTimeout", "submitter.jobWaitTimeout"}
<1>1. Numeric(Fields[i]) => Fields[i].key \in numbers
  BY DEF Fields, Field, Numeric
<1>2. Fields[i].key \in numbers => Default(Fields[i]) \in Int
  BY ConfigurationAssumption DEF Default
<1>3. Fields[i].key \notin numbers => Default(Fields[i]) \in {"default", "lowest-name"}
  BY DEF Default
<1>. HIDE DEF numbers
<1>. QED  BY <1>1, <1>2, <1>3, Zenon

\* What a field may be given.
LEMMA SetupTyped ==
  ASSUME setup \in Setups, NEW i \in 1..28
  PROVE  /\ Numeric(Fields[i])
              => setup.file[Fields[i].key] \in Int \cup {Absent, Malformed}
         /\ Fields[i].kind = "port"
              => setup.env[Fields[i].key] \in Int \cup {Absent, Malformed}
         /\ Fields[i].kind # "port" => setup.env[Fields[i].key] # Malformed
BY FieldCount, SetupAssumption, ZenonT(30) DEF Numeric

\* The strongest layer is the one resolved() finds.
LEMMA ResolvedIsStrongest ==
  ASSUME setup \in Setups, NEW i \in 1..28
  PROVE  /\ resolved(Fields[i]) = Strongest(Fields[i])
         /\ Numeric(Fields[i]) => resolved(Fields[i]) \in Int \cup {Malformed}
         /\ resolved(Fields[i]) = Malformed
              => setup.file[Fields[i].key] = Malformed \/ Fields[i].kind = "port"
<1>. DEFINE f == Fields[i]
            env == IF f.overridable THEN setup.env[f.key] ELSE Absent
            file == setup.file[f.key]
            present == {n \in 1..3 : Layers(f)[n] # Absent}
<1>1. /\ Default(f) # Absent /\ Default(f) # Malformed
      /\ Numeric(f) => Default(f) \in Int
  BY DefaultTyped, SetupAssumption, Zenon
<1>2. /\ Numeric(f) => file \in Int \cup {Absent, Malformed}
      /\ Numeric(f) => env \in Int \cup {Absent, Malformed}
      /\ env = Malformed => f.kind = "port"
  <2>1. f.overridable /\ Numeric(f) => f.kind = "port"
    BY FieldKinds, Zenon
  <2>2. /\ Numeric(f) => setup.file[f.key] \in Int \cup {Absent, Malformed}
        /\ f.kind = "port" => setup.env[f.key] \in Int \cup {Absent, Malformed}
        /\ f.kind # "port" => setup.env[f.key] # Malformed
    BY SetupTyped, Zenon
  <2>. HIDE DEF f
  <2>. QED  BY <2>1, <2>2, SetupAssumption, Zenon
<1>3. resolved(f) = IF env # Absent THEN env ELSE IF file # Absent THEN file ELSE Default(f)
  BY Zenon DEF resolved, tomlValueOr
<1>4. Layers(f)[1] = env /\ Layers(f)[2] = file /\ Layers(f)[3] = Default(f)
  BY Zenon DEF Layers
<1>5. Strongest(f) = Layers(f)[CHOOSE n \in present : \A m \in present : n <= m]
  BY Zenon DEF Strongest
<1>. HIDE DEF f, env, file
<1>6. Strongest(f) = IF env # Absent THEN env ELSE IF file # Absent THEN file ELSE Default(f)
  <2>1. \A k \in present : (\A m \in present : k <= m)
          => (CHOOSE n \in present : \A m \in present : n <= m) = k
    OBVIOUS
  <2>2. CASE env # Absent
    <3>1. 1 \in present /\ \A m \in present : 1 <= m
      BY <1>4, <2>2
    <3>. HIDE DEF present
    <3>. QED  BY <1>4, <1>5, <2>1, <2>2, <3>1, Zenon
  <2>3. CASE env = Absent /\ file # Absent
    <3>1. 2 \in present /\ \A m \in present : 2 <= m
      BY <1>4, <2>3
    <3>. HIDE DEF present
    <3>. QED  BY <1>4, <1>5, <2>1, <2>3, <3>1, Zenon
  <2>4. CASE env = Absent /\ file = Absent
    <3>1. 3 \in present /\ \A m \in present : 3 <= m
      BY <1>1, <1>4, <2>4
    <3>. HIDE DEF present
    <3>. QED  BY <1>4, <1>5, <2>1, <2>4, <3>1, Zenon
  <2>. QED  BY <2>2, <2>3, <2>4, Zenon
<1>7. /\ Numeric(f) => resolved(f) \in Int \cup {Malformed}
      /\ resolved(f) = Malformed => file = Malformed \/ f.kind = "port"
  BY <1>1, <1>2, <1>3
<1>. QED  BY <1>3, <1>6, <1>7, Zenon DEF f, file

\* What each kind of field may be.
LEMMA PortBound == MaxPort \in Nat
BY DEF MaxPort

LEMMA Ranges ==
  ASSUME NEW f, NEW v
  PROVE  /\ f.kind = "string" => inRange(f, v)
         /\ f.kind = "required" => (inRange(f, v) <=> v # "")
         /\ f.kind = "port" /\ v \in Int => (inRange(f, v) <=> ~(v < 1 \/ v > MaxPort))
         /\ f.kind = "policy"
              => (inRange(f, v) <=> ~(v # "lowest-name" /\ v # "smallest-sufficient"))
         /\ f.kind = "positive" /\ v \in Int => (inRange(f, v) <=> ~(v <= 0))
         /\ f.kind = "nonNegative" /\ v \in Int => (inRange(f, v) <=> ~(v < 0))
<1>1. f.kind = "string" => inRange(f, v)
  BY Zenon DEF inRange
<1>2. f.kind = "required" => (inRange(f, v) <=> v # "")
  BY Zenon DEF inRange
<1>3. f.kind = "port" /\ v \in Int => (inRange(f, v) <=> ~(v < 1 \/ v > MaxPort))
  BY PortBound DEF inRange
<1>4. f.kind = "policy"
        => (inRange(f, v) <=> ~(v # "lowest-name" /\ v # "smallest-sufficient"))
  BY Zenon DEF inRange
<1>5. f.kind = "positive" /\ v \in Int => (inRange(f, v) <=> ~(v <= 0))
  BY DEF inRange
<1>6. f.kind = "nonNegative" /\ v \in Int => (inRange(f, v) <=> ~(v < 0))
  BY DEF inRange
<1>. QED  BY <1>1, <1>2, <1>3, <1>4, <1>5, <1>6, Zenon

\* Faulty() with the field's kind in place of its key.
FaultyByKind(f, value) ==
  \/ setup.file[f.key] = Malformed \/ value = Malformed
  \/ f.kind = "required" /\ value = ""
  \/ f.kind = "positive" /\ value <= 0
  \/ f.kind = "nonNegative" /\ value < 0
  \/ f.kind = "port" /\ (value < 1 \/ value > MaxPort)
  \/ f.kind = "policy" /\ value # "lowest-name" /\ value # "smallest-sufficient"

\* ReadField refuses exactly the values getting-started.md rules out.
LEMMA RefusedIsFaulty ==
  ASSUME setup \in Setups, NEW i \in 1..28
  PROVE  Faulty(Fields[i])
           <=> \/ setup.file[Fields[i].key] = Malformed
               \/ resolved(Fields[i]) = Malformed
               \/ ~inRange(Fields[i], resolved(Fields[i]))
<1>. DEFINE f == Fields[i]
            value == resolved(f)
<1>1. /\ f.kind \in {"string", "required", "port", "policy", "positive", "nonNegative"}
      /\ f.kind = "required" <=> f.key \in NeverEmpty
      /\ f.kind = "positive" <=> f.key \in AboveZero
      /\ f.kind = "nonNegative"
           <=> f.key \in {"compiler.taskReceiveTimeout", "submitter.jobWaitTimeout"}
      /\ f.kind = "port" <=> f.key = "common.connection.port"
      /\ f.kind = "policy" <=> f.key = "selector.selectionPolicy"
  BY FieldKinds, Zenon
<1>2. value = Strongest(f) /\ (Numeric(f) => value \in Int \cup {Malformed})
  BY ResolvedIsStrongest, Zenon
<1>3. Numeric(f) <=> f.kind \in {"port", "positive", "nonNegative"}
  BY Zenon DEF Numeric
<1>. HIDE DEF f, value
<1>4. Faulty(f) <=> FaultyByKind(f, Strongest(f))
  BY <1>1, Zenon DEF Faulty, FaultyByKind
<1>5. ASSUME value # Malformed
      PROVE  FaultyByKind(f, value)
               <=> setup.file[f.key] = Malformed \/ ~inRange(f, value)
  <2>1. Numeric(f) => value \in Int
    BY <1>2, <1>5, Zenon
  <2>2. CASE f.kind = "string"
    BY <1>5, <2>2, Ranges, Zenon DEF FaultyByKind
  <2>3. CASE f.kind = "required"
    BY <1>5, <2>3, Ranges, Zenon DEF FaultyByKind
  <2>4. CASE f.kind = "port"
    BY <1>3, <1>5, <2>1, <2>4, Ranges, Zenon DEF FaultyByKind
  <2>5. CASE f.kind = "policy"
    BY <1>5, <2>5, Ranges, Zenon DEF FaultyByKind
  <2>6. CASE f.kind = "positive"
    BY <1>3, <1>5, <2>1, <2>6, Ranges, Zenon DEF FaultyByKind
  <2>7. CASE f.kind = "nonNegative"
    BY <1>3, <1>5, <2>1, <2>7, Ranges, Zenon DEF FaultyByKind
  <2>. QED  BY <1>1, <2>2, <2>3, <2>4, <2>5, <2>6, <2>7, Zenon
<1>6. value = Malformed => FaultyByKind(f, value)
  BY Zenon DEF FaultyByKind
<1>7. Faulty(f) <=> FaultyByKind(f, value)
  BY <1>2, <1>4, Zenon
<1>8. Faulty(f) <=> \/ setup.file[f.key] = Malformed \/ value = Malformed
                   \/ ~inRange(f, value)
  BY <1>5, <1>6, <1>7, Zenon
<1>. QED  BY <1>8, Zenon DEF f, value

\* Conversion leaves a count that fits as it is, and makes no count larger.
LEMMA Converted ==
  ASSUME NEW count \in Nat
  PROVE  /\ toInt64(count) \in Int /\ toInt64(count) <= count
         /\ count <= Int64Max => toInt64(count) = count
<1>. DEFINE span == 2 * (Int64Max + 1)
            low == count % span
<1>1. span \in Nat /\ span > Int64Max
  BY ConfigurationAssumption
<1>2. toInt64(count) = IF low <= Int64Max THEN low ELSE low - span
  BY Zenon DEF toInt64
<1>. HIDE DEF span
<1>3. low \in Nat /\ low <= count /\ (count < span => low = count)
  BY <1>1, ConfigurationAssumption
<1>. HIDE DEF low
<1>. QED  BY <1>1, <1>2, <1>3, ConfigurationAssumption

\* The first n fields are read: none was at fault, and each has its strongest
\* layer's value.
ReadUpTo(n) ==
  \A i \in 1..n :
    /\ ~Faulty(Fields[i]) /\ Fields[i].key \in DOMAIN config
    /\ config[Fields[i].key] = Strongest(Fields[i])

\* What was passed is sound: the file, the tables before this one, the fields
\* before this one.
Passed ==
  /\ phase = "parse" => index = 1
  /\ phase = "schema" =>
       /\ setup.parses /\ index \in 1..8
       /\ \A j \in 1..(index - 1) : setup.tables[Tables[j]] = "ok"
  /\ phase \in {"fields", "timing", "loaded"} => FitsSchema
  /\ phase = "fields" => index \in 1..28 /\ ReadUpTo(index - 1)
  /\ phase \in {"timing", "loaded"} => ReadUpTo(28)

ConfigInv ==
  /\ setup \in Setups /\ ConfigTypeOK /\ Passed
  /\ LoadedIsFaultless /\ FailsAtFirstFault

\* The names an error may carry, and the types with the lengths filled in.
Named == Keys \cup {Tables[i] : i \in DOMAIN Tables} \cup {"", "file", "QRMCI_AMQP_PORT"}

LEMMA NamedAre ==
  /\ "" \in Named /\ "file" \in Named /\ "QRMCI_AMQP_PORT" \in Named
  /\ \A key \in Keys : key \in Named
  /\ \A i \in 1..8 : Tables[i] \in Named
BY TableCount, Zenon DEF Named

Typed(p, n, c, e) ==
  /\ p \in {"parse", "schema", "fields", "timing", "loaded", "error"}
  /\ n \in 1..29
  /\ p = "fields" => n \in 1..28
  /\ DOMAIN c \subseteq Keys
  /\ e \in Named

LEMMA ConfigTypes ==
  /\ ConfigTypeOK <=> Typed(phase, index, config, error)
  /\ ConfigTypeOK' <=> Typed(phase', index', config', error')
<1>1. 1..(Len(Fields) + 1) = 1..29 /\ DOMAIN Fields = 1..28
  BY FieldCount
<1>. QED  BY <1>1, Zenon DEF ConfigTypeOK, Typed, Named

LEMMA InitConfigInv == ConfigInit => ConfigInv
<1>. SUFFICES ASSUME ConfigInit PROVE ConfigInv
  BY Zenon
<1>1. phase = "parse" /\ index = 1
  BY Zenon DEF ConfigInit
<1>2. ConfigTypeOK
  <2>1. /\ phase \in {"parse", "schema", "fields", "timing", "loaded", "error"}
        /\ phase # "fields" /\ index \in 1..29
    BY <1>1
  <2>2. DOMAIN config \subseteq Keys
    BY Zenon DEF ConfigInit
  <2>3. error \in Named
    BY NamedAre, Zenon DEF ConfigInit
  <2>. QED  BY <2>1, <2>2, <2>3, ConfigTypes, Zenon DEF Typed
<1>. QED  BY <1>2, Zenon DEF ConfigInit, ConfigInv, Passed, LoadedIsFaultless, FailsAtFirstFault

\* What a fault is depends on the setup alone.
LEMMA SetupStays ==
  ASSUME [ConfigNext]_configVars
  PROVE  setup' = setup
BY Zenon DEF ConfigNext, configVars, parseConfigFile, checkTableKeys, ReadField,
       CheckTimeToLive, Ended

LEMMA FaultsStay ==
  ASSUME setup' = setup
  PROVE  /\ FitsSchema' <=> FitsSchema
         /\ \A i \in 1..28 : Strongest(Fields[i])' = Strongest(Fields[i])
         /\ \A i \in 1..28 : Faulty(Fields[i])' <=> Faulty(Fields[i])
<1>1. FitsSchema' <=> FitsSchema
  BY Zenon DEF FitsSchema
<1>2. \A i \in 1..28 : Strongest(Fields[i])' = Strongest(Fields[i])
  BY DEF Strongest, Layers
<1>3. \A i \in 1..28 : Faulty(Fields[i])' <=> Faulty(Fields[i])
  BY DEF Faulty, Strongest, Layers
<1>. QED  BY <1>1, <1>2, <1>3, Zenon

LEMMA ReadingStays ==
  ASSUME setup' = setup, config' = config, NEW n \in 0..28, ReadUpTo(n)
  PROVE  ReadUpTo(n)'
<1>. SUFFICES ASSUME NEW i \in 1..n
              PROVE  (/\ ~Faulty(Fields[i]) /\ Fields[i].key \in DOMAIN config
                      /\ config[Fields[i].key] = Strongest(Fields[i]))'
  BY Zenon DEF ReadUpTo
<1>1. i \in 1..28
  OBVIOUS
<1>2. /\ ~Faulty(Fields[i]) /\ Fields[i].key \in DOMAIN config
      /\ config[Fields[i].key] = Strongest(Fields[i])
  BY Zenon DEF ReadUpTo
<1>. QED  BY <1>1, <1>2, FaultsStay, Zenon

LEMMA ParseKeeps ==
  ASSUME ConfigInv, parseConfigFile, setup' = setup
  PROVE  ConfigInv'
<1>1. ConfigTypeOK'
  BY ConfigTypes, NamedAre, Zenon DEF Typed, parseConfigFile, Reject, ConfigInv
<1>2. CASE ~setup.parses
  BY <1>1, <1>2, ZenonT(30) DEF parseConfigFile, Reject, ConfigInv, Passed,
                                LoadedIsFaultless, FailsAtFirstFault
<1>3. CASE setup.parses
  BY <1>1, <1>3 DEF parseConfigFile, ConfigInv, Passed, LoadedIsFaultless, FailsAtFirstFault
<1>. QED  BY <1>2, <1>3, Zenon

LEMMA SchemaKeeps ==
  ASSUME ConfigInv, checkTableKeys, setup' = setup
  PROVE  ConfigInv'
<1>1. /\ phase = "schema" /\ setup.parses /\ index \in 1..8
      /\ \A j \in 1..(index - 1) : setup.tables[Tables[j]] = "ok"
  BY Zenon DEF ConfigInv, Passed, checkTableKeys
<1>2. CASE setup.tables[Tables[index]] # "ok"
  <2>1. phase' = "error" /\ error' = Tables[index] /\ UNCHANGED <<index, config>>
    BY <1>1, <1>2, Zenon DEF checkTableKeys, Reject
  <2>2. ConfigTypeOK'
    BY <1>1, <2>1, ConfigTypes, NamedAre, Zenon DEF Typed, ConfigInv
  <2>3. FailsAtFirstFault'
    BY <1>1, <1>2, <2>1, TableCount, Zenon DEF FailsAtFirstFault
  <2>. QED  BY <2>1, <2>2, <2>3, Zenon DEF ConfigInv, Passed, LoadedIsFaultless
<1>3. CASE setup.tables[Tables[index]] = "ok" /\ index < 8
  <2>1. phase' = phase /\ index' = index + 1 /\ UNCHANGED <<config, error>>
    BY <1>1, <1>3, TableCount, Zenon DEF checkTableKeys
  <2>2. ConfigTypeOK'
    BY <1>1, <1>3, <2>1, ConfigTypes DEF Typed, ConfigInv
  <2>3. \A j \in 1..(index' - 1) : setup.tables[Tables[j]] = "ok"
    BY <1>1, <1>3, <2>1
  <2>4. index' \in 1..8
    BY <1>1, <1>3, <2>1
  <2>. QED  BY <1>1, <2>1, <2>2, <2>3, <2>4, Zenon
            DEF ConfigInv, Passed, LoadedIsFaultless, FailsAtFirstFault
<1>4. CASE setup.tables[Tables[index]] = "ok" /\ ~(index < 8)
  <2>1. phase' = "fields" /\ index' = 1 /\ UNCHANGED <<config, error>>
    BY <1>1, <1>4, TableCount, Zenon DEF checkTableKeys
  <2>2. ConfigTypeOK'
    BY <2>1, ConfigTypes DEF Typed, ConfigInv
  <2>3. index = 8
    BY <1>1, <1>4
  <2>4. FitsSchema'
    BY <1>1, <1>4, <2>3, TableCount DEF FitsSchema
  <2>5. ReadUpTo(index - 1)'
    BY <2>1 DEF ReadUpTo
  <2>. QED  BY <2>1, <2>2, <2>4, <2>5
            DEF ConfigInv, Passed, LoadedIsFaultless, FailsAtFirstFault
<1>. QED  BY <1>2, <1>3, <1>4, Zenon

LEMMA FieldKeeps ==
  ASSUME ConfigInv, ReadField, setup' = setup
  PROVE  ConfigInv'
<1>1. PICK n \in 1..28 : n = index
  BY Zenon DEF ConfigInv, Passed, ReadField
<1>. DEFINE f == Fields[n]
            value == resolved(f)
<1>2. phase = "fields" /\ setup \in Setups /\ FitsSchema /\ ReadUpTo(n - 1)
  BY <1>1, Zenon DEF ConfigInv, Passed, ReadField
<1>3. /\ Faulty(f) <=> \/ setup.file[f.key] = Malformed \/ value = Malformed
                       \/ ~inRange(f, value)
      /\ value = Strongest(f)
      /\ value = Malformed => setup.file[f.key] = Malformed \/ f.kind = "port"
  BY <1>2, RefusedIsFaulty, ResolvedIsStrongest, Zenon
<1>4. f.key \in Keys
  BY FieldCount, Zenon DEF Keys
<1>5. CASE Faulty(f)
  <2>1. /\ phase' = "error" /\ UNCHANGED <<index, config>>
        /\ error' = f.key \/ (error' = "QRMCI_AMQP_PORT" /\ f.kind = "port")
    <3>. HIDE DEF f, value
    <3>1. IF setup.file[f.key] = Malformed THEN Reject(f.key)
          ELSE IF value = Malformed THEN Reject("QRMCI_AMQP_PORT")
          ELSE Reject(f.key)
      BY <1>1, <1>3, <1>5, Zenon DEF ReadField, f, value
    <3>. QED  BY <1>3, <3>1, Zenon DEF Reject
  <2>2. ConfigTypeOK'
    BY <1>4, <2>1, ConfigTypes, NamedAre, Zenon DEF Typed, ConfigInv
  <2>3. FailsAtFirstFault'
    <3>1. FitsSchema' /\ Faulty(f)' /\ \A j \in 1..(n - 1) : ~Faulty(Fields[j])'
      BY <1>2, <1>5, FaultsStay DEF ReadUpTo
    <3>. QED  BY <2>1, <3>1, FieldCount, Zenon DEF FailsAtFirstFault
  <2>. QED  BY <2>1, <2>2, <2>3, Zenon DEF ConfigInv, Passed, LoadedIsFaultless
<1>6. CASE ~Faulty(f)
  <2>1. /\ config' = [key \in DOMAIN config \cup {f.key} |->
                        IF key = f.key THEN value ELSE config[key]]
        /\ index' = n + 1 /\ UNCHANGED error
        /\ phase' = IF n = 28 THEN "timing" ELSE "fields"
    <3>. HIDE DEF f, value
    <3>. QED  BY <1>1, <1>3, <1>6, FieldCount, Zenon DEF ReadField, f, value
  <2>2. ReadUpTo(n)'
    <3>. SUFFICES ASSUME NEW i \in 1..n
                  PROVE  /\ ~Faulty(Fields[i])' /\ Fields[i].key \in DOMAIN config'
                         /\ config'[Fields[i].key] = Strongest(Fields[i])'
      BY Zenon DEF ReadUpTo
    <3>1. i \in 1..28
      OBVIOUS
    <3>2. CASE i = n
      BY <1>3, <1>6, <2>1, <3>1, <3>2, FaultsStay, Zenon
    <3>3. CASE i # n
      <4>1. /\ ~Faulty(Fields[i]) /\ Fields[i].key \in DOMAIN config
            /\ config[Fields[i].key] = Strongest(Fields[i])
        BY <1>2, <3>3 DEF ReadUpTo
      <4>2. Fields[i].key # f.key
        BY <3>1, <3>3, KeysDiffer, Zenon
      <4>. QED  BY <2>1, <3>1, <4>1, <4>2, FaultsStay, Zenon
    <3>. QED  BY <3>2, <3>3, Zenon
  <2>3. ConfigTypeOK'
    BY <1>4, <2>1, ConfigTypes DEF Typed, ConfigInv
  <2>4. FitsSchema'
    BY <1>2, FaultsStay, Zenon
  <2>5. Passed'
    <3>1. CASE n = 28
      BY <2>1, <2>2, <2>4, <3>1, Zenon DEF Passed
    <3>2. CASE n # 28
      <4>1. phase' = "fields" /\ index' \in 1..28 /\ index' - 1 = n
        BY <2>1, <3>2
      <4>2. ReadUpTo(index - 1)'
        BY <2>2, <4>1, Zenon DEF ReadUpTo
      <4>. QED  BY <2>4, <4>1, <4>2, Zenon DEF Passed
    <3>. QED  BY <3>1, <3>2, Zenon
  <2>. QED  BY <2>1, <2>3, <2>5, Zenon DEF ConfigInv, LoadedIsFaultless, FailsAtFirstFault
<1>. QED  BY <1>5, <1>6, Zenon

\* The two durations are the values of the last two fields.
LEMMA Timing ==
  ASSUME setup \in Setups, ReadUpTo(28)
  PROVE  /\ timeToLive \in Int /\ timeToLive > 0
         /\ publishInterval \in Int /\ publishInterval > 0
         /\ timeToLive * MsPerSecond \in Nat
<1>1. 27 \in 1..28 /\ 28 \in 1..28
  OBVIOUS
<1>2. /\ Fields[27].key = "submitter.backendRegistry.entryTimeToLive"
      /\ Fields[28].key = "submitter.backendStatusPublishInterval"
      /\ Fields[27].kind = "positive" /\ Fields[28].kind = "positive"
  BY Zenon DEF Fields, Field
<1>3. /\ timeToLive = resolved(Fields[27]) /\ publishInterval = resolved(Fields[28])
      /\ ~Faulty(Fields[27]) /\ ~Faulty(Fields[28])
  <2>1. \A i \in {27, 28} : ~Faulty(Fields[i]) /\ config[Fields[i].key] = Strongest(Fields[i])
    BY DEF ReadUpTo
  <2>2. resolved(Fields[27]) = Strongest(Fields[27]) /\ resolved(Fields[28]) = Strongest(Fields[28])
    BY <1>1, ResolvedIsStrongest, Zenon
  <2>. QED  BY <1>2, <2>1, <2>2, Zenon DEF timeToLive, publishInterval
<1>4. timeToLive \in Int /\ publishInterval \in Int
  <2>1. Numeric(Fields[27]) /\ Numeric(Fields[28])
    BY <1>2, Zenon DEF Numeric
  <2>2. timeToLive # Malformed /\ publishInterval # Malformed
    BY <1>1, <1>3, RefusedIsFaulty, Zenon
  <2>3. timeToLive \in Int \cup {Malformed} /\ publishInterval \in Int \cup {Malformed}
    BY <1>1, <1>3, <2>1, ResolvedIsStrongest, Zenon
  <2>. QED  BY <2>2, <2>3, Zenon
<1>5. timeToLive > 0 /\ publishInterval > 0
  <2>1. inRange(Fields[27], timeToLive) /\ inRange(Fields[28], publishInterval)
    BY <1>1, <1>3, RefusedIsFaulty, Zenon
  <2>2. /\ inRange(Fields[27], timeToLive) <=> ~(timeToLive <= 0)
        /\ inRange(Fields[28], publishInterval) <=> ~(publishInterval <= 0)
    BY <1>2, <1>4, Ranges, Zenon
  <2>. QED  BY <1>4, <2>1, <2>2
<1>6. timeToLive * MsPerSecond \in Nat
  BY <1>4, <1>5, ConfigurationAssumption
<1>. QED  BY <1>4, <1>5, <1>6, Zenon

LEMMA TimingKeeps ==
  ASSUME ConfigInv, CheckTimeToLive, setup' = setup
  PROVE  ConfigInv'
<1>1. phase = "timing" /\ setup \in Setups /\ FitsSchema /\ ReadUpTo(28)
  BY Zenon DEF ConfigInv, Passed, CheckTimeToLive
<1>2. UNCHANGED <<index, config>>
  BY Zenon DEF CheckTimeToLive, Reject
<1>3. /\ FitsSchema' /\ ReadUpTo(28)'
      /\ timeToLive' = timeToLive /\ publishInterval' = publishInterval
  <2>1. ReadUpTo(28)'
    BY <1>1, <1>2, ReadingStays
  <2>. QED  BY <1>1, <1>2, <2>1, FaultsStay, Zenon DEF timeToLive, publishInterval
<1>4. PICK x \in Nat : x = timeToLive * MsPerSecond
  BY <1>1, Timing, Zenon
<1>5. publishInterval \in Int
  BY <1>1, Timing, Zenon
<1>6. \A i \in DOMAIN Fields : /\ ~Faulty(Fields[i])'
                              /\ config'[Fields[i].key] = Strongest(Fields[i])'
  BY <1>3, FieldCount, Zenon DEF ReadUpTo
<1>7. CASE toInt64(x) <= publishInterval
  <2>1. phase' = "error" /\ error' = "submitter.backendRegistry.entryTimeToLive"
    BY <1>4, <1>7, Zenon DEF CheckTimeToLive, Reject
  <2>2. ConfigTypeOK'
    <3>1. "submitter.backendRegistry.entryTimeToLive" \in Keys
      <4>1. Fields[27].key = "submitter.backendRegistry.entryTimeToLive"
        BY Zenon DEF Fields, Field
      <4>. QED  BY <4>1, FieldCount DEF Keys
    <3>. QED  BY <1>2, <2>1, <3>1, ConfigTypes, NamedAre, Zenon DEF Typed, ConfigInv
  <2>3. x <= publishInterval \/ x > Int64Max
    BY <1>5, <1>7, Converted, ConfigurationAssumption
  <2>4. FailsAtFirstFault'
    BY <1>3, <1>4, <1>6, <2>1, <2>3, Zenon DEF FailsAtFirstFault
  <2>. QED  BY <2>1, <2>2, <2>4, Zenon DEF ConfigInv, Passed, LoadedIsFaultless
<1>8. CASE ~(toInt64(x) <= publishInterval)
  <2>1. phase' = "loaded" /\ error' = error
    BY <1>4, <1>8, Zenon DEF CheckTimeToLive
  <2>2. ConfigTypeOK'
    BY <1>2, <2>1, ConfigTypes, Zenon DEF Typed, ConfigInv
  <2>3. x > publishInterval
    BY <1>5, <1>8, Converted
  <2>4. LoadedIsFaultless'
    BY <1>3, <1>4, <1>6, <2>1, <2>3, Zenon DEF LoadedIsFaultless
  <2>. QED  BY <1>3, <2>1, <2>2, <2>4, Zenon DEF ConfigInv, Passed, FailsAtFirstFault
<1>. QED  BY <1>7, <1>8, Zenon

LEMMA NextConfigInv == ConfigInv /\ [ConfigNext]_configVars => ConfigInv'
<1>. SUFFICES ASSUME ConfigInv, [ConfigNext]_configVars PROVE ConfigInv'
  BY Zenon
<1>1. setup' = setup
  BY SetupStays, Zenon
<1>2. CASE UNCHANGED configVars
  <2>1. UNCHANGED <<setup, phase, index, config, error>>
    BY <1>2, Zenon DEF configVars
  <2>2. ConfigTypeOK'
    BY <2>1, Zenon DEF ConfigInv, ConfigTypeOK
  <2>3. Passed'
    <3>1. phase \in {"timing", "loaded"} => ReadUpTo(28)'
      BY <1>1, <2>1, ReadingStays DEF ConfigInv, Passed
    <3>2. CASE phase = "fields"
      <4>1. PICK n \in 0..28 : n = index - 1
        BY <3>2 DEF ConfigInv, Passed
      <4>2. ReadUpTo(n)'
        BY <1>1, <2>1, <3>2, <4>1, ReadingStays, Zenon DEF ConfigInv, Passed
      <4>3. ReadUpTo(index - 1)'
        BY <2>1, <4>1, <4>2, Zenon
      <4>. QED  BY <2>1, <3>2, <4>3, Zenon DEF ConfigInv, Passed, FitsSchema
    <3>. QED  BY <2>1, <3>1, <3>2, Zenon DEF ConfigInv, Passed, FitsSchema
  <2>4. timeToLive' = timeToLive /\ publishInterval' = publishInterval
    BY <2>1, Zenon DEF timeToLive, publishInterval
  <2>5. LoadedIsFaultless'
    BY <1>1, <2>1, <2>4, FaultsStay, FieldCount, ZenonT(30) DEF ConfigInv, LoadedIsFaultless
  <2>6. FailsAtFirstFault'
    <3>1. CASE phase # "error"
      BY <2>1, <3>1, Zenon DEF FailsAtFirstFault
    <3>2. CASE phase = "error"
      <4>1. /\ FitsSchema' <=> FitsSchema
            /\ \A i \in DOMAIN Fields : Faulty(Fields[i])' <=> Faulty(Fields[i])
        BY <1>1, FaultsStay, FieldCount, Zenon
      <4>2. \A i \in DOMAIN Fields :
              (\A j \in 1..(i - 1) : ~Faulty(Fields[j])')
                <=> (\A j \in 1..(i - 1) : ~Faulty(Fields[j]))
        BY <1>1, FaultsStay, FieldCount
      <4>. QED  BY <1>1, <2>1, <2>4, <3>2, <4>1, <4>2, Zenon
                DEF ConfigInv, FailsAtFirstFault
    <3>. QED  BY <3>1, <3>2, Zenon
  <2>. QED  BY <2>1, <2>2, <2>3, <2>5, <2>6, Zenon DEF ConfigInv
<1>3. CASE parseConfigFile
  BY <1>1, <1>3, ParseKeeps, Zenon
<1>4. CASE checkTableKeys
  BY <1>1, <1>4, SchemaKeeps, Zenon
<1>5. CASE ReadField
  BY <1>1, <1>5, FieldKeeps, Zenon
<1>6. CASE CheckTimeToLive
  BY <1>1, <1>6, TimingKeeps, Zenon
<1>. QED  BY <1>2, <1>3, <1>4, <1>5, <1>6, Zenon DEF ConfigNext, Ended

\* The configuration invariant holds while a configuration is loaded.
THEOREM ConfigInductive == ConfigSpec => []ConfigInv
BY InitConfigInv, NextConfigInv, PTL DEF ConfigSpec

\* The walk over the schema and the fields never runs past its end, and an
\* error names a key, a table, the file or the one variable that is parsed.
THEOREM ConfigTypesHold == ConfigSpec => []ConfigTypeOK
<1>1. ConfigInv => ConfigTypeOK
  BY Zenon DEF ConfigInv
<1>. QED  BY <1>1, ConfigInductive, PTL

\* Whatever file and environment a daemon finds, assembleConfig() returns a
\* configuration only if nothing in them is at fault; each field then comes
\* from its strongest layer, and the own entry outlives its interval.
THEOREM LoadingIsSound == ConfigSpec => []LoadedIsFaultless
<1>1. ConfigInv => LoadedIsFaultless
  BY Zenon DEF ConfigInv
<1>. QED  BY <1>1, ConfigInductive, PTL

\* Whatever it refuses has a fault, and the error is for the first one.
THEOREM LoadingIsComplete == ConfigSpec => []FailsAtFirstFault
<1>1. ConfigInv => FailsAtFirstFault
  BY Zenon DEF ConfigInv
<1>. QED  BY <1>1, ConfigInductive, PTL

\* A longer count stays the longer one in a finer unit.
LEMMA Scaled ==
  ASSUME NEW x \in Nat, NEW y \in Nat, x > y, NEW k \in Nat \ {0}
  PROVE  x * k \in Nat /\ y * k \in Nat /\ x * k > y * k
OBVIOUS

\* In the steady clock's ticks, in which BackendRegistry and PublicationThrottle
\* compare them, a validated time to live outlives its interval unless it is
\* too long for the clock: the conversion is the only way to lose what
\* assembleConfig() checked.
THEOREM OnlyOverflowShortens ==
  ConfigSpec =>
    [](timeToLive * MsPerSecond * TicksPerMs <= Int64Max => TimeToLiveOutlivesInterval)
<1>1. ConfigInv => (timeToLive * MsPerSecond * TicksPerMs <= Int64Max
                      => TimeToLiveOutlivesInterval)
  <2>. SUFFICES ASSUME ConfigInv, timeToLive * MsPerSecond * TicksPerMs <= Int64Max,
                       phase = "loaded"
                PROVE  toInt64(timeToLive * MsPerSecond * TicksPerMs)
                         > toInt64(publishInterval * TicksPerMs)
    BY Zenon DEF TimeToLiveOutlivesInterval
  <2>1. /\ timeToLive * MsPerSecond \in Nat /\ publishInterval \in Nat
        /\ timeToLive * MsPerSecond > publishInterval
    BY Timing DEF ConfigInv, Passed, LoadedIsFaultless
  <2>. DEFINE x == timeToLive * MsPerSecond * TicksPerMs
              y == publishInterval * TicksPerMs
  <2>2. x \in Nat /\ y \in Nat /\ x > y
    BY <2>1, Scaled, ConfigurationAssumption, Zenon
  <2>3. x <= Int64Max
    BY Zenon
  <2>. HIDE DEF x, y
  <2>4. toInt64(x) = x /\ toInt64(y) = y
    BY <2>2, <2>3, Converted, ConfigurationAssumption
  <2>5. toInt64(x) > toInt64(y)
    BY <2>2, <2>4, Zenon
  <2>. QED  BY <2>5, Zenon DEF x, y
<1>. QED  BY <1>1, ConfigInductive, PTL
=============================================================================
