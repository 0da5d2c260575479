---------------------------- MODULE DaemonProofs ----------------------------
(***************************************************************************)
(* The mechanisms each daemon's turn is made of: its intake (Messaging),   *)
(* its own registry entry (OwnDevice), and the selection and compilation   *)
(* of a task (TaskPreparation).  Proved for any messages and timeouts, any *)
(* time-to-live, publish interval and bounded lag, and any tasks, number   *)
(* of circuits, devices and formats the compiler reads.                    *)
(***************************************************************************)
EXTENDS Messaging, OwnDevice, TaskPreparation, WellFoundedInduction, TLAPS

(***************************************************************************)
(* Intake: receive(), receiveNext() and drainQueue().                      *)
(***************************************************************************)

\* What happened since the flag was set.  A wait is entered only with the
\* flag clear, so nothing was received before it and all that was waited is
\* this wait.
Late ==
  /\ ~flag => lateWait = 0 /\ lateReceived = 0
  /\ ipc = "wait" => lateReceived = 0 /\ lateWait <= waited
  /\ lateWait <= pollInterval /\ lateReceived <= 1

\* The message in hand is the head of the queue until it is acknowledged.
Hand ==
  /\ ipc = "ack" => queue # <<>> /\ inHand = Head(queue)
  /\ ipc \notin {"ack", "handle"} => inHand = None

IntakeInv == IntakeTypeOK /\ Late /\ Hand

LEMMA IntervalIsNat == timeout \in Timeouts => pollInterval \in Nat
BY MessagingAssumption, Zenon DEF pollInterval, waitIndefinitely

\* The call's arguments do not change, and with them the interval.
LEMMA IntervalFixed == UNCHANGED callVars => pollInterval' = pollInterval
BY Zenon DEF callVars, pollInterval, waitIndefinitely

LEMMA InitIntakeInv == IntakeInit => IntakeInv
<1>. SUFFICES ASSUME IntakeInit PROVE IntakeInv
  BY Zenon
<1>1. pollInterval \in Nat
  BY IntervalIsNat, Zenon DEF IntakeInit
<1>2. queue \in Seq(Messages)
  BY DEF IntakeInit
<1>3. flag \in BOOLEAN /\ drain \in BOOLEAN
  BY Zenon DEF IntakeInit
<1>4. waited \in 0..pollInterval
  BY <1>1 DEF IntakeInit
<1>5. IntakeTypeOK
  BY <1>2, <1>3, <1>4, Zenon DEF IntakeInit, IntakeTypeOK
<1>. QED  BY <1>1, <1>5 DEF IntakeInit, IntakeInv, Late, Hand

LEMMA NextIntakeInv == IntakeInv /\ [IntakeNext]_intakeVars => IntakeInv'
<1>. SUFFICES ASSUME IntakeInv, [IntakeNext]_intakeVars PROVE IntakeInv'
  BY Zenon
<1>. USE DEF IntakeInv
<1>1. pollInterval \in Nat
  BY IntervalIsNat, Zenon DEF IntakeTypeOK
<1>2. UNCHANGED callVars
  BY Zenon DEF IntakeNext, Process, Publish, RequestTermination, Turn, poll, Tick, TimedOut,
         ReceiveFails, Deliver, ack, handle, Stopped, intakeVars, callVars
<1>3. pollInterval' = pollInterval /\ UNCHANGED <<drain, timeout>>
  BY <1>2, IntervalFixed, Zenon DEF callVars
<1>4. CASE UNCHANGED intakeVars
  BY <1>3, <1>4, Zenon DEF intakeVars, IntakeTypeOK, Late, Hand
<1>5. ASSUME NEW m \in Messages, Publish(m) PROVE IntakeInv'
  <2>1. /\ queue' = Append(queue, m) /\ queue \in Seq(Messages)
        /\ UNCHANGED <<ipc, flag, inHand, waited, lateWait, lateReceived>>
    BY <1>5, Zenon DEF Publish, IntakeTypeOK
  <2>2. queue' \in Seq(Messages)
    BY <2>1
  <2>3. queue # <<>> => queue' # <<>> /\ Head(queue') = Head(queue)
    BY <2>1
  <2>4. IntakeTypeOK' /\ Late'
    BY <1>3, <2>1, <2>2, Zenon DEF IntakeTypeOK, Late
  <2>. QED  BY <2>1, <2>3, <2>4, Zenon DEF Hand
<1>6. CASE RequestTermination
  BY <1>1, <1>3, <1>6, Zenon DEF RequestTermination, IntakeTypeOK, Late, Hand
<1>7. CASE Turn \/ poll \/ TimedOut \/ handle
  <2>1. UNCHANGED <<queue, flag, lateWait, lateReceived>>
    BY <1>7, Zenon DEF Turn, poll, TimedOut, handle
  <2>2. waited' \in 0..pollInterval
    BY <1>1, <1>7 DEF Turn, poll, TimedOut, handle, IntakeTypeOK
  <2>3. /\ ipc' \in {"turn", "poll", "wait", "stopped"} /\ inHand' = None
        /\ ipc' = "wait" => ~flag /\ waited' = 0
    BY <1>7, Zenon DEF Turn, poll, TimedOut, handle, Hand
  <2>. QED  BY <1>1, <1>3, <2>1, <2>2, <2>3 DEF IntakeTypeOK, Late, Hand
<1>8. CASE Tick
  <2>1. /\ UNCHANGED <<queue, ipc, flag, inHand, lateReceived>> /\ ipc = "wait"
        /\ waited < pollInterval /\ waited' = waited + 1
        /\ lateWait' = IF flag THEN lateWait + 1 ELSE lateWait
    BY <1>8, Zenon DEF Tick
  <2>2. waited' \in 0..pollInterval /\ lateWait' \in Nat /\ lateWait' <= waited'
    BY <2>1, <1>1 DEF IntakeTypeOK, Late
  <2>. QED  BY <1>1, <1>3, <2>1, <2>2 DEF IntakeTypeOK, Late, Hand
<1>9. CASE ReceiveFails
  <2>1. queue' \in Seq(Messages)
    BY <1>9 DEF ReceiveFails, IntakeTypeOK
  <2>. QED  BY <1>3, <1>9, <2>1, Zenon DEF ReceiveFails, IntakeTypeOK, Late, Hand
<1>10. CASE Deliver
  <2>1. Head(queue) \in Messages
    BY <1>10 DEF Deliver, IntakeTypeOK
  <2>2. lateReceived' \in Nat /\ lateReceived' <= 1 /\ (~flag => lateReceived' = 0)
    BY <1>10 DEF Deliver, IntakeTypeOK, Late
  <2>. QED  BY <1>3, <1>10, <2>1, <2>2, Zenon DEF Deliver, IntakeTypeOK, Late, Hand
<1>11. ASSUME NEW acked \in BOOLEAN, ack(acked) PROVE IntakeInv'
  <2>1. queue' \in Seq(Messages)
    BY <1>11 DEF ack, Hand, IntakeTypeOK
  <2>. QED  BY <1>3, <1>11, <2>1, Zenon DEF ack, IntakeTypeOK, Late, Hand
<1>. QED  BY <1>4, <1>5, <1>6, <1>7, <1>8, <1>9, <1>10, <1>11, Zenon
  DEF IntakeNext, Process, Stopped

\* The invariant holds of every process.
THEOREM IntakeInductive == IntakeSpec => []IntakeInv
BY InitIntakeInv, NextIntakeInv, PTL DEF IntakeSpec

\* No wait of the transport outlasts its poll interval.
THEOREM IntakeTypeCorrect == IntakeSpec => []IntakeTypeOK
<1>1. IntakeInv => IntakeTypeOK
  BY Zenon DEF IntakeInv
<1>. QED  BY <1>1, IntakeInductive, PTL

\* However long the timeout, and however full the queue, the flag lets a
\* process finish one poll and receive one message at most.
THEOREM OnePollAfterTheFlag == IntakeSpec => []UnwindsWithinOnePoll
<1>1. IntakeInv => UnwindsWithinOnePoll
  BY Zenon DEF IntakeInv, Late, UnwindsWithinOnePoll
<1>. QED  BY <1>1, IntakeInductive, PTL

\* A message that can be decoded leaves broker and process only by being
\* handled, wherever a failure or the flag meets the call.
THEOREM MessagesAreHandled == IntakeSpec => NothingDropped
<1>. DEFINE Kept == \A m \in Messages \ Undecodable :
                      InSystem(m) /\ ~InSystem(m)' => ipc = "handle" /\ inHand = m
<1>1. IntakeInv /\ [IntakeNext]_intakeVars => [Kept]_intakeVars
  <2>. SUFFICES ASSUME IntakeInv, IntakeNext,
                       NEW m \in Messages \ Undecodable, InSystem(m), ~InSystem(m)'
                PROVE  ipc = "handle" /\ inHand = m
    BY Zenon
  <2>. USE DEF IntakeInv
  <2>1. m # None /\ queue \in Seq(Messages)
    BY MessagingAssumption, Zenon DEF IntakeTypeOK
  <2>2. ASSUME queue # <<>>, queue' = Tail(queue), Head(queue) # m, Queued(m)
        PROVE  Queued(m)'
    <3>1. PICK i \in 1..Len(queue) : queue[i] = m
      BY <2>1, <2>2 DEF Queued
    <3>2. i # 1 /\ i - 1 \in DOMAIN Tail(queue) /\ Tail(queue)[i - 1] = m
      BY <2>1, <2>2, <3>1
    <3>. QED  BY <2>2, <3>2, Zenon DEF Queued
  <2>3. CASE UNCHANGED queue
    <3>1. inHand = m /\ inHand' # m
      BY <2>3, Zenon DEF InSystem, Queued
    <3>2. ipc \in {"ack", "handle"}
      BY <2>1, <3>1, Zenon DEF Hand
    <3>. QED  BY <3>1, <3>2, Zenon DEF IntakeNext, Process, Publish, RequestTermination, Turn,
      poll, Tick, TimedOut, ReceiveFails, Deliver, ack, handle, Stopped, intakeVars
  <2>4. ASSUME NEW p \in Messages, Publish(p) PROVE FALSE
    <3>1. queue' = Append(queue, p) /\ inHand' = inHand
      BY <2>4, Zenon DEF Publish
    <3>2. \A i \in 1..Len(queue) : i \in DOMAIN queue' /\ queue'[i] = queue[i]
      BY <2>1, <3>1
    <3>3. Queued(m) => Queued(m)'
      BY <2>1, <3>2 DEF Queued
    <3>. QED  BY <3>1, <3>3, Zenon DEF InSystem
  <2>5. CASE ReceiveFails /\ ~UNCHANGED queue
    <3>1. /\ queue # <<>> /\ queue' = Tail(queue) /\ Head(queue) # m
          /\ inHand' = inHand
      BY <2>5, Zenon DEF ReceiveFails
    <3>. QED  BY <3>1, <2>2, Zenon DEF InSystem
  <2>6. ASSUME NEW acked \in BOOLEAN, ack(acked), ~UNCHANGED queue PROVE FALSE
    <3>1. /\ queue # <<>> /\ queue' = Tail(queue)
          /\ inHand = Head(queue) /\ inHand' = inHand
      BY <2>6, Zenon DEF ack, Hand
    <3>. QED  BY <3>1, <2>2, Zenon DEF InSystem
  <2>. QED  BY <2>3, <2>4, <2>5, <2>6, Zenon
    DEF IntakeNext, Process, RequestTermination, Turn, poll, Tick, TimedOut, Deliver,
        handle, Stopped, intakeVars
<1>. QED  BY <1>1, IntakeInductive, PTL DEF IntakeSpec, NothingDropped

(***************************************************************************)
(* A device-owning daemon never expires its own backend while its device   *)
(* can be read.                                                            *)
(***************************************************************************)

\* The clocks the turn compares are ordered; on the way to expire() the slot
\* and the last read are less than an interval old, but for the lag.
ClocksOrdered ==
  /\ lastClaimed <= now /\ lastRead <= now /\ lagStart <= now
  /\ opc # "read" => lastClaimed <= lastRead
  /\ ~claimed => opc = "claim"
  /\ opc = "expire" => /\ now - lagStart <= MaxLag
                       /\ lagStart - lastRead < PublishInterval

\* Unless it failed, the last read refreshed the entry.
ReadRefreshes ==
  ~readFailed => contains(entries, Self) /\ entries[Self].lastRefreshed = lastRead

OwnInv == OwnTypeOK /\ NoSelfExpiry /\ ClocksOrdered /\ ReadRefreshes

\* The age of the last read when expire() runs follows from the invariant.
LEMMA Freshness ==
  OwnInv => FreshWhenExpiring
<1> SUFFICES ASSUME OwnInv, opc = "expire"
             PROVE  /\ now - lastRead < PublishInterval + MaxLag
                    /\ ~readFailed => /\ contains(entries, Self)
                                      /\ entries[Self].lastRefreshed = lastRead
  BY Zenon DEF FreshWhenExpiring
<1>1. /\ now \in Nat /\ lagStart \in Nat /\ lastRead \in Nat
      /\ now - lagStart <= MaxLag /\ lagStart - lastRead < PublishInterval
  BY Zenon DEF OwnInv, OwnTypeOK, ClocksOrdered
<1>2. now - lastRead < PublishInterval + MaxLag
  BY <1>1, TimingAssumption, LagAssumption
<1> QED BY <1>2, Zenon DEF OwnInv, ReadRefreshes

\* What refreshing the own entry does to a registry that holds no other
\* backend: its queue never changes, so the refresh is never rejected.
LEMMA RefreshOwn ==
  ASSUME NEW e,
         DOMAIN e \subseteq {Self},
         \A n \in DOMAIN e : e[n] \in [backend : {own}, lastRefreshed : Nat],
         NEW t \in Nat
  PROVE  /\ DOMAIN insertOrRefresh(e, own, t) = {Self}
         /\ insertOrRefresh(e, own, t)[Self]
              = [backend |-> own, lastRefreshed |-> t]
<1>1. own.name = Self /\ own.queueName = OwnQueue
  BY Zenon DEF own
<1>2. ~conflicts(e, own)
  <2>1. CASE Self \in DOMAIN e
    <3>1. e[Self].backend.queueName = own.queueName
      BY <2>1, Zenon DEF own
    <3> QED BY <1>1, <3>1, Zenon DEF conflicts
  <2>2. CASE Self \notin DOMAIN e
    BY <1>1, <2>2, Zenon DEF conflicts, contains
  <2> QED BY <2>1, <2>2, Zenon
<1> QED
  BY <1>1, <1>2, Zenon DEF insertOrRefresh

\* The daemon starts its loop with its own backend registered.
LEMMA InitOwnInv ==
  OwnInit => OwnInv
<1> SUFFICES ASSUME OwnInit PROVE OwnInv
  BY Zenon
<1>1. DOMAIN entries = {Self} /\ entries[Self] = [backend |-> own, lastRefreshed |-> 0]
  <2>1. ~conflicts(EmptyRegistry, own)
    BY Zenon DEF conflicts, contains, EmptyRegistry
  <2> QED BY <2>1, Zenon DEF OwnInit, insertOrRefresh, EmptyRegistry, own
<1>2. OwnTypeOK
  <2>1. \A n \in DOMAIN entries : entries[n] \in [backend : {own}, lastRefreshed : Nat]
    BY <1>1
  <2> QED BY <1>1, <2>1, Zenon DEF OwnInit, OwnTypeOK
<1> QED
  BY <1>1, <1>2, TimingAssumption, LagAssumption
     DEF OwnInit, OwnInv, NoSelfExpiry, contains, ClocksOrdered, ReadRefreshes

\* Every step of the loop, and the passing of time, keeps the invariant.
LEMMA NextOwnInv ==
  OwnInv /\ [OwnNext]_ownVars => OwnInv'
<1> SUFFICES ASSUME OwnInv, [OwnNext]_ownVars PROVE OwnInv'
  BY Zenon
<1> USE TimingAssumption, LagAssumption
<1>0. /\ now \in Nat /\ lastClaimed \in Nat /\ lastRead \in Nat /\ lagStart \in Nat
      /\ DOMAIN entries \subseteq {Self}
      /\ \A n \in DOMAIN entries : entries[n] \in [backend : {own}, lastRefreshed : Nat]
  BY Zenon DEF OwnInv, OwnTypeOK
<1>1. CASE claim
  <2>1. OwnTypeOK'
    BY <1>0, <1>1, Zenon DEF OwnInv, claim, OwnTypeOK, own
  <2>2. ClocksOrdered'
    BY <1>0, <1>1 DEF OwnInv, claim, ClocksOrdered, OwnTypeOK
  <2>3. ReadRefreshes' /\ NoSelfExpiry'
    BY <1>0, <1>1, Zenon DEF OwnInv, claim, ClocksOrdered, ReadRefreshes, NoSelfExpiry, contains
  <2> QED BY <2>1, <2>2, <2>3, Zenon DEF OwnInv
<1>2. CASE ReadFails
  <2>1. OwnTypeOK'
    BY <1>0, <1>2, Zenon DEF OwnInv, ReadFails, OwnTypeOK, own
  <2>2. ClocksOrdered'
    BY <1>0, <1>2 DEF OwnInv, ReadFails, ClocksOrdered
  <2>3. ReadRefreshes' /\ NoSelfExpiry'
    BY <1>0, <1>2, Zenon DEF OwnInv, ReadFails, ClocksOrdered, ReadRefreshes, NoSelfExpiry, contains
  <2> QED BY <2>1, <2>2, <2>3, Zenon DEF OwnInv
<1>3. CASE ReadSucceeds
  <2>1. DOMAIN entries' = {Self} /\ entries'[Self] = [backend |-> own, lastRefreshed |-> now]
    <3>1. entries' = insertOrRefresh(entries, own, now)
      BY <1>3, Zenon DEF ReadSucceeds
    <3> QED BY <1>0, <3>1, RefreshOwn, Zenon
  <2>2. OwnTypeOK'
    <3>1. \A n \in DOMAIN entries' : entries'[n] \in [backend : {own}, lastRefreshed : Nat]
      BY <1>0, <2>1
    <3> QED BY <1>0, <1>3, <2>1, <3>1, Zenon DEF OwnInv, ReadSucceeds, OwnTypeOK, own
  <2>3. ClocksOrdered'
    BY <1>0, <1>3 DEF OwnInv, ReadSucceeds, ClocksOrdered
  <2>4. ReadRefreshes' /\ NoSelfExpiry'
    BY <1>0, <1>3, <2>1 DEF OwnInv, ReadSucceeds, ClocksOrdered, ReadRefreshes,
                             NoSelfExpiry, contains
  <2> QED BY <2>2, <2>3, <2>4, Zenon DEF OwnInv
<1>4. CASE Expire
  <2>1. /\ DOMAIN entries' \subseteq DOMAIN entries
        /\ \A n \in DOMAIN entries' : entries'[n] = entries[n]
    BY <1>4, Zenon DEF Expire, expire
  <2>2. ~readFailed => contains(entries', Self)
    <3>1. SUFFICES ASSUME ~readFailed PROVE contains(entries', Self)
      BY Zenon
    <3>2. /\ contains(entries, Self) /\ entries[Self].lastRefreshed = lastRead
          /\ now - lastRead < PublishInterval + MaxLag
      BY <1>4, <3>1, Freshness, Zenon DEF FreshWhenExpiring, Expire
    <3>3. ~(now - lastRead > TimeToLive)
      BY <1>0, <3>2
    <3>4. ~(now - entries[Self].lastRefreshed > TimeToLive)
      BY <3>2, <3>3, Zenon
    <3> QED BY <1>4, <3>2, <3>4, Zenon DEF Expire, expire, contains
  <2>3. OwnTypeOK'
    BY <1>0, <1>4, <2>1, Zenon DEF OwnInv, Expire, OwnTypeOK, own
  <2>4. ClocksOrdered'
    BY <1>4, Zenon DEF OwnInv, Expire, ClocksOrdered
  <2>5. ReadRefreshes' /\ NoSelfExpiry'
    BY <1>4, <2>1, <2>2, Zenon DEF OwnInv, Expire, ReadRefreshes, NoSelfExpiry, contains
  <2> QED BY <2>3, <2>4, <2>5, Zenon DEF OwnInv
<1>5. CASE Work
  <2>1. OwnTypeOK'
    BY <1>0, <1>5, Zenon DEF OwnInv, Work, OwnTypeOK, own
  <2>2. ClocksOrdered'
    BY <1>0, <1>5, Zenon DEF OwnInv, Work, ClocksOrdered
  <2>3. ReadRefreshes' /\ NoSelfExpiry'
    BY <1>0, <1>5, Zenon DEF OwnInv, Work, ClocksOrdered, ReadRefreshes, NoSelfExpiry, contains
  <2> QED BY <2>1, <2>2, <2>3, Zenon DEF OwnInv
<1>6. CASE OwnTick
  <2>1. OwnTypeOK'
    BY <1>0, <1>6 DEF OwnInv, OwnTick, OwnTypeOK, own
  <2>2. ClocksOrdered'
    BY <1>0, <1>6 DEF OwnInv, OwnTick, ClocksOrdered
  <2>3. ReadRefreshes' /\ NoSelfExpiry'
    BY <1>0, <1>6, Zenon DEF OwnInv, OwnTick, ClocksOrdered, ReadRefreshes, NoSelfExpiry, contains
  <2> QED BY <2>1, <2>2, <2>3, Zenon DEF OwnInv
<1>7. CASE UNCHANGED ownVars
  BY <1>7, Zenon DEF OwnInv, ownVars, OwnTypeOK, NoSelfExpiry, contains,
                     ClocksOrdered, ReadRefreshes, own
<1> QED
  BY <1>1, <1>2, <1>3, <1>4, <1>5, <1>6, <1>7, Zenon DEF OwnNext

\* The own-device invariant holds in every state of the loop.
THEOREM OwnInductive ==
  OwnSpec => []OwnInv
BY InitOwnInv, NextOwnInv, PTL DEF OwnSpec

\* The clock, the slot and the registry keep their types.
THEOREM OwnTypeCorrect ==
  OwnSpec => []OwnTypeOK
<1>1. OwnInv => OwnTypeOK
  BY Zenon DEF OwnInv
<1> QED BY <1>1, OwnInductive, PTL

\* refreshOwnDeviceStatus() before expire(): a daemon is registered with itself
\* unless its latest device read failed, however long reads and work take, if
\* expire() follows them within the lag that the time-to-live leaves.
THEOREM NeverExpiresItself ==
  OwnSpec => []NoSelfExpiry
<1>1. OwnInv => NoSelfExpiry
  BY Zenon DEF OwnInv
<1> QED BY <1>1, OwnInductive, PTL

\* PublicationThrottle and loop order together bound the age of the last read,
\* and so of the entry it refreshed, when expire() examines it; a failed read
\* is repeated within the same bound.
THEOREM OwnEntryIsFresh ==
  OwnSpec => []FreshWhenExpiring
BY Freshness, OwnInductive, PTL

(***************************************************************************)
(* Preparation: the scan of chooseBackend().  The provers cannot use the   *)
(* library's induction theorems, whose parameter is an operator, so        *)
(* induction is stated for sets.                                           *)
(***************************************************************************)

\* Induction over the natural numbers, for a set of them.
LEMMA NatSetInduction ==
  ASSUME NEW P \in SUBSET Nat, 0 \in P, \A n \in P : n + 1 \in P
  PROVE  P = Nat
<1>. SUFFICES ASSUME P # Nat PROVE FALSE
  BY Zenon
<1>. DEFINE T == Nat \ P
            R == {ss \in Nat \X Nat : ss[1] < ss[2]}
<1>1. IsWellFoundedOn(R, Nat)
  BY NatLessThanWellFounded, Zenon DEF OpToRel
<1>2. T # {} /\ T \subseteq Nat
  BY Zenon
<1>3. PICK x \in T : \A y \in T : ~(<<y, x>> \in R)
  <2>. HIDE DEF T, R
  <2>. QED  BY <1>1, <1>2, WFMin, Zenon
<1>4. x # 0 /\ x - 1 \in Nat /\ <<x - 1, x>> \in R /\ x = (x - 1) + 1
  OBVIOUS
<1>. QED  BY <1>3, <1>4, Zenon

\* One turn of the scan.
Turned(n, c) ==
  IF usable(n) /\ (c = NoName \/ beatsIncumbent(n, c)) THEN n ELSE c

Scans(f, N) ==
  f = [n \in 0..N |-> IF n = 0 THEN NoName ELSE Turned(n, f[n-1])]

\* The recursion has a solution over any number of names.
LEMMA ScanExists == \A N \in Nat : \E f : Scans(f, N)
<1>. DEFINE P == {N \in Nat : \E f : Scans(f, N)}
<1>1. 0 \in P
  <2>1. Scans([n \in 0..0 |-> NoName], 0)
    BY DEF Scans
  <2>. QED  BY <2>1, Zenon
<1>2. ASSUME NEW N \in P PROVE N + 1 \in P
  <2>1. PICK f : Scans(f, N)
    BY <1>2, Zenon
  <2>. DEFINE g == [n \in 0..(N+1) |-> IF n = N + 1 THEN Turned(n, f[N]) ELSE f[n]]
  <2>2. N \in Nat
    BY <1>2, Zenon
  <2>3. ASSUME NEW n \in 0..(N+1)
        PROVE  g[n] = IF n = 0 THEN NoName ELSE Turned(n, g[n-1])
    <3>1. CASE n = N + 1
      <4>1. n # 0 /\ n - 1 = N /\ n - 1 \in 0..(N+1) /\ n - 1 # N + 1
        BY <2>2, <3>1
      <4>2. g[n-1] = f[N] /\ g[n] = Turned(n, f[N])
        BY <3>1, <4>1, Zenon
      <4>. QED  BY <4>1, <4>2, Zenon
    <3>2. CASE n # N + 1
      <4>1. n \in 0..N /\ g[n] = f[n]
        BY <2>2, <3>2
      <4>2. f[n] = IF n = 0 THEN NoName ELSE Turned(n, f[n-1])
        BY <2>1, <4>1, Zenon DEF Scans
      <4>3. n # 0 => g[n-1] = f[n-1]
        BY <2>2, <4>1
      <4>. QED  BY <4>1, <4>2, <4>3, Zenon
    <3>. QED  BY <3>1, <3>2, Zenon
  <2>4. g = [n \in 0..(N+1) |-> g[n]]
    BY Zenon
  <2>. HIDE DEF g
  <2>5. Scans(g, N + 1)
    BY <2>3, <2>4, Zenon DEF Scans
  <2>. QED  BY <2>2, <2>5
<1>3. P \in SUBSET Nat
  BY Zenon
<1>4. P = Nat
  <2>. HIDE DEF P
  <2>. QED  BY <1>1, <1>2, <1>3, NatSetInduction, Zenon
<1>. QED  BY <1>4, Zenon

LEMMA ScanTurns ==
  /\ chosen[0] = NoName
  /\ \A n \in 1..MaxName : chosen[n] = Turned(n, chosen[n-1])
<1>1. chosen = CHOOSE f : Scans(f, MaxName)
  BY Zenon DEF chosen, Scans, Turned
<1>2. Scans(chosen, MaxName)
  BY <1>1, ScanExists, PreparationAssumption, Zenon
<1>3. \A n \in 0..MaxName : chosen[n] = IF n = 0 THEN NoName ELSE Turned(n, chosen[n-1])
  BY <1>2, Zenon DEF Scans
<1>. QED  BY <1>3, PreparationAssumption

\* What the registry holds: backends under their own names.
Registered ==
  /\ DOMAIN backends \subseteq Names
  /\ \A n \in DOMAIN backends :
       backends[n].name = n /\ backends[n].numQubits \in 0..UInt32Range-1

\* A policy orders the registered backends strictly and totally.
LEMMA PolicyOrders ==
  ASSUME Registered, NEW a \in DOMAIN backends, NEW b \in DOMAIN backends
  PROVE  /\ a # b => beatsIncumbent(a, b) \/ beatsIncumbent(b, a)
         /\ \A c \in DOMAIN backends :
              beatsIncumbent(a, b) /\ beatsIncumbent(b, c) => beatsIncumbent(a, c)
<1>1. \A n \in DOMAIN backends : n \in Int /\ backends[n].numQubits \in Int
  BY DEF Registered, Names
<1>. QED  BY <1>1 DEF beatsIncumbent

\* c is what a scan of the first n names must come to.
Best(n, c) ==
  /\ c \in 0..n
  /\ c = NoName => \A m \in 1..n : ~usable(m)
  /\ c # NoName => /\ usable(c)
                   /\ \A m \in 1..n : usable(m) /\ m # c => beatsIncumbent(c, m)

LEMMA TurnedBest ==
  ASSUME Registered, NEW n \in Nat \ {0}, NEW c, Best(n - 1, c)
  PROVE  Best(n, Turned(n, c))
<1>. USE DEF NoName
<1>1. \A m \in 1..n : m = n \/ m \in 1..(n-1)
  OBVIOUS
<1>2. \A m : usable(m) => m \in DOMAIN backends
  BY Zenon DEF usable
<1>3. c \in 0..(n-1) /\ c # n
  BY DEF Best
<1>4. CASE ~usable(n)
  BY <1>1, <1>3, <1>4 DEF Best, Turned
<1>5. CASE usable(n) /\ c = NoName
  BY <1>1, <1>5 DEF Best, Turned
<1>6. CASE usable(n) /\ c # NoName /\ beatsIncumbent(n, c)
  <2>1. \A m \in 1..n : usable(m) /\ m # n => beatsIncumbent(n, m)
    BY <1>1, <1>2, <1>6, PolicyOrders, Zenon DEF Best
  <2>. QED  BY <1>6, <2>1 DEF Best, Turned
<1>7. CASE usable(n) /\ c # NoName /\ ~beatsIncumbent(n, c)
  <2>1. beatsIncumbent(c, n) /\ Turned(n, c) = c
    BY <1>2, <1>3, <1>7, PolicyOrders, Zenon DEF Best, Turned
  <2>. QED  BY <1>1, <1>3, <1>7, <2>1 DEF Best
<1>. QED  BY <1>4, <1>5, <1>6, <1>7, Zenon

LEMMA ScanBest ==
  ASSUME Registered PROVE Best(MaxName, chosen[MaxName])
<1>. DEFINE P == {n \in Nat : n <= MaxName => Best(n, chosen[n])}
<1>1. 0 \in P
  BY ScanTurns DEF Best, NoName
<1>2. ASSUME NEW n \in P PROVE n + 1 \in P
  <2>1. n \in Nat /\ n + 1 \in Nat \ {0} /\ (n + 1) - 1 = n
    BY <1>2
  <2>2. n + 1 <= MaxName => n + 1 \in 1..MaxName /\ Best(n, chosen[n])
    BY <1>2, <2>1, PreparationAssumption
  <2>3. n + 1 <= MaxName => chosen[n + 1] = Turned(n + 1, chosen[n])
    BY <2>1, <2>2, ScanTurns, Zenon
  <2>4. n + 1 <= MaxName => Best(n + 1, chosen[n + 1])
    BY <2>1, <2>2, <2>3, TurnedBest, Zenon
  <2>. QED  BY <2>1, <2>4, Zenon
<1>3. P \in SUBSET Nat
  BY Zenon
<1>4. P = Nat
  <2>. HIDE DEF P
  <2>. QED  BY <1>1, <1>2, <1>3, NatSetInduction, Zenon
<1>. QED  BY <1>4, PreparationAssumption

(***************************************************************************)
(* compileQuantumTask() is atomic.                                         *)
(***************************************************************************)

\* The task but for the backend it is scheduled on.
Untouched == task = [arrived EXCEPT !.scheduled = task.scheduled]

\* Only a task that may be modified, of a valid level and for a backend with a
\* target, reaches the compiler; until the last of its circuits is compiled the
\* results are kept apart, and none is of an empty circuit.
Staged ==
  /\ arrived \in Tasks
  /\ staging \in Seq({"compiled"})
  /\ pc = "compile" => /\ ~arrived.noModify /\ arrived.level \in 0..3
                       /\ hasCompilerTarget(backends[task.scheduled])
  /\ \A i \in 1..Len(staging) : arrived.circuits[i] # "empty"
  /\ pc = "scheduled" /\ ~arrived.noModify
       => /\ arrived.level \in 0..3
          /\ \A i \in DOMAIN arrived.circuits : arrived.circuits[i] # "empty"
  /\ pc # "scheduled" => Untouched
  /\ CompileIsAtomic

\* A task in which only scheduled changed is the arrived one elsewhere.
LEMMA UntouchedFacts ==
  ASSUME arrived \in Tasks, Untouched
  PROVE  /\ task.circuits = arrived.circuits
         /\ task.noModify = arrived.noModify /\ task.level = arrived.level
         /\ \A name : [task EXCEPT !.scheduled = name]
                         = [arrived EXCEPT !.scheduled = name]
         /\ \A name : [task EXCEPT !.scheduled = name].scheduled = name
BY Zenon DEF Untouched, Tasks

\* The compiler's target is the first format the backend accepts, under its
\* label.
LEMMA ChosenTarget ==
  ASSUME NEW formats, usableTargets(formats) # {},
         NEW target, target = chooseCompilerTarget(formats)
  PROVE  /\ target.circuitFormat \in formats /\ target.circuitFormat # "UNSPECIFIED"
         /\ target.taskCircuitType \in {"iqmjson", "qasm2", "qirbase", "qiradaptive"}
         /\ target.taskCircuitType = FirstAccepted(formats)
         /\ mapTaskCircuitTypeToCircuitFormat(target.taskCircuitType) = target.circuitFormat
<1>. DEFINE U == usableTargets(formats)
<1>1. DOMAIN CompilerTargetPriority = 1..4
  BY DEF CompilerTargetPriority
<1>2. /\ U \subseteq {1, 2, 3, 4}
      /\ \A i \in {1, 2, 3, 4} : i \in U <=> CompilerTargetPriority[i].circuitFormat \in formats
  BY <1>1 DEF usableTargets
<1>3. /\ CompilerTargetPriority[1] = Target("IQMJSON", "iqmjson")
      /\ CompilerTargetPriority[2] = Target("QASM2", "qasm2")
      /\ CompilerTargetPriority[3] = Target("QIRBASESTRING", "qirbase")
      /\ CompilerTargetPriority[4] = Target("QIRADAPTIVESTRING", "qiradaptive")
  BY DEF CompilerTargetPriority
<1>. HIDE DEF U
<1>4. \E i \in U : \A j \in U : i <= j
  BY <1>2 DEF U
<1>5. PICK i \in U : target = CompilerTargetPriority[i] /\ \A j \in U : i <= j
  BY <1>4, Zenon DEF chooseCompilerTarget, U
<1>6. /\ 1 \in U <=> "IQMJSON" \in formats
      /\ 2 \in U <=> "QASM2" \in formats
      /\ 3 \in U <=> "QIRBASESTRING" \in formats
      /\ 4 \in U <=> "QIRADAPTIVESTRING" \in formats
  <2>1. /\ CompilerTargetPriority[1].circuitFormat = "IQMJSON"
        /\ CompilerTargetPriority[2].circuitFormat = "QASM2"
        /\ CompilerTargetPriority[3].circuitFormat = "QIRBASESTRING"
        /\ CompilerTargetPriority[4].circuitFormat = "QIRADAPTIVESTRING"
    BY <1>3 DEF Target
  <2>2. /\ 1 \in {1, 2, 3, 4} /\ 2 \in {1, 2, 3, 4}
        /\ 3 \in {1, 2, 3, 4} /\ 4 \in {1, 2, 3, 4}
    BY Zenon
  <2>. QED  BY <1>2, <2>1, <2>2, Zenon
<1>7. \A j \in U : j < i => FALSE
  BY <1>2, <1>5
<1>8. \/ i = 1 /\ 1 \in U
      \/ i = 2 /\ 2 \in U /\ 1 \notin U
      \/ i = 3 /\ 3 \in U /\ 1 \notin U /\ 2 \notin U
      \/ i = 4 /\ 4 \in U /\ 1 \notin U /\ 2 \notin U /\ 3 \notin U
  BY <1>2, <1>7
<1>9. \/ target = Target("IQMJSON", "iqmjson") /\ "IQMJSON" \in formats
      \/ /\ target = Target("QASM2", "qasm2") /\ "QASM2" \in formats
         /\ "IQMJSON" \notin formats
      \/ /\ target = Target("QIRBASESTRING", "qirbase") /\ "QIRBASESTRING" \in formats
         /\ "IQMJSON" \notin formats /\ "QASM2" \notin formats
      \/ /\ target = Target("QIRADAPTIVESTRING", "qiradaptive")
         /\ "QIRADAPTIVESTRING" \in formats
         /\ "IQMJSON" \notin formats /\ "QASM2" \notin formats
         /\ "QIRBASESTRING" \notin formats
  BY <1>3, <1>5, <1>6, <1>8, Zenon
<1>. QED  BY <1>9 DEF Target, FirstAccepted, mapTaskCircuitTypeToCircuitFormat

\* The levels the compiler knows.
LEMMA LevelFacts ==
  ASSUME NEW l \in Int
  PROVE  getCompilerOptimizationLevel(l) # "invalid" <=> l \in 0..3
BY DEF getCompilerOptimizationLevel

\* What compileError() found when a task goes on to the compiler, and when not.
LEMMA CompileErrorFacts ==
  ASSUME arrived \in Tasks, Untouched, NEW b
  PROVE  /\ compileError(b) \in {"none", "UnsupportedFormat", "InvalidLevel"}
         /\ compileError(b) = "none" => hasCompilerTarget(b) /\ arrived.level \in 0..3
         /\ compileError(b) = "InvalidLevel" => arrived.level \notin 0..3
         /\ compileError(b) = "UnsupportedFormat"
              => \/ ~validateInputFormatIsSupportedCircuitFormat(task.type)
                 \/ ~hasCompilerTarget(b)
<1>1. task.level = arrived.level /\ arrived.level \in Int
  BY UntouchedFacts, Zenon DEF Tasks
<1>2. getCompilerOptimizationLevel(task.level) # "invalid" <=> arrived.level \in 0..3
  BY <1>1, LevelFacts, Zenon
<1>. QED  BY <1>2, Zenon DEF compileError

LEMMA InitStaged == Init => Staged
<1>. SUFFICES ASSUME Init PROVE Staged
  BY Zenon
<1>1. task = arrived /\ arrived \in Tasks
  BY PreparationAssumption, Zenon DEF Init
<1>2. Untouched
  BY <1>1, Zenon DEF Untouched, Tasks
<1>3. staging \in Seq({"compiled"}) /\ 1..Len(staging) = {}
  BY DEF Init
<1>. QED  BY <1>1, <1>2, <1>3, Zenon DEF Init, Staged, Untouched, CompileIsAtomic

LEMMA NextStaged == Staged /\ [Next]_vars => Staged'
<1>. SUFFICES ASSUME Staged, [Next]_vars PROVE Staged'
  BY Zenon
<1>1. arrived' = arrived /\ arrived \in Tasks
  BY Zenon DEF Next, vars, inputVars, Choose, Dispatch, Lookup, CompileCircuit,
         CompileCommit, Done, Staged
<1>2. CASE UNCHANGED vars
  BY <1>2, Zenon DEF vars, Staged, Untouched, CompileIsAtomic
<1>3. CASE Choose
  <2>1. Untouched
    BY <1>3, Zenon DEF Choose, Staged
  <2>2. Untouched'
    <3>1. CASE UNCHANGED task
      BY <1>1, <2>1, <3>1, Zenon DEF Untouched
    <3>2. CASE task' = [task EXCEPT !.scheduled = chooseBackend]
      <4>1. task'.scheduled = chooseBackend
        BY <1>1, <2>1, <3>2, UntouchedFacts, Zenon
      <4>. QED  BY <1>1, <2>1, <3>2, <4>1, UntouchedFacts, Zenon DEF Untouched
    <3>. QED  BY <1>3, <3>1, <3>2, Zenon DEF Choose
  <2>3. pc' \notin {"compile", "scheduled"} /\ UNCHANGED staging
    BY <1>3, Zenon DEF Choose, Fail
  <2>. QED  BY <1>1, <2>2, <2>3, Zenon DEF Staged, Untouched, CompileIsAtomic
<1>4. CASE Dispatch \/ Lookup
  <2>1. Untouched /\ UNCHANGED <<task, staging>>
    BY <1>4, Zenon DEF Dispatch, Lookup, Staged
  <2>2. /\ pc' = "compile" => /\ ~arrived.noModify /\ arrived.level \in 0..3
                              /\ hasCompilerTarget(backends'[task'.scheduled])
        /\ pc' = "scheduled" => arrived.noModify
    <3>1. task.noModify = arrived.noModify
      BY <1>1, <2>1, UntouchedFacts, Zenon
    <3>2. Lookup /\ pc' = "compile" =>
            /\ compileError(backends[task.scheduled]) = "none" /\ ~task.noModify
            /\ UNCHANGED <<task, backends>>
      BY Zenon DEF Lookup, Fail
    <3>3. pc' = "scheduled" => task.noModify
      BY <1>4, Zenon DEF Dispatch, Lookup, Fail
    <3>4. pc' = "compile" => Lookup
      BY <1>4, Zenon DEF Dispatch
    <3>. QED  BY <1>1, <2>1, <3>1, <3>2, <3>3, <3>4, CompileErrorFacts, Zenon
  <2>. QED  BY <1>1, <2>1, <2>2, Zenon DEF Staged, Untouched, CompileIsAtomic
<1>5. CASE CompileCircuit
  <2>1. /\ Untouched /\ UNCHANGED <<task, backends>> /\ pc = "compile"
        /\ pc' # "scheduled"
        /\ staging' = staging \/ (/\ staging' = Append(staging, "compiled")
                                  /\ arrived.circuits[Len(staging) + 1] # "empty")
    BY <1>1, <1>5, UntouchedFacts, Zenon DEF CompileCircuit, Staged, Fail
  <2>2. staging \in Seq({"compiled"}) /\ staging' \in Seq({"compiled"})
        /\ (staging' = staging \/ Len(staging') = Len(staging) + 1)
    BY <2>1 DEF Staged
  <2>3. \A i \in 1..Len(staging') : i \in 1..Len(staging)
                                    \/ (i = Len(staging) + 1 /\ staging' # staging)
    BY <2>2
  <2>4. \A i \in 1..Len(staging') : arrived.circuits[i] # "empty"
    BY <2>1, <2>3, Zenon DEF Staged
  <2>. QED  BY <1>1, <2>1, <2>2, <2>4, Zenon DEF Staged, Untouched, CompileIsAtomic
<1>6. CASE CompileCommit
  <2>1. /\ Untouched /\ ~arrived.noModify /\ staging \in Seq({"compiled"})
        /\ UNCHANGED staging /\ pc' = "scheduled" /\ arrived.level \in 0..3
        /\ hasCompilerTarget(backends[task.scheduled])
        /\ \A i \in 1..Len(staging) : arrived.circuits[i] # "empty"
        /\ Len(staging) = Len(task.circuits)
    BY <1>6, Zenon DEF CompileCommit, Staged
  <2>2. Len(staging) = Len(arrived.circuits) /\ arrived.circuits \in Seq({"source", "empty"})
    BY <1>1, <2>1, UntouchedFacts, Zenon DEF Tasks
  <2>3. /\ staging = [i \in DOMAIN arrived.circuits |-> "compiled"]
        /\ DOMAIN arrived.circuits = 1..Len(staging)
    BY <2>1, <2>2
  <2>4. /\ task'.circuits = staging
        /\ task'.type = compilerTarget(backends[task.scheduled]).taskCircuitType
    BY <1>1, <1>6, <2>1, Zenon DEF CompileCommit, Untouched, Tasks
  <2>5. task'.type \in {"iqmjson", "qasm2", "qirbase", "qiradaptive"}
    BY <2>1, <2>4, ChosenTarget, Zenon DEF hasCompilerTarget, compilerTarget
  <2>. QED  BY <1>1, <2>1, <2>3, <2>4, <2>5, Zenon DEF Staged, CompileIsAtomic
<1>. QED  BY <1>2, <1>3, <1>4, <1>5, <1>6, Zenon DEF Next, Done

\* However many circuits a task has and whichever of them fails, the task is
\* compiled whole or left as it arrived.
THEOREM CompilationIsAtomic == Spec => []CompileIsAtomic
<1>1. Staged => CompileIsAtomic
  BY Zenon DEF Staged
<1>. QED  BY <1>1, InitStaged, NextStaged, PTL DEF Spec

(***************************************************************************)
(* Publishing a backend loses nothing that admission looks at.             *)
(***************************************************************************)

\* An unknown enumerator is normalised to UNSPECIFIED, which no circuit type
\* and no target of the compiler stands for.
LEMMA NormalisedFormats ==
  ASSUME NEW t, NEW F
  PROVE  canPrepareTaskForBackend(t, {mapProtoCircuitFormat(f) : f \in F})
           <=> canPrepareTaskForBackend(t, F)
<1>. DEFINE G == {mapProtoCircuitFormat(f) : f \in F}
<1>1. \A g \in CircuitFormats \ {"UNSPECIFIED"} : g \in G <=> g \in F
  BY Zenon DEF mapProtoCircuitFormat
<1>2. mapTaskCircuitTypeToCircuitFormat(t.type) \in CircuitFormats
  BY Zenon DEF mapTaskCircuitTypeToCircuitFormat, CircuitFormats
<1>3. \A i \in DOMAIN CompilerTargetPriority :
        CompilerTargetPriority[i].circuitFormat \in CircuitFormats \ {"UNSPECIFIED"}
  BY DEF CompilerTargetPriority, Target, CircuitFormats
<1>4. usableTargets(G) = usableTargets(F)
  BY <1>1, <1>3, Zenon DEF usableTargets
<1>. HIDE DEF G
<1>5. canPrepareTaskForBackend(t, G) <=> canPrepareTaskForBackend(t, F)
  BY <1>1, <1>2, <1>4, Zenon DEF canPrepareTaskForBackend
<1>. QED  BY <1>5, Zenon DEF G

\* An unknown status is normalised to one that is not online either.
LEMMA NormalisedStatus ==
  ASSUME NEW status
  PROVE  isOnlineBackendStatus(mapProtoBackendStatus(status))
           <=> isOnlineBackendStatus(status)
BY Zenon DEF isOnlineBackendStatus, mapProtoBackendStatus, BackendStatuses

\* While a task is chosen for, the selector's registry is what the readings
\* behind it were published as.
Published ==
  ~shared /\ pc \in {"choose", "dispatched"} => backends = registerPublished(devices)

LEMMA InitPublished == Init => Published
BY Zenon DEF Init, Published

LEMMA NextPublished == Published /\ [Next]_vars => Published'
BY Zenon DEF Published, Next, vars, inputVars, Choose, Fail, Dispatch, Lookup,
       CompileCircuit, CompileCommit, Done, registerPublished

\* What a rebuilt wrapper keeps of the one that was published.
LEMMA Rebuilt ==
  ASSUME NEW d, NEW b, b = fromPublishedStatus(toBackend(d))
  PROVE  /\ b.name = d.name /\ b.numQubits = d.numQubits
         /\ b.status = mapProtoBackendStatus(d.status)
         /\ b.formats = {mapProtoCircuitFormat(f) : f \in d.formats}
<1>. DEFINE m == toBackend(d)
<1>1. /\ m.name = d.name /\ m.num_qubits = d.numQubits /\ m.status = d.status
      /\ m.supported_circuit_formats = d.formats
  BY Zenon DEF toBackend
<1>. HIDE DEF m
<1>. DEFINE G == {mapProtoCircuitFormat(f) : f \in m.supported_circuit_formats}
<1>2. b = [name |-> m.name, numQubits |-> m.num_qubits,
           status |-> mapProtoBackendStatus(m.status), formats |-> G,
           queueName |-> m.queue_name]
  BY Zenon DEF fromPublishedStatus, m
<1>3. G = {mapProtoCircuitFormat(f) : f \in d.formats}
  BY <1>1, Zenon
<1>. HIDE DEF G
<1>4. /\ b.name = m.name /\ b.numQubits = m.num_qubits
      /\ b.status = mapProtoBackendStatus(m.status) /\ b.formats = G
  BY <1>2
<1>. QED  BY <1>1, <1>3, <1>4, Zenon

LEMMA PublishedAdmits == Published => PublishingPreservesAdmission
<1>. SUFFICES ASSUME Published, ~shared, pc \in {"choose", "dispatched"},
                     NEW n \in DOMAIN backends
              PROVE  LET direct == fromSubmitter(n, devices[n])
                     IN  usable(n) <=> isOnline(direct) /\ canRun(direct, task)
  BY Zenon DEF PublishingPreservesAdmission
<1>. DEFINE direct == fromSubmitter(n, devices[n])
<1>1. backends[n] = fromPublishedStatus(toBackend(direct))
  BY Zenon DEF Published, registerPublished, registerOwnDevice
<1>. HIDE DEF direct
<1>2. /\ backends[n].name = direct.name /\ backends[n].numQubits = direct.numQubits
      /\ backends[n].status = mapProtoBackendStatus(direct.status)
      /\ backends[n].formats = {mapProtoCircuitFormat(f) : f \in direct.formats}
  BY <1>1, Rebuilt, Zenon
<1>3. isOnline(backends[n]) <=> isOnline(direct)
  BY <1>2, NormalisedStatus, Zenon DEF isOnline
<1>4. canPrepareTaskForBackend(task, backends[n].formats)
        <=> canPrepareTaskForBackend(task, direct.formats)
  BY <1>2, NormalisedFormats, Zenon
<1>5. canRun(backends[n], task) <=> canRun(direct, task)
  BY <1>2, <1>4, Zenon DEF canRun
<1>. QED  BY <1>3, <1>5, Zenon DEF usable, direct

\* Whatever enumerators a device or a newer build of its worker uses, the
\* selector admits a task to a published backend exactly when the worker's
\* own reading would.
THEOREM PublicationIsFaithful == Spec => []PublishingPreservesAdmission
BY InitPublished, NextPublished, PublishedAdmits, PTL DEF Spec

(***************************************************************************)
(* The backends of a registry.                                             *)
(***************************************************************************)

\* A 32-bit count is not more than what was counted.
LEMMA Narrowed ==
  ASSUME NEW q \in Nat
  PROVE  q % UInt32Range \in 0..UInt32Range-1 /\ q % UInt32Range <= q
BY WidthAssumption

Answered(d) == \A n \in DOMAIN d : d[n] \in Readings

\* Backends under their own names, with the counts that were read.
Counted(b, d) ==
  \A n \in DOMAIN b : /\ b[n].name = n
                      /\ b[n].numQubits = d[n].qubitsNum % UInt32Range
                      /\ b[n].numQubits \in 0..UInt32Range-1

OwnRegistry(b, d) ==
  /\ DOMAIN b = {n \in DOMAIN d : readable(d[n])}
  /\ \A n \in DOMAIN b : b[n] = fromSubmitter(n, d[n]) /\ b[n].formats = d[n].formats
  /\ Counted(b, d)

PublishedRegistry(b, d) ==
  /\ DOMAIN b = {n \in DOMAIN d : readable(d[n]) /\ n # NoName /\ d[n].queue # ""}
  /\ \A n \in DOMAIN b : /\ b[n].status \in BackendStatuses
                         /\ b[n].formats \subseteq CircuitFormats
  /\ Counted(b, d)

LEMMA OwnBackends ==
  ASSUME NEW d, Answered(d)
  PROVE  OwnRegistry(registerOwnDevice(d), d)
<1>1. \A n \in DOMAIN d : d[n].qubitsNum % UInt32Range \in 0..UInt32Range-1
  BY Narrowed, Zenon DEF Readings, Answered
<1>. QED  BY <1>1, Zenon DEF registerOwnDevice, fromSubmitter, OwnRegistry, Counted

LEMMA PublishedBackends ==
  ASSUME NEW d, Answered(d)
  PROVE  PublishedRegistry(registerPublished(d), d)
<1>. DEFINE direct == registerOwnDevice(d)
            pub == registerPublished(d)
<1>1. OwnRegistry(direct, d)
  BY OwnBackends, Zenon
<1>2. \A x : /\ mapProtoBackendStatus(x) \in BackendStatuses
             /\ mapProtoCircuitFormat(x) \in CircuitFormats
  BY Zenon DEF mapProtoBackendStatus, mapProtoCircuitFormat, BackendStatuses, CircuitFormats
<1>3. pub = [n \in {n \in DOMAIN direct : valid(toBackend(direct[n]))} |->
               fromPublishedStatus(toBackend(direct[n]))]
  BY Zenon DEF registerPublished
<1>. HIDE DEF direct, pub
<1>4. ASSUME NEW n \in DOMAIN direct
      PROVE  /\ toBackend(direct[n]).name = n /\ toBackend(direct[n]).queue_name = d[n].queue
             /\ toBackend(direct[n]).num_qubits = d[n].qubitsNum % UInt32Range
             /\ toBackend(direct[n]).num_qubits \in 0..UInt32Range-1
  BY <1>1 DEF OwnRegistry, Counted, toBackend, fromSubmitter
<1>5. DOMAIN pub = {n \in DOMAIN direct : n # NoName /\ d[n].queue # ""}
  BY <1>3, <1>4, Zenon DEF valid
<1>6. DOMAIN pub = {n \in DOMAIN d : readable(d[n]) /\ n # NoName /\ d[n].queue # ""}
  BY <1>1, <1>5, Zenon DEF OwnRegistry
<1>7. ASSUME NEW n \in DOMAIN pub
      PROVE  /\ pub[n].name = n /\ pub[n].numQubits = d[n].qubitsNum % UInt32Range
             /\ pub[n].numQubits \in 0..UInt32Range-1
             /\ pub[n].status \in BackendStatuses /\ pub[n].formats \subseteq CircuitFormats
  <2>1. n \in DOMAIN direct /\ pub[n] = fromPublishedStatus(toBackend(direct[n]))
    BY <1>3, <1>5, Zenon
  <2>. QED  BY <1>2, <1>4, <2>1 DEF fromPublishedStatus
<1>8. PublishedRegistry(pub, d)
  BY <1>6, <1>7, Zenon DEF PublishedRegistry, Counted
<1>. QED  BY <1>8, Zenon DEF pub

(***************************************************************************)
(* Selection.                                                              *)
(***************************************************************************)

\* The inputs keep their types, and the registry that is chosen from, or
\* looked up in, was made from devices.
Sourced ==
  /\ arrived \in Tasks /\ shared \in BOOLEAN /\ policy \in Policies
  /\ DOMAIN devices \subseteq Names \cup {NoName}
  /\ Answered(devices) /\ Registered
  /\ shared \/ pc \in {"lookup", "compile", "scheduled"} => backends = registerOwnDevice(devices)
  /\ Published

\* What canPrepareTaskForBackend() decides, without its helpers.
Preparable(t, formats) ==
  \/ /\ t.noModify /\ t.type # "other"
     /\ mapTaskCircuitTypeToCircuitFormat(t.type) \in formats
  \/ /\ ~t.noModify
     /\ \/ t.type = "quake" /\ "cudaq-quake" \in SupportedInputFormats
        \/ t.type = "catalyst" /\ "catalyst-quantum" \in SupportedInputFormats
     /\ {"IQMJSON", "QASM2", "QIRBASESTRING", "QIRADAPTIVESTRING"} \cap formats # {}

LEMMA TargetsExist ==
  ASSUME NEW formats
  PROVE  usableTargets(formats) # {}
           <=> {"IQMJSON", "QASM2", "QIRBASESTRING", "QIRADAPTIVESTRING"} \cap formats # {}
<1>1. /\ DOMAIN CompilerTargetPriority = 1..4
      /\ CompilerTargetPriority[1].circuitFormat = "IQMJSON"
      /\ CompilerTargetPriority[2].circuitFormat = "QASM2"
      /\ CompilerTargetPriority[3].circuitFormat = "QIRBASESTRING"
      /\ CompilerTargetPriority[4].circuitFormat = "QIRADAPTIVESTRING"
  BY DEF CompilerTargetPriority, Target
<1>2. \A i \in 1..4 : i = 1 \/ i = 2 \/ i = 3 \/ i = 4
  OBVIOUS
<1>. QED  BY <1>1, <1>2 DEF usableTargets

LEMMA PreparableIs ==
  ASSUME NEW t \in Tasks, NEW formats
  PROVE  canPrepareTaskForBackend(t, formats) <=> Preparable(t, formats)
<1>1. t.type \in CircuitTypes /\ t.noModify \in BOOLEAN
  BY Zenon DEF Tasks
<1>2. mapTaskCircuitTypeToCircuitFormat(t.type) # "UNSPECIFIED" <=> t.type # "other"
  BY <1>1, Zenon DEF CircuitTypes, mapTaskCircuitTypeToCircuitFormat
<1>3. validateInputFormatIsSupportedCircuitFormat(t.type)
        <=> \/ t.type = "quake" /\ "cudaq-quake" \in SupportedInputFormats
            \/ t.type = "catalyst" /\ "catalyst-quantum" \in SupportedInputFormats
  BY DEF validateInputFormatIsSupportedCircuitFormat, CompilerInputFormat
<1>. QED  BY <1>1, <1>2, <1>3, TargetsExist, Zenon DEF canPrepareTaskForBackend, Preparable

\* While a task is chosen for, the usable backends are the suitable devices.
LEMMA UsableIsSuitable ==
  ASSUME Sourced, pc = "choose", task = arrived, NEW n \in Names
  PROVE  /\ usable(n) <=> n \in Suitable
         /\ n \in Suitable => backends[n].numQubits = Size(n)
<1>. DEFINE direct == fromSubmitter(n, devices[n])
            Found == n \in DOMAIN devices /\ readable(devices[n])
                       /\ (~shared => devices[n].queue # "")
<1>1. n # NoName /\ arrived \in Tasks
  BY PreparationAssumption DEF Names, NoName, Sourced
<1>2. /\ shared => OwnRegistry(backends, devices)
      /\ ~shared => PublishedRegistry(backends, devices)
  BY OwnBackends, PublishedBackends, Zenon DEF Sourced, Published
<1>3. n \in DOMAIN backends <=> Found
  BY <1>1, <1>2, Zenon DEF OwnRegistry, PublishedRegistry
<1>0. ASSUME n \in DOMAIN backends
      PROVE  /\ usable(n) <=> isOnline(direct) /\ canRun(direct, arrived)
             /\ backends[n].numQubits = Size(n)
  <2>1. backends[n].numQubits = Size(n)
    BY <1>0, <1>2, Zenon DEF OwnRegistry, PublishedRegistry, Counted, Size, Sourced
  <2>2. CASE shared
    <3>1. backends[n] = direct
      BY <1>0, <1>2, <2>2, Zenon DEF OwnRegistry
    <3>. HIDE DEF direct
    <3>. QED  BY <1>0, <2>1, <3>1, Zenon DEF usable
  <2>3. CASE ~shared
    <3>1. usable(n) <=> isOnline(direct) /\ canRun(direct, task)
      BY <1>0, <2>3, PublishedAdmits, Zenon DEF Sourced, PublishingPreservesAdmission
    <3>. QED  BY <2>1, <3>1, Zenon
  <2>. QED  BY <2>2, <2>3, Zenon
<1>4. ASSUME Found
      PROVE  /\ direct.name = n /\ direct.numQubits = Size(n) /\ Size(n) \in Nat
             /\ direct.status = devices[n].status /\ direct.formats = devices[n].formats
  <2>1. devices[n].qubitsNum \in Nat
    BY <1>4, Zenon DEF Sourced, Answered, Readings
  <2>2. Size(n) \in Nat
    BY <2>1, Narrowed DEF Size
  <2>. QED  BY <2>2, Zenon DEF fromSubmitter, Size
<1>5. Found => (canPrepareTaskForBackend(arrived, direct.formats)
                  <=> Preparable(arrived, devices[n].formats))
  BY <1>1, <1>4, PreparableIs, Zenon
<1>6. n \in Suitable
        <=> /\ Found /\ devices[n].status \in {"IDLE", "BUSY"}
            /\ arrived.nQbits \in 0..Size(n)
            /\ arrived.restricted = {} \/ n \in arrived.restricted
            /\ Preparable(arrived, devices[n].formats)
  BY <1>1, Zenon DEF Suitable, Preparable, readable
<1>. HIDE DEF direct, Found
<1>7. Found => (isOnline(direct) /\ canRun(direct, arrived)
                  <=> /\ devices[n].status \in {"IDLE", "BUSY"}
                      /\ arrived.nQbits \in 0..Size(n)
                      /\ arrived.restricted = {} \/ n \in arrived.restricted
                      /\ Preparable(arrived, devices[n].formats))
  <2>1. arrived.nQbits \in Int
    BY <1>1, Zenon DEF Tasks
  <2>. QED  BY <1>4, <1>5, <2>1 DEF isOnline, isOnlineBackendStatus, canRun
<1>. QED  BY <1>0, <1>3, <1>6, <1>7, Zenon DEF usable

(***************************************************************************)
(* From selection to the scheduler.                                        *)
(***************************************************************************)

\* How far the task is, and what it carries then.
Progress ==
  /\ pc \in {"choose", "dispatched", "lookup", "compile", "scheduled", "failed"}
  /\ pc = "choose" => task = arrived
  /\ pc = "dispatched" => ~shared
  /\ pc \in {"dispatched", "lookup", "compile", "scheduled"} => task.scheduled # NoName
  /\ pc # "failed" => failure = "none"
  /\ failure \in {"none", "NoBackendAvailable", "UnsupportedFormat", "InvalidLevel",
                  "EmptyCircuit", "CompilerFailed"}
  /\ task.scheduled \in Names \cup {NoName} /\ task.type \in CircuitTypes
  /\ Len(staging) <= Len(task.circuits)

\* The reading the choice was made on is complete and admits the task, and a
\* task is compiled only for a backend with a target.
Admitted ==
  /\ choice = NoReading \/ choice \in Readings
  /\ task.scheduled # NoName
       => readable(choice) /\ canPrepareTaskForBackend(arrived, choice.formats)
  /\ pc = "compile"
       => /\ task.scheduled \in DOMAIN backends
          /\ hasCompilerTarget(backends[task.scheduled])

PInv ==
  /\ Staged /\ Sourced /\ Progress /\ Admitted
  /\ ChosenIsBest /\ ScheduledFormatIsSupported /\ AdmissionIsSound

LEMMA ChoiceIs ==
  ASSUME Registered, task.preferred \in Nat, NEW c, c = chooseBackend
  PROVE  /\ c \in Names \cup {NoName}
         /\ c = NoName => \A m \in Names : ~usable(m)
         /\ c # NoName => usable(c)
         /\ task.preferred # NoName /\ usable(task.preferred) => c = task.preferred
         /\ c # NoName /\ ~(task.preferred # NoName /\ usable(task.preferred))
              => \A m \in Names : usable(m) /\ m # c => beatsIncumbent(c, m)
<1>1. \A m : usable(m) => m \in Names
  BY Zenon DEF usable, Registered
<1>2. CASE task.preferred # NoName /\ usable(task.preferred)
  BY <1>1, <1>2, Zenon DEF chooseBackend
<1>3. CASE ~(task.preferred # NoName /\ usable(task.preferred))
  <2>1. c = chosen[MaxName]
    BY <1>3, Zenon DEF chooseBackend
  <2>2. Best(MaxName, c)
    BY <2>1, ScanBest, Zenon
  <2>3. c \in Names \cup {NoName}
    BY <2>2, PreparationAssumption DEF Best, Names, NoName
  <2>. QED  BY <1>3, <2>2, <2>3, Zenon DEF Best, Names
<1>. QED  BY <1>2, <1>3, Zenon

\* The better of two suitable devices, as ChosenIsBest states it.
LEMMA BeatsIsBetter ==
  ASSUME policy \in Policies, NEW a \in Names, NEW b \in Names, beatsIncumbent(a, b),
         backends[a].numQubits = Size(a), backends[b].numQubits = Size(b)
  PROVE  Better(a, b)
<1>1. CASE policy = "LowestName"
  <2>1. a < b /\ Rank(a) = 0 /\ Rank(b) = 0
    BY <1>1, Zenon DEF beatsIncumbent, Rank
  <2>. QED  BY <2>1, Zenon DEF Better
<1>2. CASE policy = "SmallestSufficient"
  <2>1. Rank(a) = Size(a) /\ Rank(b) = Size(b)
    BY <1>2, Zenon DEF Rank
  <2>2. Size(a) < Size(b) \/ (Size(a) = Size(b) /\ a < b)
    BY <1>2, Zenon DEF beatsIncumbent
  <2>. QED  BY <2>1, <2>2, Zenon DEF Better
<1>. QED  BY <1>1, <1>2, Zenon DEF Policies

LEMMA ChooseBest ==
  ASSUME Sourced, Progress, pc = "choose", Choose
  PROVE  ChosenIsBest'
<1>. DEFINE c == chooseBackend
<1>1. /\ task = arrived /\ arrived \in Tasks /\ Registered /\ policy \in Policies
  BY Zenon DEF Progress, Sourced
<1>2. UNCHANGED <<arrived, shared, policy, devices>>
  BY Zenon DEF Choose, inputVars
<1>3. Suitable' = Suitable /\ \A n : Size(n)' = Size(n)
  BY <1>2 DEF Suitable, Size
<1>4. /\ task.preferred \in Nat /\ arrived.scheduled = NoName
      /\ \A name : [task EXCEPT !.scheduled = name].scheduled = name
  BY <1>1, Zenon DEF Tasks
<1>5. \A n \in Names : (usable(n) <=> n \in Suitable)
                          /\ (n \in Suitable => backends[n].numQubits = Size(n))
  BY <1>1, UsableIsSuitable, Zenon
<1>6. Suitable \subseteq Names
  BY Zenon DEF Suitable, Sourced
<1>7. \A a, b : Better(a, b)' = Better(a, b)
  BY <1>2, <1>3, Zenon DEF Better, Rank
<1>. HIDE DEF c
<1>8. CASE c = NoName
  <2>1. Suitable = {}
    BY <1>1, <1>4, <1>5, <1>6, <1>8, ChoiceIs DEF c
  <2>2. task'.scheduled = NoName
    BY <1>1, <1>4, <1>8, Zenon DEF Choose, c
  <2>. QED  BY <1>3, <2>1, <2>2, Zenon DEF ChosenIsBest
<1>9. CASE c # NoName
  <2>1. task'.scheduled = c /\ arrived' = arrived
    BY <1>2, <1>4, <1>9, Zenon DEF Choose, c
  <2>2. c \in Names /\ c \in Suitable
    BY <1>1, <1>4, <1>5, <1>9, ChoiceIs, Zenon DEF c
  <2>3. arrived.nQbits <= devices[c].qubitsNum
    <3>1. arrived.nQbits \in 0..Size(c) /\ devices[c].qubitsNum \in Nat
      BY <2>2, Zenon DEF Sourced, Answered, Suitable, Readings
    <3>. QED  BY <3>1, Narrowed DEF Size
  <2>4. arrived.preferred \in Suitable => c = arrived.preferred
    BY <1>1, <1>4, <1>5, <1>6, <1>9, ChoiceIs, Zenon DEF c, Suitable
  <2>5. ASSUME arrived.preferred \notin Suitable, NEW n \in Suitable \ {c}
        PROVE  Better(c, n)
    <3>1. ~(task.preferred # NoName /\ usable(task.preferred))
      BY <1>1, <1>5, <2>5, Zenon DEF usable, Registered
    <3>2. beatsIncumbent(c, n)
      BY <1>1, <1>4, <1>5, <1>6, <1>9, <2>5, <3>1, ChoiceIs, Zenon DEF c
    <3>. QED  BY <1>1, <1>5, <1>6, <2>2, <2>5, <3>2, BeatsIsBetter, Zenon
  <2>. QED  BY <1>2, <1>3, <1>7, <1>9, <2>1, <2>2, <2>3, <2>4, <2>5, Zenon DEF ChosenIsBest
<1>. QED  BY <1>8, <1>9, Zenon

LEMMA ChosenStays ==
  ASSUME ChosenIsBest, UNCHANGED <<arrived, shared, policy, devices>>,
         task'.scheduled = task.scheduled, task.scheduled # NoName, pc' # "dispatched"
  PROVE  ChosenIsBest'
<1>1. Suitable' = Suitable
  BY DEF Suitable, Size
<1>2. \A a, b : Better(a, b)' = Better(a, b)
  BY Zenon DEF Better, Rank, Size
<1>. QED  BY <1>1, <1>2, Zenon DEF ChosenIsBest

\* A registry of own devices, all with names, is well formed.
LEMMA OwnRegistered ==
  ASSUME NEW d, DOMAIN d \subseteq Names
  PROVE  /\ OwnRegistry(backends, d) => Registered
         /\ OwnRegistry(backends', d) => Registered'
BY Zenon DEF OwnRegistry, Counted, Registered

LEMMA InitPInv == Init => PInv
<1>. SUFFICES ASSUME Init PROVE PInv
  BY Zenon
<1>1. PICK input \in Inputs :
        /\ task = input.task /\ arrived = input.task
        /\ devices = input.devices /\ shared = input.shared
        /\ backends = IF shared THEN registerOwnDevice(devices)
                      ELSE registerPublished(devices)
  BY Zenon DEF Init
<1>2. /\ arrived \in Tasks /\ task = arrived /\ shared \in BOOLEAN
      /\ DOMAIN devices \subseteq Names \cup {NoName}
      /\ Answered(devices) /\ (shared => NoName \notin DOMAIN devices)
  BY <1>1, PreparationAssumption, Zenon DEF Answered
<1>3. Registered
  <2>1. CASE shared
    <3>1. OwnRegistry(backends, devices) /\ DOMAIN devices \subseteq Names
      BY <1>1, <1>2, <2>1, OwnBackends, Zenon
    <3>. QED  BY <3>1, OwnRegistered, Zenon
  <2>2. CASE ~shared
    <3>1. PublishedRegistry(backends, devices)
      BY <1>1, <1>2, <2>2, PublishedBackends, Zenon
    <3>. QED  BY <1>2, <3>1, Zenon DEF PublishedRegistry, Counted, Registered
  <2>. QED  BY <2>1, <2>2, Zenon
<1>4. Sourced
  BY <1>1, <1>2, <1>3, InitPublished, Zenon DEF Sourced, Init
<1>5. task.scheduled = NoName /\ task.type \in CircuitTypes /\ Len(task.circuits) \in Nat
  BY <1>2 DEF Tasks
<1>6. Progress
  BY <1>2, <1>5 DEF Progress, Init
<1>7. ChosenIsBest
  BY <1>5, Zenon DEF Init, ChosenIsBest
<1>8. Admitted /\ ScheduledFormatIsSupported /\ AdmissionIsSound
  BY <1>5, Zenon DEF Init, Admitted, ScheduledFormatIsSupported, AdmissionIsSound
<1>. QED  BY <1>4, <1>6, <1>7, <1>8, InitStaged, Zenon DEF PInv

\* What does not change the registry, its sources or the task keeps them.
LEMMA SourcedStays ==
  ASSUME Sourced, Next, UNCHANGED <<arrived, shared, policy, devices, backends>>,
         pc' \in {"lookup", "compile", "scheduled"} => shared \/ pc \in {"lookup", "compile"}
  PROVE  Sourced'
<1>1. Published'
  BY NextPublished, Zenon DEF Sourced
<1>2. Registered'
  BY Zenon DEF Sourced, Registered
<1>. QED  BY <1>1, <1>2, Zenon DEF Sourced

LEMMA ChooseKeeps == PInv /\ Choose => PInv'
<1>. SUFFICES ASSUME PInv, Choose PROVE PInv'
  BY Zenon
<1>. DEFINE c == chooseBackend
<1>1. /\ Sourced /\ Progress /\ Admitted /\ task = arrived /\ arrived \in Tasks
      /\ pc = "choose" /\ failure = "none"
  BY Zenon DEF PInv, Sourced, Progress, Choose
<1>2. UNCHANGED <<arrived, shared, policy, devices, backends, staging>>
  BY Zenon DEF Choose, inputVars
<1>3. Staged' /\ ChosenIsBest'
  BY <1>1, ChooseBest, NextStaged, Zenon DEF PInv, Next
<1>4. /\ task.scheduled = NoName /\ task.type \in CircuitTypes
      /\ \A name : /\ [task EXCEPT !.scheduled = name].scheduled = name
                   /\ [task EXCEPT !.scheduled = name].type = task.type
                   /\ [task EXCEPT !.scheduled = name].circuits = task.circuits
  BY <1>1, Zenon DEF Tasks
<1>5. c \in Names \cup {NoName} /\ (c # NoName => usable(c))
  BY <1>1, ChoiceIs, Zenon DEF Sourced, Tasks
<1>. HIDE DEF c
<1>6. CASE c = NoName
  <2>1. /\ UNCHANGED <<task, choice>> /\ pc' = "failed" /\ failure' = "NoBackendAvailable"
    BY <1>6, Zenon DEF Choose, Fail, c
  <2>2. Sourced'
    BY <1>1, <1>2, <2>1, SourcedStays, Zenon DEF Next
  <2>3. Progress'
    BY <1>1, <1>2, <1>4, <2>1, Zenon DEF Progress
  <2>4. Admitted' /\ ScheduledFormatIsSupported' /\ AdmissionIsSound'
    BY <1>1, <1>4, <2>1, Zenon DEF Admitted, ScheduledFormatIsSupported, AdmissionIsSound
  <2>. QED  BY <1>3, <2>2, <2>3, <2>4, Zenon DEF PInv
<1>7. CASE c # NoName
  <2>1. /\ task' = [task EXCEPT !.scheduled = c] /\ choice' = devices[c]
        /\ pc' = (IF shared THEN "lookup" ELSE "dispatched") /\ failure' = "none"
    BY <1>1, <1>7, Zenon DEF Choose, c
  <2>2. /\ task'.scheduled = c /\ task'.type = task.type /\ task'.circuits = task.circuits
    BY <1>4, <2>1, Zenon
  <2>3. c \in Suitable
    BY <1>1, <1>5, <1>7, UsableIsSuitable, Zenon
  <2>4. c \in DOMAIN devices /\ devices[c] \in Readings /\ readable(devices[c])
    BY <1>1, <2>3, Zenon DEF Suitable, readable, Sourced, Answered
  <2>5. canPrepareTaskForBackend(arrived, devices[c].formats)
    <3>1. Preparable(arrived, devices[c].formats)
      BY <2>3, Zenon DEF Suitable, Preparable
    <3>. QED  BY <1>1, <3>1, PreparableIs, Zenon
  <2>6. Sourced'
    BY <1>1, <1>2, <2>1, SourcedStays, Zenon DEF Next
  <2>7. Progress'
    BY <1>1, <1>2, <1>4, <1>5, <1>7, <2>1, <2>2, Zenon DEF Progress, Sourced
  <2>8. Admitted'
    BY <1>2, <2>1, <2>2, <2>4, <2>5, Zenon DEF Admitted
  <2>9. ScheduledFormatIsSupported' /\ AdmissionIsSound'
    BY <1>2, <2>1, <2>2, <2>4, Zenon
    DEF ScheduledFormatIsSupported, AdmissionIsSound, SameReading
  <2>. QED  BY <1>3, <2>6, <2>7, <2>8, <2>9, Zenon DEF PInv
<1>. QED  BY <1>6, <1>7, Zenon

LEMMA DispatchKeeps == PInv /\ Dispatch => PInv'
<1>. SUFFICES ASSUME PInv, Dispatch PROVE PInv'
  BY Zenon
<1>1. /\ Sourced /\ Progress /\ Admitted /\ ~shared /\ pc = "dispatched"
      /\ failure = "none" /\ task.scheduled # NoName
  BY Zenon DEF PInv, Progress, Dispatch
<1>2. /\ UNCHANGED <<task, arrived, shared, policy, choice, staging, failure>>
      /\ pc' = "lookup" /\ backends' = registerOwnDevice(devices')
  BY Zenon DEF Dispatch, inputVars
<1>3. Staged' /\ Published'
  BY <1>1, NextStaged, NextPublished, Zenon DEF PInv, Sourced, Next
<1>4. DOMAIN devices' \subseteq Names /\ Answered(devices')
  <2>1. PICK direct \in Names, r \in WorkerReadings :
          devices' \in {[n \in {direct} |-> r], [n \in {} |-> r]}
    BY Zenon DEF Dispatch
  <2>. QED  BY <2>1, PreparationAssumption, Zenon DEF Answered
<1>5. Registered'
  BY <1>2, <1>4, OwnBackends, OwnRegistered, Zenon
<1>6. Sourced'
  BY <1>1, <1>2, <1>3, <1>4, <1>5, Zenon DEF Sourced
<1>7. Progress'
  BY <1>1, <1>2, Zenon DEF Progress
<1>8. Admitted'
  BY <1>1, <1>2, Zenon DEF Admitted
<1>9. ChosenIsBest' /\ ScheduledFormatIsSupported' /\ AdmissionIsSound'
  BY <1>1, <1>2, Zenon DEF ChosenIsBest, ScheduledFormatIsSupported, AdmissionIsSound
<1>. QED  BY <1>3, <1>6, <1>7, <1>8, <1>9, Zenon DEF PInv

\* The backend found by a lookup of the same reading admits the task.
LEMMA FoundAdmits ==
  ASSUME PInv, pc = "lookup", SameReading
  PROVE  /\ task.scheduled \in DOMAIN backends
         /\ canPrepareTaskForBackend(arrived, backends[task.scheduled].formats)
<1>1. OwnRegistry(backends, devices) /\ task.scheduled # NoName
  BY OwnBackends, Zenon DEF PInv, Sourced, Progress
<1>. QED  BY <1>1, Zenon DEF PInv, Admitted, SameReading, OwnRegistry

LEMMA LookupKeeps == PInv /\ Lookup => PInv'
<1>. SUFFICES ASSUME PInv, Lookup PROVE PInv'
  BY Zenon
<1>. DEFINE b == backends[task.scheduled]
<1>1. /\ Sourced /\ Progress /\ Admitted /\ pc = "lookup" /\ failure = "none"
      /\ task.scheduled # NoName /\ arrived \in Tasks /\ Untouched
  BY Zenon DEF PInv, Progress, Lookup, Sourced, Staged
<1>2. UNCHANGED <<task, arrived, shared, policy, devices, backends, choice, staging>>
  BY Zenon DEF Lookup, inputVars
<1>3. task.noModify = arrived.noModify /\ task.type = arrived.type
  BY <1>1, Zenon DEF Untouched, Tasks
<1>4. \/ /\ pc' = "failed" /\ failure' = "NoBackendAvailable"
         /\ task.scheduled \notin DOMAIN backends
      \/ /\ pc' = "scheduled" /\ failure' = "none" /\ task.noModify
      \/ /\ pc' = "failed" /\ failure' = compileError(b) /\ compileError(b) # "none"
         /\ ~task.noModify
      \/ /\ pc' = "compile" /\ failure' = "none" /\ compileError(b) = "none"
         /\ task.scheduled \in DOMAIN backends
  BY <1>1, Zenon DEF Lookup, Fail
<1>5. /\ compileError(b) \in {"none", "UnsupportedFormat", "InvalidLevel"}
      /\ compileError(b) = "none" => hasCompilerTarget(b)
      /\ compileError(b) = "InvalidLevel" => arrived.level \notin 0..3
      /\ ~task.noModify /\ canPrepareTaskForBackend(arrived, b.formats)
           => compileError(b) # "UnsupportedFormat"
  BY <1>1, <1>3, CompileErrorFacts, Zenon DEF canPrepareTaskForBackend, hasCompilerTarget
<1>. HIDE DEF b
<1>6. Staged' /\ Sourced'
  BY <1>1, <1>2, <1>4, NextStaged, SourcedStays, Zenon DEF PInv, Next
<1>7. Progress'
  BY <1>1, <1>2, <1>4, <1>5, Zenon DEF Progress
<1>8. Admitted'
  BY <1>1, <1>2, <1>4, <1>5, Zenon DEF Admitted, b
<1>9. ChosenIsBest'
  BY <1>1, <1>2, <1>4, ChosenStays, Zenon DEF PInv
<1>10. ScheduledFormatIsSupported'
  BY <1>2, <1>3, <1>4, FoundAdmits, <1>1, Zenon
  DEF ScheduledFormatIsSupported, SameReading, canPrepareTaskForBackend
<1>11. AdmissionIsSound'
  BY <1>1, <1>2, <1>3, <1>4, <1>5, FoundAdmits, Zenon
  DEF PInv, AdmissionIsSound, SameReading, b
<1>. QED  BY <1>6, <1>7, <1>8, <1>9, <1>10, <1>11, Zenon DEF PInv

LEMMA CompileKeeps == PInv /\ CompileCircuit => PInv'
<1>. SUFFICES ASSUME PInv, CompileCircuit PROVE PInv'
  BY Zenon
<1>1. /\ Sourced /\ Progress /\ Admitted /\ pc = "compile" /\ failure = "none"
      /\ task.scheduled # NoName /\ staging \in Seq({"compiled"})
  BY Zenon DEF PInv, Progress, CompileCircuit, Staged
<1>2. UNCHANGED <<task, arrived, shared, policy, devices, backends, choice>>
  BY Zenon DEF CompileCircuit, inputVars
<1>3. \/ pc' = "compile" /\ failure' = "none"
      \/ pc' = "failed" /\ failure' = "CompilerFailed"
      \/ /\ pc' = "failed" /\ failure' = "EmptyCircuit"
         /\ Len(staging) < Len(task.circuits)
         /\ task.circuits[Len(staging) + 1] = "empty"
  BY <1>1, Zenon DEF CompileCircuit, Fail
<1>4. Len(staging') <= Len(task.circuits)
  BY <1>1 DEF CompileCircuit, Progress
<1>5. Staged' /\ Sourced'
  BY <1>1, <1>2, <1>3, NextStaged, SourcedStays, Zenon DEF PInv, Next
<1>6. Progress'
  BY <1>1, <1>2, <1>3, <1>4, Zenon DEF Progress
<1>7. Admitted'
  BY <1>1, <1>2, <1>3, Zenon DEF Admitted
<1>8. ChosenIsBest'
  BY <1>1, <1>2, <1>3, ChosenStays, Zenon DEF PInv
<1>9. failure' = "EmptyCircuit"
        => \E i \in DOMAIN arrived.circuits : arrived.circuits[i] = "empty"
  <2>. SUFFICES ASSUME failure' = "EmptyCircuit"
                PROVE  \E i \in DOMAIN arrived.circuits : arrived.circuits[i] = "empty"
    BY Zenon
  <2>1. /\ Len(staging) < Len(task.circuits) /\ task.circuits = arrived.circuits
        /\ task.circuits[Len(staging) + 1] = "empty"
    BY <1>1, <1>3, UntouchedFacts, Zenon DEF PInv, Staged
  <2>2. arrived.circuits \in Seq({"source", "empty"}) /\ Len(staging) \in Nat
    BY <1>1 DEF PInv, Staged, Tasks
  <2>3. Len(staging) + 1 \in DOMAIN arrived.circuits
    BY <2>1, <2>2
  <2>. QED  BY <2>1, <2>3, Zenon
<1>10. ScheduledFormatIsSupported' /\ AdmissionIsSound'
  BY <1>1, <1>2, <1>3, <1>9, Zenon
  DEF PInv, Staged, ScheduledFormatIsSupported, AdmissionIsSound, SameReading
<1>. QED  BY <1>5, <1>6, <1>7, <1>8, <1>10, Zenon DEF PInv

LEMMA CommitKeeps == PInv /\ CompileCommit => PInv'
<1>. SUFFICES ASSUME PInv, CompileCommit PROVE PInv'
  BY Zenon
<1>. DEFINE target == compilerTarget(backends[task.scheduled])
            formats == backends[task.scheduled].formats
<1>1. /\ Sourced /\ Progress /\ Admitted /\ pc = "compile" /\ failure = "none"
      /\ task.scheduled # NoName /\ staging \in Seq({"compiled"})
      /\ arrived \in Tasks /\ Untouched
  BY Zenon DEF PInv, Progress, CompileCommit, Staged
<1>2. /\ UNCHANGED <<arrived, shared, policy, devices, backends, choice, staging, failure>>
      /\ pc' = "scheduled"
      /\ task' = [task EXCEPT !.circuits = staging, !.type = target.taskCircuitType]
  BY Zenon DEF CompileCommit, inputVars
<1>3. /\ target.circuitFormat \in formats /\ target.circuitFormat # "UNSPECIFIED"
      /\ target.taskCircuitType \in CircuitTypes
      /\ target.taskCircuitType = FirstAccepted(formats)
      /\ mapTaskCircuitTypeToCircuitFormat(target.taskCircuitType) = target.circuitFormat
  <2>1. usableTargets(formats) # {} /\ target = chooseCompilerTarget(formats)
    BY <1>1, Zenon DEF Admitted, hasCompilerTarget, compilerTarget
  <2>. HIDE DEF target, formats
  <2>. QED  BY <2>1, ChosenTarget, Zenon DEF CircuitTypes
<1>. HIDE DEF target
<1>4. /\ task'.circuits = staging /\ task'.type = target.taskCircuitType
      /\ task'.scheduled = task.scheduled /\ task'.noModify = task.noModify
  BY <1>1, <1>2, Zenon DEF Untouched, Tasks
<1>5. Staged' /\ Sourced'
  BY <1>1, <1>2, NextStaged, SourcedStays, Zenon DEF PInv, Next
<1>6. Progress'
  <2>1. Len(staging) \in Nat
    BY <1>1
  <2>. QED  BY <1>1, <1>2, <1>3, <1>4, <2>1 DEF Progress
<1>7. Admitted'
  BY <1>1, <1>2, <1>4, Zenon DEF Admitted
<1>8. ChosenIsBest'
  BY <1>1, <1>2, <1>4, ChosenStays, Zenon DEF PInv
<1>9. ScheduledFormatIsSupported'
  BY <1>2, <1>3, <1>4, Zenon DEF ScheduledFormatIsSupported
<1>10. AdmissionIsSound'
  BY <1>1, <1>2, <1>4, <1>5, Zenon DEF PInv, Staged, AdmissionIsSound, SameReading
<1>. QED  BY <1>5, <1>6, <1>7, <1>8, <1>9, <1>10, Zenon DEF PInv

LEMMA NextPInv == PInv /\ [Next]_vars => PInv'
<1>. SUFFICES ASSUME PInv, UNCHANGED vars PROVE PInv'
  BY ChooseKeeps, DispatchKeeps, LookupKeeps, CompileKeeps, CommitKeeps, Zenon DEF Next, Done
<1>1. Staged'
  BY NextStaged, Zenon DEF PInv
<1>2. Sourced' /\ Progress' /\ Admitted'
  BY Zenon DEF PInv, vars, Sourced, Registered, Published, Progress, Admitted
<1>3. ChosenIsBest'
  <2>1. Suitable' = Suitable /\ \A a, b : Better(a, b)' = Better(a, b)
    BY DEF vars, Suitable, Size, Better, Rank
  <2>. QED  BY <2>1, Zenon DEF PInv, vars, ChosenIsBest
<1>4. ScheduledFormatIsSupported' /\ AdmissionIsSound'
  BY Zenon DEF PInv, vars, ScheduledFormatIsSupported, AdmissionIsSound, SameReading
<1>. QED  BY <1>1, <1>2, <1>3, <1>4, Zenon DEF PInv

\* The invariant holds of every task's preparation.
THEOREM Prepared == Spec => []PInv
BY InitPInv, NextPInv, PTL DEF Spec

\* Registries hold backends under their own names with counts of the width,
\* and what a task carries keeps its type from selection to the scheduler.
THEOREM PreparationTypes == Spec => []TypeOK
<1>1. PInv => TypeOK
  <2>. SUFFICES ASSUME PInv PROVE TypeOK
    BY Zenon
  <2>1. ASSUME ~shared, pc \in {"choose", "dispatched"}, NEW n \in DOMAIN backends
        PROVE  /\ backends[n].status \in BackendStatuses
               /\ backends[n].formats \subseteq CircuitFormats
    BY <2>1, PublishedBackends, Zenon DEF PInv, Sourced, Published, PublishedRegistry
  <2>. QED  BY <2>1, Zenon DEF PInv, Staged, Sourced, Registered, Progress, Admitted, TypeOK
<1>. QED  BY <1>1, Prepared, PTL

\* chooseBackend(): however many backends there are and whatever their devices
\* answered, the scan's winner is the suitable device that is first by policy
\* and name, a suitable preferred one goes first, and it fails only when no
\* device suits the task.
THEOREM BestBackendIsChosen == Spec => []ChosenIsBest
<1>1. PInv => ChosenIsBest
  BY Zenon DEF PInv
<1>. QED  BY <1>1, Prepared, PTL

\* compileQuantumTask() and the no_modify path: what the scheduler is given is
\* in a format its backend accepts, the first of the compiler's when it was
\* compiled; a no_modify task is covered where the reading it was chosen on
\* is still the one looked up.
THEOREM ScheduledFormatFits == Spec => []ScheduledFormatIsSupported
<1>1. PInv => ScheduledFormatIsSupported
  BY Zenon DEF PInv
<1>. QED  BY <1>1, Prepared, PTL

\* canRun() and compileQuantumTask() agree on formats and backend: an admitted
\* task whose device answers as before is refused later only for an invalid
\* level or an empty circuit of its own, or by the compiler itself.
THEOREM AdmittedIsPreparable == Spec => []AdmissionIsSound
<1>1. PInv => AdmissionIsSound
  BY Zenon DEF PInv
<1>. QED  BY <1>1, Prepared, PTL
=============================================================================
