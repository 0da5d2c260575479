----------------------------- MODULE Messaging -----------------------------
(***************************************************************************)
(* A work loop's intake: CommunicationHandler::receive() called through    *)
(* receiveNext(), once in each turn or repeatedly by drainQueue(), against *)
(* a broker that never stops delivering, fails at any moment, and holds    *)
(* messages that cannot be decoded.                                        *)
(*                                                                         *)
(* A message stays in the queue until it is acknowledged.  One that was    *)
(* handled may be sent anew, so that arrivals never end.  Time passes only *)
(* while the transport waits for a message, in units of which a poll of an *)
(* indefinite wait takes DefaultReceiveTimeout.                            *)
(***************************************************************************)
EXTENDS Integers, Sequences

CONSTANTS
  Messages, Undecodable,  \* the messages, and those that cannot be decoded
  None,
  DefaultReceiveTimeout,
  WaitForever,            \* the timeout of an indefinite wait
  Timeouts                \* the timeouts receive() is called with

ASSUME MessagingAssumption ==
  /\ Undecodable \subseteq Messages /\ None \notin Messages
  /\ DefaultReceiveTimeout \in Nat \ {0}
  /\ WaitForever = -1 /\ Timeouts \subseteq Nat \cup {WaitForever}

VARIABLES
  queue,        \* the messages the broker holds
  ipc,           \* where the process is
  flag,         \* terminationFlag
  drain,        \* the caller is drainQueue(), not receiveNext() by itself
  timeout,      \* receive()'s argument
  inHand,       \* the message received, not yet handled
  waited,       \* how long the transport has waited for a message
  lateWait,     \* history: how much of the waiting was with the flag set
  lateReceived  \* history: messages received with the flag set

callVars == <<drain, timeout>>
intakeVars == <<queue, ipc, flag, drain, timeout, inHand, waited, lateWait, lateReceived>>

waitIndefinitely == timeout = WaitForever
pollInterval == IF waitIndefinitely THEN DefaultReceiveTimeout ELSE timeout

Queued(m) == \E i \in DOMAIN queue : queue[i] = m
InSystem(m) == Queued(m) \/ inHand = m

\* A process makes one kind of call in all its turns; drainQueue() polls
\* without waiting.
IntakeInit ==
  /\ queue = <<>>
  /\ ipc = "turn" /\ flag = FALSE
  /\ drain \in BOOLEAN /\ timeout \in Timeouts /\ (drain => timeout = 0)
  /\ inHand = None /\ waited = 0
  /\ lateWait = 0 /\ lateReceived = 0

Publish(m) ==
  /\ ~InSystem(m)
  /\ queue' = Append(queue, m)
  /\ UNCHANGED <<ipc, flag, callVars, inHand, waited, lateWait, lateReceived>>

RequestTermination ==
  /\ ipc # "stopped" /\ ~flag
  /\ flag' = TRUE
  /\ UNCHANGED <<queue, ipc, callVars, inHand, waited, lateWait, lateReceived>>

\* Faulty variant: the loop does not end.
TurnUnchecked ==
  /\ ipc = "turn"
  /\ ipc' = "poll"
  /\ UNCHANGED <<queue, flag, callVars, inHand, waited, lateWait, lateReceived>>

\* The daemon's loop condition.
Turn ==
  /\ ipc = "turn"
  /\ ipc' = IF flag THEN "stopped" ELSE "poll"
  /\ UNCHANGED <<queue, flag, callVars, inHand, waited, lateWait, lateReceived>>

\* Faulty variant: the flag is consulted only in an indefinite wait.
pollBounded ==
  /\ ipc = "poll"
  /\ ipc' = IF flag /\ waitIndefinitely THEN "turn" ELSE "wait"
  /\ waited' = 0
  /\ UNCHANGED <<queue, flag, callVars, inHand, lateWait, lateReceived>>

\* receive()'s loop condition: with the flag set it returns nothing, which
\* ends receiveNext() and a drain.
poll ==
  /\ ipc = "poll"
  /\ ipc' = IF flag THEN "turn" ELSE "wait"
  /\ waited' = 0
  /\ UNCHANGED <<queue, flag, callVars, inHand, lateWait, lateReceived>>

Tick ==
  /\ ipc = "wait" /\ queue = <<>> /\ waited < pollInterval
  /\ waited' = waited + 1
  /\ lateWait' = IF flag THEN lateWait + 1 ELSE lateWait
  /\ UNCHANGED <<queue, ipc, flag, callVars, inHand, lateReceived>>

\* Nothing came within the poll interval.
TimedOut ==
  /\ ipc = "wait" /\ queue = <<>> /\ waited = pollInterval
  /\ ipc' = IF waitIndefinitely THEN "poll" ELSE "turn"
  /\ UNCHANGED <<queue, flag, callVars, inHand, waited, lateWait, lateReceived>>

\* The broker fails, or the message it delivers cannot be decoded and is not
\* acknowledged, so that it stays at the head of the queue unless the broker
\* discards it.  Logged as MessagingFailed; receiveNext() and a drain end.
ReceiveFails ==
  /\ ipc = "wait"
  /\ ipc' = "turn"
  /\ \/ UNCHANGED queue
     \/ queue # <<>> /\ Head(queue) \in Undecodable /\ queue' = Tail(queue)
  /\ UNCHANGED <<flag, callVars, inHand, waited, lateWait, lateReceived>>

\* receiveExtended() gives a decoded message, not acknowledged yet.
Deliver ==
  /\ ipc = "wait" /\ queue # <<>> /\ Head(queue) \notin Undecodable
  /\ inHand' = Head(queue)
  /\ ipc' = "ack"
  /\ lateReceived' = IF flag THEN lateReceived + 1 ELSE lateReceived
  /\ UNCHANGED <<queue, flag, callVars, waited, lateWait>>

\* Faulty variant: a message is not handled if a shutdown was requested while
\* it was received.
ackUnlessStopping(acked) ==
  /\ ipc = "ack"
  /\ queue' = IF acked THEN Tail(queue) ELSE queue
  /\ ipc' = IF flag THEN "turn" ELSE "handle"
  /\ inHand' = IF flag THEN None ELSE inHand
  /\ UNCHANGED <<flag, callVars, waited, lateWait, lateReceived>>

\* Faulty variant: messages are never acknowledged.
ackNever(acked) ==
  /\ ipc = "ack"
  /\ ipc' = "handle"
  /\ UNCHANGED <<queue, flag, callVars, inHand, waited, lateWait, lateReceived>>

\* A failed acknowledgement is only logged: the broker keeps the message, and
\* the process handles it all the same.
ack(acked) ==
  /\ ipc = "ack"
  /\ queue' = IF acked THEN Tail(queue) ELSE queue
  /\ ipc' = "handle"
  /\ UNCHANGED <<flag, callVars, inHand, waited, lateWait, lateReceived>>

\* Faulty variant: receiveNext() goes on like drainQueue().
handleAll ==
  /\ ipc = "handle"
  /\ inHand' = None
  /\ ipc' = "poll"
  /\ UNCHANGED <<queue, flag, callVars, waited, lateWait, lateReceived>>

\* The handler returns: receiveNext() is done, drainQueue() polls again.
handle ==
  /\ ipc = "handle"
  /\ inHand' = None
  /\ ipc' = IF drain THEN "poll" ELSE "turn"
  /\ UNCHANGED <<queue, flag, callVars, waited, lateWait, lateReceived>>

Process ==
  \/ Turn \/ poll \/ Tick \/ TimedOut \/ ReceiveFails \/ Deliver \/ handle
  \/ \E acked \in BOOLEAN : ack(acked)

Stopped == ipc = "stopped" /\ UNCHANGED intakeVars

IntakeNext ==
  \/ \E m \in Messages : Publish(m)
  \/ Process \/ RequestTermination \/ Stopped

IntakeSpec == IntakeInit /\ [][IntakeNext]_intakeVars

\* The thread keeps running and time passes; the broker neither fails every
\* receive of a waiting message nor refuses every acknowledgement.
FairIntakeSpec ==
  IntakeSpec /\ WF_intakeVars(Process) /\ SF_intakeVars(Deliver) /\ SF_intakeVars(ack(TRUE))

(***************************************************************************)
(* Properties.                                                             *)
(***************************************************************************)

IntakeTypeOK ==
  /\ queue \in Seq(Messages)
  /\ ipc \in {"turn", "poll", "wait", "ack", "handle", "stopped"}
  /\ flag \in BOOLEAN /\ drain \in BOOLEAN /\ timeout \in Timeouts
  /\ inHand \in Messages \cup {None}
  /\ waited \in 0..pollInterval /\ lateWait \in Nat /\ lateReceived \in Nat

\* A message the broker held leaves it and the process only by being handled,
\* whenever the flag is set, whether acknowledgements succeed, and however
\* the receive ends; only one that cannot be decoded may be discarded.
NothingDropped ==
  [][\A m \in Messages \ Undecodable :
       InSystem(m) /\ ~InSystem(m)' => ipc = "handle" /\ inHand = m]_intakeVars

\* "once set, this returns an empty optional without touching the transport,
\* whatever the timeout" (receive()): after the flag is set the process waits
\* at most to the end of the poll it is in and receives at most one message,
\* even in a drain of a queue that never runs empty.
UnwindsWithinOnePoll == lateWait <= pollInterval /\ lateReceived <= 1

\* The flag ends every call: an indefinite wait in which nothing arrives, and
\* a drain of a queue that never runs empty.
TerminationHonoured == flag ~> ipc = "stopped"

\* One task per turn (worker): receiveNext() with a bounded timeout returns
\* to the loop under any load, so that the tasks already taken are executed.
ReceiveNextReturns ==
  ipc = "poll" /\ ~drain /\ ~waitIndefinitely ~> ipc \in {"turn", "stopped"}

Blocked(m) ==
  \E i, j \in DOMAIN queue :
    i < j /\ queue[j] = m /\ queue[i] \in Undecodable

\* A waiting message is received, whatever keeps arriving, unless the process
\* ends or a message ahead of it cannot be decoded: that one alone stops each
\* drain before the messages behind it.
WaitingIsReceived ==
  \A m \in Messages \ Undecodable :
    Queued(m) ~> inHand = m \/ ipc = "stopped" \/ Blocked(m)

\* Daemon.h: the loop and receive() consult the flag "to unwind promptly
\* instead of finishing whatever bounded wait or drain they were already in".
\* After the flag is set no wait goes on for longer than the interval at
\* which even an indefinite wait looks at it.
UnwindsPromptly == lateWait <= DefaultReceiveTimeout
=============================================================================
