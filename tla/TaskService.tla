---------------------------- MODULE TaskService ----------------------------
(***************************************************************************)
(* What the task pipeline promises a client: each task submitted is        *)
(* answered at most once, by a result or by a cancellation, and an answer  *)
(* is never withdrawn or replaced.  A task may also be lost, which the     *)
(* client is never told.  Nothing is promised of a task whose message the  *)
(* broker delivered twice, but that happens to it before any answer, and   *)
(* does not touch the other tasks.                                         *)
(***************************************************************************)
CONSTANT Tasks

VARIABLE status  \* what has become of each task

Init == status = [t \in Tasks |-> "new"]

Submit(t) ==
  /\ status[t] = "new"
  /\ status' = [status EXCEPT ![t] = "pending"]

Answer(t, answer) ==
  /\ status[t] = "pending"
  /\ status' = [status EXCEPT ![t] = answer]

Duplicate(t) ==
  /\ status[t] = "pending"
  /\ status' = [status EXCEPT ![t] = "duplicated"]

\* One step may lose several tasks: a process takes what it holds with it.
Lose ==
  /\ \A t \in Tasks : \/ status'[t] = status[t]
                      \/ status[t] = "pending" /\ status'[t] = "lost"
  /\ status' \in [Tasks -> {"new", "pending", "result", "cancelled", "lost",
                            "duplicated"}]

Next ==
  \/ Lose
  \/ \E t \in Tasks : Submit(t) \/ Duplicate(t)
  \/ \E t \in Tasks, answer \in {"result", "cancelled"} : Answer(t, answer)

Spec == Init /\ [][Next]_status
=============================================================================
