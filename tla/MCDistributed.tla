--------------------------- MODULE MCDistributed ---------------------------
(***************************************************************************)
(* Instances of Distributed: which device each worker serves, under which  *)
(* queue, and which device suits the task.                                 *)
(***************************************************************************)
EXTENDS Distributed, TLC

CONSTANTS w1, w2, n1, n2, q1, t1

\* Two devices behind one shared queue.
SharedQueueDevices == w1 :> n1 @@ w2 :> n2
SharedQueueQueues == w1 :> q1 @@ w2 :> q1

\* One worker.
OneDevice == w1 :> n1
OneQueue == w1 :> q1

\* Only the first device suits the task.
FirstSuits == {<<t1, n1>>}
=============================================================================
