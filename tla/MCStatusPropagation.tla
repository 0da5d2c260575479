------------------------ MODULE MCStatusPropagation ------------------------
(***************************************************************************)
(* Two workers configured with one device ID and different queues.         *)
(***************************************************************************)
EXTENDS StatusPropagation, TLC

CONSTANTS w1, w2, alpha, q1, q2

SameDevice == w1 :> alpha @@ w2 :> alpha
OwnQueues == w1 :> q1 @@ w2 :> q2
=============================================================================
