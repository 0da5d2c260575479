---------------------------- MODULE MCMessaging ----------------------------
(***************************************************************************)
(* Three messages that are sent again and again and one that cannot be     *)
(* decoded; a poll without waiting, a wait shorter and one longer than the *)
(* default, and an indefinite wait.                                        *)
(***************************************************************************)
EXTENDS Messaging

Never == -1
MCTimeouts == {0, 1, 3, Never}
=============================================================================
