---------------------------- MODULE MCChatOutbox ----------------------------
(***************************************************************************)
(* TLC instance of ChatOutbox: two messages that say the same.             *)
(***************************************************************************)
EXTENDS ChatOutbox

MCSameText == [m \in Message |-> 1]
===========================================================================
