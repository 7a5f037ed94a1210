----------------------------- MODULE SendOnce -----------------------------
(***************************************************************************)
(* What the chat bridge promises of a message, whoever retries it: the     *)
(* gateway takes it at most once, and while the browser stands told that   *)
(* it was not submitted, the gateway neither has it nor gets it.           *)
(***************************************************************************)
EXTENDS Integers

CONSTANT Msg

VARIABLES times,  \* how often the gateway took each message
          denied  \* messages whose sender stands told "not submitted"

vars == <<times, denied>>

Init == times = [m \in Msg |-> 0] /\ denied = {}

\* The gateway takes a message that nobody was told is unsent.
Take(m) ==
  /\ times[m] = 0 /\ m \notin denied
  /\ times' = [times EXCEPT ![m] = 1]
  /\ UNCHANGED denied

\* Browsers are told something else; only untaken messages may stand denied.
Tell ==
  /\ denied' \in SUBSET {m \in Msg : times[m] = 0}
  /\ UNCHANGED times

Next == (\E m \in Msg : Take(m)) \/ Tell

Spec == Init /\ [][Next]_vars
===========================================================================
