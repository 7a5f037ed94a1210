---------------------------- MODULE FifoMutex ----------------------------
(***************************************************************************)
(* What a user of the gateway lifecycle lock may rely on: one owner at a   *)
(* time, those who wait are served in the order they asked, and one who    *)
(* does not want to wait gets the lock only when nobody owns it or waits.  *)
(***************************************************************************)
EXTENDS Naturals, Sequences

CONSTANTS Op, Null

VARIABLES owner, waiting, done

vars == <<owner, waiting, done>>

Init == owner = Null /\ waiting = <<>> /\ done = {}

Fresh(o) ==
  o \notin done /\ o # owner /\ \A i \in 1..Len(waiting) : waiting[i] # o

Ask(o) == Fresh(o) /\ waiting' = Append(waiting, o) /\ UNCHANGED <<owner, done>>

Serve ==
  /\ owner = Null /\ waiting # <<>>
  /\ owner' = Head(waiting) /\ waiting' = Tail(waiting)
  /\ UNCHANGED done

TakeNow(o) ==
  /\ owner = Null /\ waiting = <<>> /\ Fresh(o)
  /\ owner' = o
  /\ UNCHANGED <<waiting, done>>

Leave ==
  /\ owner # Null
  /\ owner' = Null /\ done' = done \cup {owner}
  /\ UNCHANGED waiting

Next == Serve \/ Leave \/ \E o \in Op : Ask(o) \/ TakeNow(o)

Spec == Init /\ [][Next]_vars

\* Nobody waits forever, whatever an owner does.
FairSpec == Spec /\ WF_vars(Serve) /\ WF_vars(Leave)
==========================================================================
