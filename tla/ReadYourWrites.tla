-------------------------- MODULE ReadYourWrites --------------------------
(***************************************************************************)
(* What the browser's cache promises of one key: the page may put there    *)
(* whatever it holds, but an answer that the cache keeps by itself is no   *)
(* older than the page's last write or forced read, and than what it       *)
(* replaces.                                                               *)
(***************************************************************************)
EXTENDS Integers

Nothing == -1

VARIABLES source, \* the version the server has
          kept,   \* the version the cache keeps, or Nothing
          due     \* the version at the page's last write or forced read

vars == <<source, kept, due>>

Init == source = 0 /\ kept = Nothing /\ due = 0

\* Somebody writes on the server.
Change == source' = source + 1 /\ UNCHANGED <<kept, due>>

\* The page writes: it keeps nothing, or any version it holds.
Write == due' = source /\ kept' \in {Nothing} \cup 0..source /\ UNCHANGED source

\* The page asks for what the server has now.
Ask == due' = source /\ UNCHANGED <<source, kept>>

\* An answer is kept.
Keep ==
  /\ kept' \in 0..source
  /\ kept' >= due /\ kept' >= kept
  /\ UNCHANGED <<source, due>>

Forget == kept' = Nothing /\ UNCHANGED <<source, due>>

Next == Change \/ Write \/ Ask \/ Keep \/ Forget

Spec == Init /\ [][Next]_vars
===========================================================================
