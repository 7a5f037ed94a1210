---------------------------- MODULE MCChatSend ----------------------------
(* TLC instances of ChatSend: two messages of one session, two handlers.    *)
EXTENDS ChatSend, TLC

CONSTANTS m1, m2, h1, h2, s1

MCMsg == {m1, m2}
MCHandler == {h1, h2}
OneHandler == {h1}
MCSession == {s1}
MCSessionOf == [m \in MCMsg |-> s1]

\* Messages of one session and handlers are interchangeable.
Symmetric == Permutations(MCMsg) \cup Permutations(MCHandler)
==========================================================================
