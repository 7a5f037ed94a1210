------------------------------ MODULE MCCore ------------------------------
(***************************************************************************)
(* TLC instances of the two components that everything else waits for, the *)
(* lifecycle lock and the chat bridge, which share no state: a behaviour   *)
(* is one of a single component, chosen at the start, and the variables of *)
(* the other keep their initial values.                                    *)
(***************************************************************************)
EXTENDS LifecycleLock, ChatSend, TLC

CONSTANTS restart, env, repair, medic, w1, w2, m1, m2, h1, h2, s1

VARIABLE component

\* Safety: two plain holds and two repairs, so that a user's acquire waits
\* behind a holder and another turn while a background try competes.
MCOp == {restart, env, repair, medic}
MCRepair == {repair, medic}
MCWriter == {w1, w2}
MCRepairOf == [w \in MCWriter |-> repair]

\* Two messages of one session, whose frames await their policies together.
MCMsg == {m1, m2}
MCHandler == {h1, h2}
MCSession == {s1}
MCSessionOf == [m \in MCMsg |-> s1]

\* Liveness: one plain hold and two repairs, one with a writer; one frame at a time.
LiveOp == {restart, repair, medic}
OneHandler == {h1}
OneWriter == {w1}
OneRepairOf == [w \in OneWriter |-> repair]

\* Messages of one session and handlers are interchangeable, and so are writers.
Symmetric == Permutations(MCMsg) \cup Permutations(MCHandler) \cup Permutations(MCWriter)

CoreInit == component \in {"lock", "chat"} /\ LockInit /\ Init

\* A step of component c, whose next-state relation is A.
Of(c, A) == component = c /\ A /\ UNCHANGED component

CoreNext ==
  \/ Of("lock", LockNext) /\ UNCHANGED vars
  \/ Of("chat", Next) /\ UNCHANGED lifecycleVars

CoreSpec == CoreInit /\ [][CoreNext]_<<component, lifecycleVars, vars>>

\* The fairness of LockFairSpec, of a behaviour of the lock.
CoreLockFairness ==
  /\ WF_lifecycleVars(Of("lock", LinkResolves))
  /\ \A o \in Op :
       WF_lifecycleVars(Of("lock", TurnRuns(o))) /\ WF_lifecycleVars(Of("lock", LeaseFires(o)))
  /\ \A r \in Repair :
       WF_lifecycleVars(Of("lock", DrainStarts(r))) /\ WF_lifecycleVars(Of("lock", DrainEnds(r)))
  /\ \A w \in Writer :
       WF_lifecycleVars(Of("lock", StartWriter(w))) /\ WF_lifecycleVars(Of("lock", EndWriter(w)))

\* The fairness of FairSpec, of a behaviour of the bridge.
CoreChatFairness ==
  /\ \A m \in Msg : WF_vars(Of("chat", Connect \/ ConnectFails(m)))
  /\ \A h \in Handler : WF_vars(Of("chat", PolicyArrives(h)))
  /\ \A m \in Msg : WF_vars(Of("chat", RequestTimesOut(m))) /\ WF_vars(Of("chat", Stall(m)))

CoreFairSpec == CoreSpec /\ CoreLockFairness /\ CoreChatFairness
===========================================================================
