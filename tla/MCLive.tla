------------------------------ MODULE MCLive ------------------------------
(***************************************************************************)
(* TLC instances for the liveness properties, composed as in MCServices:   *)
(* a behaviour is one of a single component, chosen at the start, and that *)
(* one is fair.                                                            *)
(***************************************************************************)
EXTENDS FileLock, NotifyOutbox, ManagedUpdate, ChatOutbox

CONSTANTS n1, n2

VARIABLE component

MCNotice == {n1, n2}
MCOverseer == {n1}
MCText == [m \in Message |-> m]

LiveInit ==
  /\ component \in {"filelock", "notify", "managed", "chat"}
  /\ FileLockInit /\ NotifyInit /\ ManagedInit /\ OutboxInit

Of(c, A) == component = c /\ A /\ UNCHANGED component

LiveNext ==
  \/ Of("filelock", FileLockNext) /\ UNCHANGED <<notifyVars, managedVars, outboxVars>>
  \/ Of("notify", NotifyNext) /\ UNCHANGED <<fileLockVars, managedVars, outboxVars>>
  \/ Of("managed", ManagedNext) /\ UNCHANGED <<fileLockVars, notifyVars, outboxVars>>
  \/ Of("chat", OutboxNext) /\ UNCHANGED <<fileLockVars, notifyVars, managedVars>>

liveVars == <<component, fileLockVars, notifyVars, managedVars, outboxVars>>

\* The file is wanted again and again, system calls return, fn() ends, time passes.
FileLockFairness ==
  /\ WF_fileLockVars(Of("filelock", LockAges))
  /\ \A p \in Process :
       /\ WF_fileLockVars(Of("filelock", StartLocking(p)))
       /\ WF_fileLockVars(Of("filelock", CreateLockFile(p)))
       /\ WF_fileLockVars(Of("filelock", WriteLockRecord(p)))
       /\ WF_fileLockVars(Of("filelock", Unlock(p)))
       /\ WF_fileLockVars(Of("filelock", StatLock(p)))
       /\ WF_fileLockVars(Of("filelock", JudgeHolder(p)))
       /\ WF_fileLockVars(Of("filelock", ClaimStaleLock(p)))

\* The heartbeat flushes, a send has a timeout, and time passes.
NotifyFairness ==
  /\ WF_notifyVars(Of("notify", FlushStarts)) /\ WF_notifyVars(Of("notify", DeliveryEnds))
  /\ \A e \in Notice : WF_notifyVars(Of("notify", DeadlinePasses(e)))

\* The request has a timeout, the status is read again and again, and not every
\* write fails.
RecoveringRead == StatusRead /\ managedAttempt' # managedAttempt
ManagedFairness ==
  /\ WF_managedVars(Of("managed", ResponseArrives))
  /\ WF_managedVars(Of("managed", RecoveringRead))

\* The tab ticks and reads its socket, an ack is waited for and its timeout
\* fires, the server handles frames and its requests and runs end.
AckTimesOut ==
  FlushTick /\ \E m \in WithStatus(tab, "inflight") : tab'.item[m].status # "inflight"
OutboxFairness ==
  /\ WF_outboxVars(Of("chat", AckTimesOut)) /\ WF_outboxVars(Of("chat", FrameReceived))
  /\ WF_outboxVars(Of("chat", \E f \in upFrames : f.here /\ FrameHandled(f)))
  /\ \A m \in Message :
       /\ WF_outboxVars(Of("chat", GatewayTakes(m) \/ GatewayRefuses(m) \/ SendUnanswered(m)))
       /\ WF_outboxVars(Of("chat", RunFinishes(m)))

LiveSpec ==
  /\ LiveInit /\ [][LiveNext]_liveVars
  /\ FileLockFairness /\ NotifyFairness /\ ManagedFairness /\ OutboxFairness
===========================================================================
