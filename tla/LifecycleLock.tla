-------------------------- MODULE LifecycleLock --------------------------
(***************************************************************************)
(* The gateway lifecycle lock (lib/server/gateway-lifecycle-lock.js) and   *)
(* the repair operations that hold it (lib/server/repair-operation.js).    *)
(*                                                                         *)
(* One operation at a time may mutate the gateway.  acquire() waits in a   *)
(* promise chain, tryAcquire() skips when anything holds or waits.  A      *)
(* lease bounds every hold.  A plain hold is force-released when its lease *)
(* fires; the hold of a repair loses its authority at once but keeps the   *)
(* lock until every writer it registered has ended.                        *)
(*                                                                         *)
(* An element of Op is one call of acquire() or tryAcquire() and the hold  *)
(* it produces: hold ids are never reused, so neither is an Op.  Time is   *)
(* abstracted: a timer may fire at any moment while it is armed.           *)
(***************************************************************************)
EXTENDS Integers, Sequences, FiniteSets

CONSTANTS
  Op,        \* calls of acquire / tryAcquire, each with the hold it makes
  Repair,    \* those made with {cleanup}: the hold of a repair operation
  Writer,    \* calls of runWriter
  RepairOf,  \* the repair operation each runWriter call belongs to
  Null       \* no active hold

ASSUME OpAssumption ==
  /\ Repair \subseteq Op
  /\ Null \notin Op
  /\ RepairOf \in [Writer -> Repair]

VARIABLES
  active,       \* the hold that owns the lock, or Null
  chain,        \* the links of queueTail that have not resolved, oldest first
  pendingTurns, \* acquires that do not hold the lock yet
  hold,         \* where each hold is in its life
  expired,      \* isExpired(): the lease fired
  noticed,      \* onQueued fired for this acquire
  aborted,      \* the repair's AbortController has fired
  sealed,       \* the repair registers no more writers
  draining,     \* cleanup.wait() is running for the hold's release
  writer        \* where each runWriter call is

lockVars == <<active, chain, pendingTurns, hold, expired, noticed>>
repairVars == <<aborted, sealed, draining, writer>>
lifecycleVars == <<active, chain, pendingTurns, hold, expired, noticed,
                   aborted, sealed, draining, writer>>

HoldState == {"idle", "queued", "held", "cleanup", "cleanup_blocked", "released"}
WriterState == {"none", "registered", "running", "ended", "refused"}

LockTypeOK ==
  /\ active \in Op \cup {Null}
  /\ chain \in Seq(Op)
  /\ pendingTurns \in Int
  /\ hold \in [Op -> HoldState]
  /\ expired \in [Op -> BOOLEAN]
  /\ noticed \in [Op -> BOOLEAN]
  /\ aborted \in [Repair -> BOOLEAN]
  /\ sealed \in [Repair -> BOOLEAN]
  /\ draining \in [Repair -> BOOLEAN]
  /\ writer \in [Writer -> WriterState]

LockInit ==
  /\ active = Null
  /\ chain = <<>>
  /\ pendingTurns = 0
  /\ hold = [o \in Op |-> "idle"]
  /\ expired = [o \in Op |-> FALSE]
  /\ noticed = [o \in Op |-> FALSE]
  /\ aborted = [r \in Repair |-> FALSE]
  /\ sealed = [r \in Repair |-> FALSE]
  /\ draining = [r \in Repair |-> FALSE]
  /\ writer = [w \in Writer |-> "none"]

\* The hold owns the lock: granted, and not settled.
Owning(o) == hold[o] \in {"held", "cleanup", "cleanup_blocked"}

\* isValid(): not settled, not expired, not releasing.
IsValid(o) == hold[o] = "held" /\ ~expired[o]

\* assertActive() lets the repair go on.  isCurrent() is the hold's validity.
HasAuthority(r) == IsValid(r) /\ ~sealed[r] /\ ~aborted[r]

\* A promise in the operation's writers set.
LiveWriter(w) == writer[w] \in {"registered", "running"}

----------------------------------------------------------------------------
(* Acquiring. *)

\* Mutant: a caller that samples the holder only, not the turns ahead of it.
AcquireSamplingHolder(o) ==
  /\ hold[o] = "idle"
  /\ noticed' = [noticed EXCEPT ![o] = active # Null]
  /\ pendingTurns' = pendingTurns + 1
  /\ hold' = [hold EXCEPT ![o] = "queued"]
  /\ chain' = Append(chain, o)
  /\ UNCHANGED <<active, expired, repairVars>>

\* acquire(): the turn waits for every link before it.  onQueued fires at
\* once, iff a hold is active or a turn is pending.
Acquire(o) ==
  /\ hold[o] = "idle"
  /\ noticed' = [noticed EXCEPT ![o] = active # Null \/ pendingTurns > 0]
  /\ pendingTurns' = pendingTurns + 1
  /\ hold' = [hold EXCEPT ![o] = "queued"]
  /\ chain' = Append(chain, o)
  /\ UNCHANGED <<active, expired, repairVars>>

\* The turn at the front of the chain: `while (active) await active.released`
\* and then makeHold.
TurnRuns(o) ==
  /\ chain # <<>> /\ Head(chain) = o
  /\ hold[o] = "queued"
  /\ active = Null
  /\ pendingTurns' = pendingTurns - 1
  /\ hold' = [hold EXCEPT ![o] = "held"]
  /\ active' = o
  /\ UNCHANGED <<chain, expired, noticed, repairVars>>

\* A link resolves once the hold it stands for is released.
LinkResolves ==
  /\ chain # <<>> /\ hold[Head(chain)] = "released"
  /\ chain' = Tail(chain)
  /\ UNCHANGED <<active, pendingTurns, hold, expired, noticed, repairVars>>

\* Mutant: a background try ignores the turns that are pending.
TryAcquireOvertaking(o) ==
  /\ hold[o] = "idle"
  /\ active = Null
  /\ hold' = [hold EXCEPT ![o] = "held"]
  /\ active' = o
  /\ chain' = Append(chain, o)
  /\ UNCHANGED <<pendingTurns, expired, noticed, repairVars>>

\* Mutant: a background hold is not linked into the chain.
TryAcquireUnlinked(o) ==
  /\ hold[o] = "idle"
  /\ active = Null /\ pendingTurns = 0
  /\ hold' = [hold EXCEPT ![o] = "held"]
  /\ active' = o
  /\ UNCHANGED <<chain, pendingTurns, expired, noticed, repairVars>>

\* tryAcquire(), the outcome that is not null.  Later acquires queue behind it.
TryAcquire(o) ==
  /\ hold[o] = "idle"
  /\ active = Null /\ pendingTurns = 0
  /\ hold' = [hold EXCEPT ![o] = "held"]
  /\ active' = o
  /\ chain' = Append(chain, o)
  /\ UNCHANGED <<pendingTurns, expired, noticed, repairVars>>

----------------------------------------------------------------------------
(* Releasing. *)

\* finish(): settle the hold and free the lock if it is still this hold's.
Finish(o) ==
  /\ hold' = [hold EXCEPT ![o] = "released"]
  /\ active' = IF active = o THEN Null ELSE active

\* release(), past its first guard: a plain hold finishes, a repair's cleans up.
BeginRelease(o) ==
  IF o \in Repair
  THEN hold' = [hold EXCEPT ![o] = "cleanup"] /\ UNCHANGED active
  ELSE Finish(o)

\* `if (settled || releasing) return released`
Settling(o) == hold[o] \in {"cleanup", "cleanup_blocked", "released"}

\* Mutant: a late release settles and frees the lock again, without the
\* `settled` and `active === hold` guards.
ReleaseUnguarded(o) ==
  /\ hold[o] \notin {"idle", "queued"}
  /\ hold' = [hold EXCEPT ![o] = "released"]
  /\ active' = Null
  /\ UNCHANGED <<chain, pendingTurns, expired, noticed, repairVars>>

\* The holder calls release(), perhaps long after its lease fired.
Release(o) ==
  /\ hold[o] \notin {"idle", "queued"}
  /\ IF Settling(o) THEN UNCHANGED <<hold, active>> ELSE BeginRelease(o)
  /\ UNCHANGED <<chain, pendingTurns, expired, noticed, repairVars>>

\* Mutant: the lease only marks the hold expired.
LeaseFiresSoftly(o) ==
  /\ hold[o] = "held" /\ ~expired[o]
  /\ expired' = [expired EXCEPT ![o] = TRUE]
  /\ UNCHANGED <<active, chain, pendingTurns, hold, noticed, repairVars>>

\* The lease timer; release() disarms it.
LeaseFires(o) ==
  /\ hold[o] = "held"
  /\ expired' = [expired EXCEPT ![o] = TRUE]
  /\ aborted' = IF o \in Repair THEN [aborted EXCEPT ![o] = TRUE] ELSE aborted
  /\ BeginRelease(o)
  /\ UNCHANGED <<chain, pendingTurns, noticed, sealed, draining, writer>>

\* Mutant: a phase no reader of cleanupPhase knows.
CleanupBlocksUnknown(r) ==
  /\ hold[r] = "cleanup"
  /\ hold' = [hold EXCEPT ![r] = "blocked"]
  /\ UNCHANGED <<active, chain, pendingTurns, expired, noticed, repairVars>>

\* The 15 s cleanup timer: a phase to report, the lock stays where it is.
CleanupBlocks(r) ==
  /\ hold[r] = "cleanup"
  /\ hold' = [hold EXCEPT ![r] = "cleanup_blocked"]
  /\ UNCHANGED <<active, chain, pendingTurns, expired, noticed, repairVars>>

\* cleanup.wait() starts, in a microtask of its own: no writer may register.
DrainStarts(r) ==
  /\ hold[r] \in {"cleanup", "cleanup_blocked"}
  /\ ~draining[r]
  /\ draining' = [draining EXCEPT ![r] = TRUE]
  /\ sealed' = [sealed EXCEPT ![r] = TRUE]
  /\ UNCHANGED <<lockVars, aborted, writer>>

\* Mutant: finish without draining the writers.
DrainEndsEarly(r) ==
  /\ hold[r] \in {"cleanup", "cleanup_blocked"}
  /\ draining[r]
  /\ Finish(r)
  /\ UNCHANGED <<chain, pendingTurns, expired, noticed, repairVars>>

\* Mutant: the blocked phase is final.
DrainEndsUnlessBlocked(r) ==
  /\ hold[r] = "cleanup"
  /\ draining[r]
  /\ \A w \in Writer : RepairOf[w] = r => ~LiveWriter(w)
  /\ Finish(r)
  /\ UNCHANGED <<chain, pendingTurns, expired, noticed, repairVars>>

\* `while (writers.size) await ...` is over, and finish() runs.
DrainEnds(r) ==
  /\ hold[r] \in {"cleanup", "cleanup_blocked"}
  /\ draining[r]
  /\ \A w \in Writer : RepairOf[w] = r => ~LiveWriter(w)
  /\ Finish(r)
  /\ UNCHANGED <<chain, pendingTurns, expired, noticed, repairVars>>

----------------------------------------------------------------------------
(* The repair operation. *)

\* cancel(): its deadline, its caller's signal, or the end of its work.
Cancel(r) ==
  /\ hold[r] # "idle" /\ ~aborted[r]
  /\ aborted' = [aborted EXCEPT ![r] = TRUE]
  /\ UNCHANGED <<lockVars, sealed, draining, writer>>

\* finishWork(), and the wait() a repair makes before it relaunches.
FinishWork(r) ==
  /\ hold[r] = "held" /\ ~sealed[r]
  /\ sealed' = [sealed EXCEPT ![r] = TRUE]
  /\ UNCHANGED <<lockVars, aborted, draining, writer>>

\* cancelActiveCleanup(): shutdown cancels and releases whatever repair owns
\* the lock; it never touches a plain hold.
ShutdownCancels(r) ==
  /\ active = r
  /\ aborted' = [aborted EXCEPT ![r] = TRUE]
  /\ IF Settling(r) THEN UNCHANGED <<hold, active>> ELSE BeginRelease(r)
  /\ UNCHANGED <<chain, pendingTurns, expired, noticed, sealed, draining, writer>>

\* assertActive(): go to state s, or lose authority and refuse the writer.
WriterStep(w, s) ==
  LET r == RepairOf[w]
  IN IF HasAuthority(r)
     THEN writer' = [writer EXCEPT ![w] = s] /\ UNCHANGED aborted
     ELSE /\ writer' = [writer EXCEPT ![w] = "refused"]
          /\ aborted' = [aborted EXCEPT ![r] = TRUE]

\* runWriter(): the writer is in the set before it can write anything.
RegisterWriter(w) ==
  /\ writer[w] = "none"
  /\ hold[RepairOf[w]] \notin {"idle", "queued"}
  /\ WriterStep(w, "registered")
  /\ UNCHANGED <<lockVars, sealed, draining>>

\* Mutant: the authority read at registration is trusted a microtask later.
StartWriterUnchecked(w) ==
  /\ writer[w] = "registered"
  /\ writer' = [writer EXCEPT ![w] = "running"]
  /\ UNCHANGED <<lockVars, aborted, sealed, draining>>

\* A microtask later the authority is read again, and work() starts.
StartWriter(w) ==
  /\ writer[w] = "registered"
  /\ WriterStep(w, "running")
  /\ UNCHANGED <<lockVars, sealed, draining>>

\* work() settles and the writer leaves the set.
EndWriter(w) ==
  /\ writer[w] = "running"
  /\ writer' = [writer EXCEPT ![w] = "ended"]
  /\ UNCHANGED <<lockVars, aborted, sealed, draining>>

----------------------------------------------------------------------------
LockNext ==
  \/ \E o \in Op : Acquire(o) \/ TurnRuns(o) \/ TryAcquire(o)
                     \/ Release(o) \/ LeaseFires(o)
  \/ LinkResolves
  \/ \E r \in Repair : CleanupBlocks(r) \/ DrainStarts(r) \/ DrainEnds(r)
                         \/ Cancel(r) \/ FinishWork(r) \/ ShutdownCancels(r)
  \/ \E w \in Writer : RegisterWriter(w) \/ StartWriter(w) \/ EndWriter(w)

LockSpec == LockInit /\ [][LockNext]_lifecycleVars

\* Promise continuations run and armed timers fire.  A writer that started
\* ends: its process group is killed after cancellation.  A holder is never
\* assumed to call release().
LockFairness ==
  /\ WF_lifecycleVars(LinkResolves)
  /\ \A o \in Op : WF_lifecycleVars(TurnRuns(o)) /\ WF_lifecycleVars(LeaseFires(o))
  /\ \A r \in Repair : WF_lifecycleVars(DrainStarts(r)) /\ WF_lifecycleVars(DrainEnds(r))
  /\ \A w \in Writer : WF_lifecycleVars(StartWriter(w)) /\ WF_lifecycleVars(EndWriter(w))

LockFairSpec == LockSpec /\ LockFairness

----------------------------------------------------------------------------
(* What the lock promises. *)

\* At most one hold is granted and unsettled, and it is the active one: a
\* handle that answers isValid() belongs to the operation owns() names, also
\* while an expired repair drains or a predecessor releases late.
MutualExclusion == \A o \in Op : Owning(o) <=> active = o

\* The lock is never handed on under a repair's writer: from registration to
\* the end of work() the repair still holds it, whatever its lease, its
\* deadline or a shutdown did meanwhile.
WriterRetainsLock == \A w \in Writer : LiveWriter(w) => active = RepairOf[w]

\* onQueued tells the truth: an acquire that was not told it waits has nothing
\* but settled links ahead of it, and finds the lock free when its turn comes.
QueuedNoticeHonest ==
  \A i \in 1..Len(chain) :
    (hold[chain[i]] = "queued" /\ ~noticed[chain[i]]) =>
      /\ active = Null
      /\ \A j \in 1..(i - 1) : hold[chain[j]] = "released"

\* The queue never waits for nothing: while an acquire is queued, the link at the
\* front of the chain is settled and resolves, or is a turn that finds the lock
\* free (the loop over active.released never waits), or owns the lock and is
\* bound to give it back: its lease is armed, or it is a repair that drains.
QueueNeverStalls ==
  \A o \in Op : hold[o] = "queued" =>
    /\ chain # <<>>
    /\ \/ hold[Head(chain)] = "released"
       \/ hold[Head(chain)] = "queued" /\ active = Null
       \/ active = Head(chain) /\ (hold[active] = "held" \/ active \in Repair)

\* A writer's work starts, and the lock changes hands, only as follows: work
\* starts under a valid, unsealed, uncancelled repair; an owner loses the lock
\* only by settling itself, never by another hold's release.
AuthorityStep ==
  /\ \A w \in Writer :
       writer[w] # "running" /\ writer'[w] = "running" => HasAuthority(RepairOf[w])
  /\ \A o \in Op : active = o /\ active' # o => hold'[o] = "released"
AuthorityIsRespected == [][AuthorityStep]_lifecycleVars

\* The queue cannot deadlock behind a holder that never releases: every queued
\* acquire is granted.
QueuedIsGranted == \A o \in Op : hold[o] = "queued" ~> hold[o] = "held"

\* An expired repair gives the lock back once its writers have drained.
ExpiredSettles == \A o \in Op : expired[o] ~> hold[o] = "released"

----------------------------------------------------------------------------
(* The lock implements a FIFO mutex: microtasks, leases, cleanup phases and *)
(* refused writers are its stutters.                                        *)

\* Who waits for a turn: the last pendingTurns links of the chain.
WaitingTurns == SubSeq(chain, Len(chain) - pendingTurns + 1, Len(chain))

Abstract == INSTANCE FifoMutex WITH
  owner <- active,
  waiting <- WaitingTurns,
  done <- {o \in Op : hold[o] = "released"}

\* The lock is a FIFO mutex that serves everyone: acquires are granted in the
\* order of the calls, a tryAcquire never overtakes one, and the lock is freed.
ImplementsFifoMutex == Abstract!FairSpec

==========================================================================
