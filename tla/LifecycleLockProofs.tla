----------------------- MODULE LifecycleLockProofs -----------------------
(***************************************************************************)
(* Proofs about LifecycleLock, for every set of operations and writers.    *)
(***************************************************************************)
EXTENDS LifecycleLock, FiniteSetTheorems, SequenceTheorems, TLAPS

----------------------------------------------------------------------------

\* Every step keeps every variable in its type: handlers of the lock and of the
\* repair operation write only states the code has.
LEMMA TypeStep == LockTypeOK /\ [LockNext]_lifecycleVars => LockTypeOK'
<1> SUFFICES ASSUME LockTypeOK, [LockNext]_lifecycleVars PROVE LockTypeOK'
  OBVIOUS
<1> USE OpAssumption DEF LockTypeOK, HoldState, WriterState
<1>1. ASSUME NEW o \in Op, Acquire(o) PROVE LockTypeOK'
  BY <1>1 DEF Acquire, repairVars
<1>2. ASSUME NEW o \in Op, TurnRuns(o) PROVE LockTypeOK'
  BY <1>2 DEF TurnRuns, repairVars
<1>3. ASSUME NEW o \in Op, TryAcquire(o) PROVE LockTypeOK'
  BY <1>3 DEF TryAcquire, repairVars
<1>4. ASSUME NEW o \in Op, Release(o) PROVE LockTypeOK'
  BY <1>4 DEF Release, BeginRelease, Finish, repairVars
<1>5. ASSUME NEW o \in Op, LeaseFires(o) PROVE LockTypeOK'
  BY <1>5 DEF LeaseFires, BeginRelease, Finish
<1>6. CASE LinkResolves
  BY <1>6 DEF LinkResolves, repairVars
<1>7. ASSUME NEW r \in Repair, CleanupBlocks(r) PROVE LockTypeOK'
  BY <1>7 DEF CleanupBlocks, repairVars
<1>8. ASSUME NEW r \in Repair, DrainStarts(r) PROVE LockTypeOK'
  BY <1>8 DEF DrainStarts, lockVars
<1>9. ASSUME NEW r \in Repair, DrainEnds(r) PROVE LockTypeOK'
  BY <1>9 DEF DrainEnds, Finish, repairVars
<1>10. ASSUME NEW r \in Repair, Cancel(r) PROVE LockTypeOK'
  BY <1>10 DEF Cancel, lockVars
<1>11. ASSUME NEW r \in Repair, FinishWork(r) PROVE LockTypeOK'
  BY <1>11 DEF FinishWork, lockVars
<1>12. ASSUME NEW r \in Repair, ShutdownCancels(r) PROVE LockTypeOK'
  BY <1>12 DEF ShutdownCancels, BeginRelease, Finish
<1>13. ASSUME NEW w \in Writer, RegisterWriter(w) PROVE LockTypeOK'
  BY <1>13 DEF RegisterWriter, WriterStep, lockVars
<1>14. ASSUME NEW w \in Writer, StartWriter(w) PROVE LockTypeOK'
  BY <1>14 DEF StartWriter, WriterStep, lockVars
<1>15. ASSUME NEW w \in Writer, EndWriter(w) PROVE LockTypeOK'
  BY <1>15 DEF EndWriter, lockVars
<1>16. CASE UNCHANGED lifecycleVars
  BY <1>16 DEF lifecycleVars
<1> QED
  BY <1>1, <1>2, <1>3, <1>4, <1>5, <1>6, <1>7, <1>8, <1>9, <1>10, <1>11,
     <1>12, <1>13, <1>14, <1>15, <1>16 DEF LockNext

\* Type correctness of the lock and of the repair operations that hold it.
THEOREM TypeCorrect == LockSpec => []LockTypeOK
<1>1. LockInit => LockTypeOK
  BY OpAssumption DEF LockInit, LockTypeOK, HoldState, WriterState
<1> QED
  BY <1>1, TypeStep, PTL DEF LockSpec

----------------------------------------------------------------------------
(* Mutual exclusion, and repairs that keep the lock under their writers.    *)

\* One owner, and it is the active hold, before and after every step: release()
\* and the lease settle the hold that owns the lock or none.
LEMMA MutexStep ==
  LockTypeOK /\ MutualExclusion /\ [LockNext]_lifecycleVars => MutualExclusion'
<1> SUFFICES ASSUME LockTypeOK, MutualExclusion, [LockNext]_lifecycleVars PROVE MutualExclusion'
  OBVIOUS
<1> USE OpAssumption DEF LockTypeOK, MutualExclusion, Owning
<1>1. ASSUME NEW o \in Op, Acquire(o) PROVE MutualExclusion'
  BY <1>1 DEF Acquire
<1>2. ASSUME NEW o \in Op, TurnRuns(o) PROVE MutualExclusion'
  BY <1>2 DEF TurnRuns
<1>3. ASSUME NEW o \in Op, TryAcquire(o) PROVE MutualExclusion'
  BY <1>3 DEF TryAcquire
<1>4. ASSUME NEW o \in Op, Release(o) PROVE MutualExclusion'
  BY <1>4 DEF Release, BeginRelease, Finish, Settling, HoldState
<1>5. ASSUME NEW o \in Op, LeaseFires(o) PROVE MutualExclusion'
  BY <1>5 DEF LeaseFires, BeginRelease, Finish
<1>6. CASE LinkResolves
  BY <1>6 DEF LinkResolves
<1>7. ASSUME NEW r \in Repair, CleanupBlocks(r) PROVE MutualExclusion'
  BY <1>7 DEF CleanupBlocks
<1>8. ASSUME NEW r \in Repair, DrainEnds(r) PROVE MutualExclusion'
  BY <1>8 DEF DrainEnds, Finish
<1>9. ASSUME NEW r \in Repair, ShutdownCancels(r) PROVE MutualExclusion'
  BY <1>9 DEF ShutdownCancels, BeginRelease, Finish, Settling, HoldState
<1>10. ASSUME UNCHANGED <<active, hold>> PROVE MutualExclusion'
  BY <1>10
<1> QED
  BY <1>1, <1>2, <1>3, <1>4, <1>5, <1>6, <1>7, <1>8, <1>9, <1>10
     DEF LockNext, lifecycleVars, lockVars, DrainStarts, Cancel, FinishWork,
         RegisterWriter, StartWriter, EndWriter

\* A live writer keeps its repair the owner: registration needs a valid hold,
\* and only DrainEnds, which waits for the writers, frees a repair's lock.
LEMMA WriterStepRetains ==
  LockTypeOK /\ MutualExclusion /\ WriterRetainsLock /\ [LockNext]_lifecycleVars
    => WriterRetainsLock'
<1> SUFFICES ASSUME LockTypeOK, MutualExclusion, WriterRetainsLock, [LockNext]_lifecycleVars,
                    NEW w \in Writer, LiveWriter(w)'
             PROVE  active' = RepairOf[w]
  BY DEF WriterRetainsLock
<1> DEFINE r == RepairOf[w]
<1> USE OpAssumption DEF LockTypeOK, MutualExclusion, WriterRetainsLock, Owning, LiveWriter
<1>0. r \in Repair /\ r \in Op
  OBVIOUS
<1>1. ASSUME LiveWriter(w), active' # r PROVE FALSE
  <2>1. active = r
    BY <1>1
  <2>2. PICK o \in Op : hold[o] \in {"held", "cleanup", "cleanup_blocked"}
          /\ Finish(o) /\ (o \notin Repair \/ DrainEnds(o))
    BY <1>0, <1>1, <2>1 DEF LockNext, lifecycleVars, lockVars, Acquire, TurnRuns, TryAcquire,
       Release, LeaseFires, LinkResolves, CleanupBlocks, DrainStarts, DrainEnds,
       Cancel, FinishWork, ShutdownCancels, RegisterWriter, StartWriter,
       EndWriter, BeginRelease, Finish, Settling, HoldState
  <2>3. o = r
    BY <2>1, <2>2
  <2> QED
    BY <1>0, <1>1, <2>2, <2>3 DEF DrainEnds
<1>2. ASSUME ~LiveWriter(w) PROVE active' = r
  <2>1. \E v \in Writer : RegisterWriter(v) \/ StartWriter(v)
    BY <1>2 DEF LockNext, lifecycleVars, lockVars, repairVars, Acquire, TurnRuns, TryAcquire,
       Release, LeaseFires, LinkResolves, CleanupBlocks, DrainStarts, DrainEnds,
       Cancel, FinishWork, ShutdownCancels, EndWriter
  <2> QED
    BY <1>0, <1>2, <2>1 DEF RegisterWriter, StartWriter, WriterStep,
       HasAuthority, IsValid, lockVars
<1> QED
  BY <1>1, <1>2

----------------------------------------------------------------------------
(* The queue.  What the count of pending turns and the promise chain say of *)
(* each other is what makes tryAcquire() skip at the right moments.         *)

Queued == {o \in Op : hold[o] = "queued"}

\* pendingTurns counts the queued acquires.
CountOK == IsFiniteSet(Queued) /\ pendingTurns = Cardinality(Queued)

\* The chain holds every queued or owning hold, once, and nothing is queued
\* before something that is not.
ChainOK ==
  /\ \A i, j \in 1..Len(chain) : chain[i] = chain[j] => i = j
  /\ \A i \in 1..Len(chain) : hold[chain[i]] # "idle"
  /\ \A o \in Op : hold[o] = "queued" \/ Owning(o)
                    => \E i \in 1..Len(chain) : chain[i] = o
  /\ \A i, j \in 1..Len(chain) :
       i < j /\ hold[chain[i]] = "queued" => hold[chain[j]] = "queued"

\* Only Acquire and TurnRuns change who is queued.
LEMMA CountStep ==
  LockTypeOK /\ MutualExclusion /\ CountOK /\ [LockNext]_lifecycleVars => CountOK'
<1> SUFFICES ASSUME LockTypeOK, MutualExclusion, CountOK, [LockNext]_lifecycleVars PROVE CountOK'
  OBVIOUS
<1> USE OpAssumption DEF LockTypeOK, CountOK
<1>1. ASSUME NEW o \in Op, Acquire(o) PROVE CountOK'
  <2>1. Queued' = Queued \cup {o} /\ o \notin Queued
    BY <1>1 DEF Acquire, Queued
  <2> QED
    BY <1>1, <2>1, FS_AddElement DEF Acquire
<1>2. ASSUME NEW o \in Op, TurnRuns(o) PROVE CountOK'
  <2>1. Queued' = Queued \ {o} /\ o \in Queued
    BY <1>2 DEF TurnRuns, Queued
  <2> QED
    BY <1>2, <2>1, FS_RemoveElement DEF TurnRuns
<1>3. ASSUME Queued' = Queued, pendingTurns' = pendingTurns PROVE CountOK'
  BY <1>3
<1>4. CASE \E o \in Op : TryAcquire(o) \/ Release(o) \/ LeaseFires(o)
  BY <1>3, <1>4 DEF TryAcquire, Release, LeaseFires, BeginRelease, Finish,
     Settling, HoldState, Queued
<1>5. CASE LinkResolves \/ UNCHANGED <<hold, pendingTurns>>
  BY <1>3, <1>5 DEF LinkResolves, Queued
<1>6. CASE \E r \in Repair : CleanupBlocks(r) \/ DrainEnds(r) \/ ShutdownCancels(r)
  <2>1. PICK r \in Repair : CleanupBlocks(r) \/ DrainEnds(r) \/ ShutdownCancels(r)
    BY <1>6
  <2>2. CASE UNCHANGED hold
    BY <1>3, <2>1, <2>2 DEF CleanupBlocks, DrainEnds, ShutdownCancels, Queued
  <2>3. CASE ~UNCHANGED hold
    BY <1>3, <2>1, <2>3 DEF CleanupBlocks, DrainEnds, ShutdownCancels,
       BeginRelease, Finish, Settling, HoldState, MutualExclusion, Owning, Queued
  <2> QED
    BY <2>2, <2>3
<1> QED
  BY <1>1, <1>2, <1>4, <1>5, <1>6
     DEF LockNext, lifecycleVars, lockVars, DrainStarts, Cancel, FinishWork,
         RegisterWriter, StartWriter, EndWriter

\* No pending turn, no queued acquire.
LEMMA NoTurnNoQueue ==
  ASSUME CountOK, pendingTurns = 0
  PROVE  \A o \in Op : hold[o] # "queued"
  BY FS_EmptySet DEF CountOK, Queued

\* How a step may change a hold that is already in the chain: a turn that runs
\* is the first of the chain, and every other change leaves queued holds queued
\* and makes none of the others idle or queued.
LEMMA HoldsStayInOrder ==
  ASSUME LockTypeOK, MutualExclusion, [LockNext]_lifecycleVars,
         UNCHANGED chain, ~ \E o \in Op : TurnRuns(o)
  PROVE  /\ \A o \in Op : hold[o] = "queued" <=> hold'[o] = "queued"
         /\ \A o \in Op : hold[o] = "idle" <=> hold'[o] = "idle"
         /\ \A o \in Op : Owning(o)' => Owning(o)
<1> USE OpAssumption DEF LockTypeOK, MutualExclusion, Owning, HoldState
<1>1. ASSUME NEW o \in Op, Release(o) \/ LeaseFires(o) PROVE
        \A p \in Op : hold'[p] = hold[p] \/
          (hold[p] \in {"held", "cleanup", "cleanup_blocked"} /\
           hold'[p] \in {"cleanup", "released"})
  BY <1>1 DEF Release, LeaseFires, BeginRelease, Finish, Settling
<1>2. ASSUME NEW r \in Repair, CleanupBlocks(r) \/ DrainEnds(r) \/ ShutdownCancels(r)
      PROVE
        \A p \in Op : hold'[p] = hold[p] \/
          (hold[p] \in {"held", "cleanup", "cleanup_blocked"} /\
           hold'[p] \in {"cleanup", "cleanup_blocked", "released"})
  BY <1>2 DEF CleanupBlocks, DrainEnds, ShutdownCancels, BeginRelease, Finish, Settling
<1>3. ASSUME NEW o \in Op, Acquire(o) \/ TryAcquire(o) PROVE FALSE
  BY <1>3 DEF Acquire, TryAcquire
<1>4. \A p \in Op : hold'[p] = hold[p] \/
          (hold[p] \in {"held", "cleanup", "cleanup_blocked"} /\
           hold'[p] \in {"cleanup", "cleanup_blocked", "released"})
  BY <1>1, <1>2, <1>3 DEF LockNext, lifecycleVars, lockVars, LinkResolves, DrainStarts, Cancel,
     FinishWork, RegisterWriter, StartWriter, EndWriter
<1> QED
  BY <1>4

\* The chain stays in order: calls are appended behind it, a turn runs only at
\* its front, and a link leaves it only when its hold is released.
LEMMA ChainStep ==
  LockTypeOK /\ MutualExclusion /\ CountOK /\ ChainOK /\ [LockNext]_lifecycleVars => ChainOK'
<1> SUFFICES ASSUME LockTypeOK, MutualExclusion, CountOK, ChainOK, [LockNext]_lifecycleVars
             PROVE  ChainOK'
  OBVIOUS
<1> USE OpAssumption DEF LockTypeOK
<1>1. ASSUME NEW o \in Op, Acquire(o) \/ TryAcquire(o) PROVE ChainOK'
  <2>1. /\ hold[o] = "idle" /\ hold'[o] \in {"queued", "held"}
        /\ \A p \in Op : p # o => hold'[p] = hold[p]
        /\ chain' = Append(chain, o)
        /\ hold'[o] = "queued" \/ \A p \in Op : hold[p] # "queued"
    BY <1>1, NoTurnNoQueue DEF Acquire, TryAcquire
  <2>2. \A i \in 1..Len(chain) : chain[i] \in Op /\ chain[i] # o
    BY <2>1 DEF ChainOK
  <2>3. /\ Len(chain') = Len(chain) + 1
        /\ chain'[Len(chain) + 1] = o
        /\ \A i \in 1..Len(chain) : chain'[i] = chain[i]
    BY <2>1
  <2>4. \A i \in 1..Len(chain') :
          \/ i \in 1..Len(chain) /\ chain'[i] = chain[i] /\ chain[i] # o
               /\ hold'[chain[i]] = hold[chain[i]]
          \/ i = Len(chain) + 1 /\ chain'[i] = o
    BY <2>1, <2>2, <2>3
  <2>5. \A i, j \in 1..Len(chain') : chain'[i] = chain'[j] => i = j
    BY <2>4 DEF ChainOK
  <2>6. \A i \in 1..Len(chain') : hold'[chain'[i]] # "idle"
    BY <2>1, <2>4 DEF ChainOK
  <2>7. ASSUME NEW p \in Op, hold'[p] = "queued" \/ Owning(p)'
        PROVE  \E i \in 1..Len(chain') : chain'[i] = p
    <3>1. CASE p = o
      BY <2>3, <3>1
    <3>2. CASE p # o
      <4>1. PICK i \in 1..Len(chain) : chain[i] = p
        BY <2>1, <2>7, <3>2 DEF ChainOK, Owning
      <4> QED
        BY <2>3, <4>1
    <3> QED
      BY <3>1, <3>2
  <2>8. \A i, j \in 1..Len(chain') :
          i < j /\ hold'[chain'[i]] = "queued" => hold'[chain'[j]] = "queued"
    BY <2>1, <2>2, <2>4 DEF ChainOK
  <2> QED
    BY <2>5, <2>6, <2>7, <2>8 DEF ChainOK
<1>2. ASSUME NEW o \in Op, TurnRuns(o) PROVE ChainOK'
  <2>1. /\ chain[1] = o /\ hold[o] = "queued" /\ hold'[o] = "held"
        /\ \A p \in Op : p # o => hold'[p] = hold[p]
        /\ chain' = chain /\ Len(chain) \in Nat /\ Len(chain) >= 1
    BY <1>2 DEF TurnRuns
  <2>2. \A i \in 1..Len(chain) : chain[i] \in Op /\ (i # 1 => chain[i] # o)
    BY <2>1 DEF ChainOK
  <2>3. \A i \in 1..Len(chain) : hold'[chain[i]] # "idle"
    BY <2>1, <2>2 DEF ChainOK
  <2>4. ASSUME NEW p \in Op, hold'[p] = "queued" \/ Owning(p)'
        PROVE  \E i \in 1..Len(chain) : chain[i] = p
    <3>1. hold[p] = "queued" \/ Owning(p)
      BY <2>1, <2>4 DEF Owning
    <3> QED
      BY <3>1 DEF ChainOK
  <2>5. ASSUME NEW i \in 1..Len(chain), NEW j \in 1..Len(chain),
               i < j, hold'[chain[i]] = "queued"
        PROVE  hold'[chain[j]] = "queued"
    <3>1. j # 1 /\ hold[chain[i]] = "queued"
      BY <2>1, <2>2, <2>5
    <3>2. hold[chain[j]] = "queued"
      BY <2>5, <3>1 DEF ChainOK
    <3> QED
      BY <2>1, <2>2, <3>1, <3>2
  <2> QED
    BY <2>1, <2>3, <2>4, <2>5 DEF ChainOK
<1>3. CASE LinkResolves
  <2>1. /\ hold' = hold /\ chain' = Tail(chain) /\ chain # <<>>
        /\ hold[chain[1]] = "released"
    BY <1>3 DEF LinkResolves
  <2>2. /\ Len(chain') = Len(chain) - 1
        /\ \A i \in 1..Len(chain') : chain'[i] = chain[i + 1]
    BY <2>1
  <2>3. ASSUME NEW o \in Op, hold[o] = "queued" \/ Owning(o)
        PROVE  \E i \in 1..Len(chain') : chain'[i] = o
    <3>1. PICK i \in 1..Len(chain) : chain[i] = o
      BY <2>3 DEF ChainOK
    <3>2. i # 1
      BY <2>1, <2>3, <3>1 DEF Owning
    <3>3. i - 1 \in 1..Len(chain') /\ (i - 1) + 1 = i
      BY <2>2, <3>2
    <3> QED
      BY <2>2, <3>1, <3>3
  <2>4. \A i \in 1..Len(chain') : i + 1 \in 1..Len(chain) /\ i \in Int
    BY <2>2
  <2>5. \A i, j \in 1..Len(chain') : chain'[i] = chain'[j] => i = j
    <3> TAKE i, j \in 1..Len(chain')
    <3> HAVE chain'[i] = chain'[j]
    <3>1. i + 1 = j + 1
      BY <2>2, <2>4 DEF ChainOK
    <3> QED
      BY <2>4, <3>1
  <2>6. \A i \in 1..Len(chain') : hold[chain'[i]] # "idle"
    <3> TAKE i \in 1..Len(chain')
    <3>1. i + 1 \in 1..Len(chain) /\ chain'[i] = chain[i + 1]
      BY <2>2, <2>4
    <3> QED
      BY <3>1 DEF ChainOK
  <2>7. \A i, j \in 1..Len(chain') :
          i < j /\ hold[chain'[i]] = "queued" => hold[chain'[j]] = "queued"
    <3> TAKE i, j \in 1..Len(chain')
    <3> HAVE i < j /\ hold[chain'[i]] = "queued"
    <3>1. /\ i + 1 < j + 1 /\ hold[chain[i + 1]] = "queued"
          /\ i + 1 \in 1..Len(chain) /\ j + 1 \in 1..Len(chain)
      BY <2>2, <2>4
    <3>2. hold[chain[j + 1]] = "queued"
      BY <3>1 DEF ChainOK
    <3> QED
      BY <2>2, <3>2
  <2> QED
    BY <2>1, <2>3, <2>5, <2>6, <2>7 DEF ChainOK, Owning
<1>4. CASE UNCHANGED chain /\ ~ \E o \in Op : TurnRuns(o)
  <2>1. \A i \in 1..Len(chain) : chain[i] \in Op
    OBVIOUS
  <2>2. /\ \A o \in Op : hold[o] = "queued" <=> hold'[o] = "queued"
        /\ \A o \in Op : hold[o] = "idle" <=> hold'[o] = "idle"
        /\ \A o \in Op : Owning(o)' => Owning(o)
    BY <1>4, HoldsStayInOrder
  <2>3. \A i \in 1..Len(chain) : hold'[chain[i]] # "idle"
    BY <2>1, <2>2 DEF ChainOK
  <2>4. \A o \in Op : hold'[o] = "queued" \/ Owning(o)'
                        => \E i \in 1..Len(chain) : chain[i] = o
    BY <2>2 DEF ChainOK
  <2>5. \A i, j \in 1..Len(chain) :
          i < j /\ hold'[chain[i]] = "queued" => hold'[chain[j]] = "queued"
    BY <2>1, <2>2 DEF ChainOK
  <2> QED
    BY <1>4, <2>3, <2>4, <2>5 DEF ChainOK
<1> QED
  BY <1>1, <1>2, <1>3, <1>4 DEF LockNext, lifecycleVars, lockVars, Release, LeaseFires,
     CleanupBlocks, DrainStarts, DrainEnds, Cancel, FinishWork, ShutdownCancels,
     RegisterWriter, StartWriter, EndWriter

\* An acquire that was not told it waits stays next in line: nothing owning or
\* queued can come ahead of it.
LEMMA NoticeStep ==
  /\ LockTypeOK /\ MutualExclusion /\ CountOK /\ ChainOK /\ QueuedNoticeHonest
  /\ [LockNext]_lifecycleVars
  => QueuedNoticeHonest'
<1> SUFFICES ASSUME LockTypeOK, MutualExclusion, CountOK, ChainOK,
                    QueuedNoticeHonest, [LockNext]_lifecycleVars
             PROVE  QueuedNoticeHonest'
  OBVIOUS
<1> USE OpAssumption DEF LockTypeOK
<1>0. \A i \in 1..Len(chain) : chain[i] \in Op /\ i \in Int
  OBVIOUS
<1>1. ASSUME NEW o \in Op, Acquire(o) PROVE QueuedNoticeHonest'
  <2>1. /\ Len(chain') = Len(chain) + 1 /\ chain'[Len(chain) + 1] = o
        /\ \A i \in 1..Len(chain) : chain'[i] = chain[i] /\ chain[i] # o
        /\ \A p \in Op : p # o => hold'[p] = hold[p] /\ noticed'[p] = noticed[p]
        /\ active' = active
    BY <1>0, <1>1 DEF Acquire, ChainOK
  <2>2. CASE active = Null /\ pendingTurns = 0
    <3>1. \A i \in 1..Len(chain) : hold[chain[i]] = "released"
      BY <1>0, <2>2, NoTurnNoQueue DEF ChainOK, MutualExclusion, Owning, HoldState
    <3> QED
      BY <1>0, <2>1, <2>2, <3>1 DEF QueuedNoticeHonest
  <2>3. CASE ~(active = Null /\ pendingTurns = 0)
    <3>1. noticed'[o]
      <4>1. pendingTurns \in Nat
        BY FS_CardinalityType DEF CountOK
      <4>2. active # Null \/ pendingTurns > 0
        BY <2>3, <4>1
      <4>3. noticed'[o] = (active # Null \/ pendingTurns > 0)
        BY <1>1, Zenon DEF Acquire
      <4> QED
        BY <4>2, <4>3, Zenon
    <3> QED
      BY <1>0, <2>1, <3>1 DEF QueuedNoticeHonest
  <2> QED
    BY <2>2, <2>3
<1>2. ASSUME NEW o \in Op, TryAcquire(o) PROVE QueuedNoticeHonest'
  <2>1. \A p \in Op : hold'[p] # "queued"
    BY <1>2, NoTurnNoQueue DEF TryAcquire
  <2>2. \A i \in 1..Len(chain') : chain'[i] \in Op
    BY <1>2 DEF TryAcquire
  <2> QED
    BY <2>1, <2>2 DEF QueuedNoticeHonest
<1>3. ASSUME NEW o \in Op, TurnRuns(o) PROVE QueuedNoticeHonest'
  <2>1. chain[1] = o /\ hold[o] = "queued" /\ hold'[o] = "held" /\ 1 \in 1..Len(chain)
    BY <1>3 DEF TurnRuns
  <2>2. /\ chain' = chain /\ noticed' = noticed
        /\ \A p \in Op : p # o => hold'[p] = hold[p]
    BY <1>3 DEF TurnRuns
  <2>3. ASSUME NEW i \in 1..Len(chain), hold'[chain[i]] = "queued", ~noticed[chain[i]]
        PROVE  FALSE
    <3>1. i # 1 /\ hold[chain[i]] = "queued"
      BY <1>0, <2>1, <2>2, <2>3
    <3>2. 1 \in 1..(i - 1)
      BY <3>1
    <3> QED
      BY <2>1, <2>3, <3>1, <3>2 DEF QueuedNoticeHonest
  <2> QED
    BY <2>2, <2>3 DEF QueuedNoticeHonest
<1>4. CASE LinkResolves
  <2>1. /\ hold' = hold /\ noticed' = noticed /\ active' = active
        /\ Len(chain') = Len(chain) - 1
        /\ \A i \in 1..Len(chain') : chain'[i] = chain[i + 1] /\ i + 1 \in 1..Len(chain)
    BY <1>4 DEF LinkResolves
  <2>2. ASSUME NEW i \in 1..Len(chain'), hold[chain'[i]] = "queued", ~noticed[chain'[i]],
               NEW j \in 1..(i - 1)
        PROVE  active = Null /\ hold[chain'[j]] = "released"
    <3>1. j + 1 \in 1..((i + 1) - 1) /\ j \in 1..Len(chain')
      BY <2>1
    <3>2. /\ i + 1 \in 1..Len(chain)
          /\ hold[chain[i + 1]] = "queued" /\ ~noticed[chain[i + 1]]
      BY <2>1, <2>2
    <3>3. /\ active = Null
          /\ \A k \in 1..((i + 1) - 1) : hold[chain[k]] = "released"
      BY <3>2 DEF QueuedNoticeHonest
    <3> QED
      BY <2>1, <3>1, <3>3
  <2>3. ASSUME NEW i \in 1..Len(chain'), hold[chain'[i]] = "queued", ~noticed[chain'[i]]
        PROVE  active = Null
    BY <2>1, <2>3 DEF QueuedNoticeHonest
  <2> QED
    BY <2>1, <2>2, <2>3 DEF QueuedNoticeHonest
<1>5. CASE UNCHANGED <<chain, noticed>> /\ ~ \E o \in Op : TurnRuns(o)
  <2>1. LockTypeOK' /\ MutualExclusion'
    BY TypeStep, MutexStep
  <2>2. /\ \A o \in Op : hold[o] = "queued" <=> hold'[o] = "queued"
        /\ \A o \in Op : hold[o] = "idle" <=> hold'[o] = "idle"
        /\ \A o \in Op : Owning(o)' => Owning(o)
    BY <1>5, HoldsStayInOrder
  <2>3. active = Null => active' = Null
    BY <2>1, <2>2 DEF MutualExclusion
  <2>4. \A o \in Op : hold[o] = "released" => hold'[o] = "released"
    BY <2>1, <2>2 DEF Owning, HoldState
  <2>5. ASSUME NEW i \in 1..Len(chain), hold'[chain[i]] = "queued", ~noticed[chain[i]]
        PROVE  /\ active' = Null
               /\ \A j \in 1..(i - 1) : hold'[chain[j]] = "released"
    <3>1. /\ active = Null
          /\ \A j \in 1..(i - 1) : hold[chain[j]] = "released"
      BY <1>0, <2>2, <2>5 DEF QueuedNoticeHonest
    <3>2. \A j \in 1..(i - 1) : j \in 1..Len(chain)
      BY <1>0, <2>5
    <3> QED
      BY <1>0, <2>3, <2>4, <3>1, <3>2
  <2> QED
    BY <1>5, <2>5 DEF QueuedNoticeHonest
<1> QED
  BY <1>1, <1>2, <1>3, <1>4, <1>5 DEF LockNext, lifecycleVars, lockVars, Release, LeaseFires,
     CleanupBlocks, DrainStarts, DrainEnds, Cancel, FinishWork, ShutdownCancels,
     RegisterWriter, StartWriter, EndWriter

\* A plain hold settles at once: only the hold of a repair cleans up.
OnlyRepairsCleanUp ==
  \A o \in Op : hold[o] \in {"cleanup", "cleanup_blocked"} => o \in Repair

\* release() and the lease send only a repair's hold to cleanup.
LEMMA CleanupStep ==
  LockTypeOK /\ OnlyRepairsCleanUp /\ [LockNext]_lifecycleVars => OnlyRepairsCleanUp'
  BY OpAssumption DEF LockTypeOK, OnlyRepairsCleanUp, LockNext, lifecycleVars, lockVars,
     Acquire, TurnRuns, TryAcquire, Release, LeaseFires, LinkResolves, CleanupBlocks, DrainStarts, DrainEnds,
     Cancel, FinishWork, ShutdownCancels, BeginRelease, Finish, RegisterWriter,
     StartWriter, EndWriter

----------------------------------------------------------------------------
(* The theorems.                                                            *)

\* The inductive invariant: who owns, who waits, and in which order.
IInv ==
  /\ LockTypeOK
  /\ MutualExclusion
  /\ WriterRetainsLock
  /\ CountOK
  /\ ChainOK
  /\ OnlyRepairsCleanUp
  /\ QueuedNoticeHonest

\* The invariant of the lock: every step of acquire, tryAcquire, release, the
\* lease, the cleanup and the writers keeps it.
THEOREM Inductive == LockSpec => []IInv
<1>1. LockInit => IInv
  <2> SUFFICES ASSUME LockInit PROVE IInv
    OBVIOUS
  <2>1. LockTypeOK /\ MutualExclusion /\ WriterRetainsLock /\ ChainOK /\ QueuedNoticeHonest
    BY OpAssumption DEF LockInit, LockTypeOK, HoldState, WriterState, MutualExclusion,
       WriterRetainsLock, Owning, LiveWriter, ChainOK, QueuedNoticeHonest
  <2>2. Queued = {}
    BY DEF LockInit, Queued
  <2>3. CountOK
    BY <2>2, FS_EmptySet DEF LockInit, CountOK
  <2> QED
    BY <2>1, <2>3 DEF IInv, LockInit, OnlyRepairsCleanUp
<1>2. IInv /\ [LockNext]_lifecycleVars => IInv'
  BY TypeStep, MutexStep, WriterStepRetains, CountStep, ChainStep, NoticeStep,
     CleanupStep DEF IInv
<1> QED
  BY <1>1, <1>2, PTL DEF LockSpec

\* One hold at a time owns the lock, for any number of callers, whatever their
\* leases, late releases, cancellations and cleanups do.
THEOREM LockIsExclusive == LockSpec => []MutualExclusion
<1>1. IInv => MutualExclusion
  BY DEF IInv
<1> QED
  BY <1>1, Inductive, PTL

\* No successor owns the lock while a writer of an earlier repair is live.
THEOREM WritersRetainTheLock == LockSpec => []WriterRetainsLock
<1>1. IInv => WriterRetainsLock
  BY DEF IInv
<1> QED
  BY <1>1, Inductive, PTL

\* An acquire whose onQueued did not fire is not made to wait.
THEOREM NoticesAreHonest == LockSpec => []QueuedNoticeHonest
<1>1. IInv => QueuedNoticeHonest
  BY DEF IInv
<1> QED
  BY <1>1, Inductive, PTL

\* A queue that waits, waits for something: its front is a settled link, a turn that
\* finds the lock free, or an owner with an armed lease or a drain to finish.
THEOREM QueueDoesNotStall == LockSpec => []QueueNeverStalls
<1>1. IInv => QueueNeverStalls
  <2> SUFFICES ASSUME IInv, NEW o \in Op, hold[o] = "queued"
               PROVE  /\ chain # <<>>
                      /\ \/ hold[Head(chain)] = "released"
                         \/ hold[Head(chain)] = "queued" /\ active = Null
                         \/ /\ active = Head(chain)
                            /\ hold[active] = "held" \/ active \in Repair
    BY DEF QueueNeverStalls
  <2> USE DEF IInv, LockTypeOK
  <2>1. PICK k \in 1..Len(chain) : chain[k] = o
    BY DEF ChainOK
  <2>2. /\ chain # <<>> /\ 1 \in 1..Len(chain) /\ Head(chain) = chain[1]
        /\ chain[1] \in Op
    BY <2>1
  <2>3. CASE Owning(chain[1])
    BY <2>2, <2>3 DEF MutualExclusion, Owning, OnlyRepairsCleanUp
  <2>4. ASSUME hold[chain[1]] = "queued", active # Null PROVE FALSE
    <3>1. active \in Op /\ Owning(active)
      BY <2>4 DEF MutualExclusion
    <3>2. PICK i \in 1..Len(chain) : chain[i] = active
      BY <3>1 DEF ChainOK
    <3>3. i # 1 /\ 1 < i
      BY <2>4, <3>1, <3>2 DEF Owning
    <3> QED
      BY <2>2, <2>4, <3>1, <3>2, <3>3 DEF ChainOK, Owning
  <2> QED
    BY <2>2, <2>3, <2>4 DEF ChainOK, Owning, HoldState
<1> QED
  BY <1>1, Inductive, PTL

\* Work starts only with authority, and an owner loses the lock only by settling.
THEOREM AuthorityHolds == LockSpec => AuthorityIsRespected
<1>1. IInv /\ [LockNext]_lifecycleVars => [AuthorityStep]_lifecycleVars
  <2> SUFFICES ASSUME IInv, LockNext PROVE AuthorityStep
    OBVIOUS
  <2> USE OpAssumption DEF IInv, LockTypeOK
  <2>1. ASSUME NEW w \in Writer, writer[w] # "running", writer'[w] = "running"
        PROVE  HasAuthority(RepairOf[w])
    <3>1. PICK v \in Writer : RegisterWriter(v) \/ StartWriter(v)
      BY <2>1 DEF LockNext, lockVars, repairVars, Acquire, TurnRuns, TryAcquire,
         Release, LeaseFires, LinkResolves, CleanupBlocks, DrainStarts,
         DrainEnds, Cancel, FinishWork, ShutdownCancels, EndWriter
    <3>2. v = w /\ StartWriter(w)
      BY <2>1, <3>1 DEF RegisterWriter, StartWriter, WriterStep
    <3> QED
      BY <2>1, <3>2 DEF StartWriter, WriterStep
  <2>2. ASSUME NEW o \in Op, active = o, active' # o
        PROVE  hold'[o] = "released"
    <3>1. PICK p \in Op : Finish(p)
      BY <2>2 DEF LockNext, lockVars, Acquire, TurnRuns, TryAcquire, Release,
         LeaseFires, LinkResolves, CleanupBlocks, DrainStarts, DrainEnds, Cancel,
         FinishWork, ShutdownCancels, BeginRelease, RegisterWriter, StartWriter,
         EndWriter
    <3> QED
      BY <2>2, <3>1 DEF Finish
  <2> QED
    BY <2>1, <2>2 DEF AuthorityStep
<1> QED
  BY <1>1, Inductive, PTL DEF LockSpec, AuthorityIsRespected

----------------------------------------------------------------------------
(* The lock is a FIFO mutex.                                                *)

\* pendingTurns counts the queued links, and they are the last of the chain.
QueueIsSuffix ==
  /\ pendingTurns \in 0..Len(chain)
  /\ \A i \in 1..Len(chain) : hold[chain[i]] = "queued" <=> i > Len(chain) - pendingTurns

\* A call joins the queue at its end, a turn leaves it at the front of the chain, and
\* whatever else happens leaves the queued links queued.
LEMMA SuffixStep == IInv /\ QueueIsSuffix /\ [LockNext]_lifecycleVars => QueueIsSuffix'
<1> SUFFICES ASSUME IInv, QueueIsSuffix, [LockNext]_lifecycleVars PROVE QueueIsSuffix'
  OBVIOUS
<1> USE OpAssumption DEF IInv, LockTypeOK
<1>0. Len(chain) \in Nat /\ \A i \in 1..Len(chain) : chain[i] \in Op
  OBVIOUS
<1>1. ASSUME NEW o \in Op, Acquire(o) \/ TryAcquire(o) PROVE QueueIsSuffix'
  <2>1. /\ Len(chain') = Len(chain) + 1 /\ chain'[Len(chain) + 1] = o
        /\ \A i \in 1..Len(chain) : chain'[i] = chain[i]
    <3>1. chain \in Seq(Op) /\ chain' = Append(chain, o)
      BY <1>1 DEF Acquire, TryAcquire
    <3> QED
      BY <3>1, AppendProperties
  <2>2. \A i \in 1..Len(chain) : hold'[chain[i]] = hold[chain[i]]
    BY <1>0, <1>1 DEF Acquire, TryAcquire, ChainOK
  <2>3. \/ hold'[o] = "queued" /\ pendingTurns' = pendingTurns + 1
        \/ hold'[o] = "held" /\ pendingTurns = 0 /\ pendingTurns' = 0
    BY <1>1 DEF Acquire, TryAcquire
  <2>4. pendingTurns' \in 0..Len(chain')
    BY <1>0, <2>1, <2>3 DEF QueueIsSuffix
  <2>5. ASSUME NEW i \in 1..Len(chain')
        PROVE  hold'[chain'[i]] = "queued" <=> i > Len(chain') - pendingTurns'
    <3>1. CASE i \in 1..Len(chain)
      <4>1. hold'[chain'[i]] = "queued" <=> i > Len(chain) - pendingTurns
        BY <2>1, <2>2, <3>1 DEF QueueIsSuffix
      <4> QED
        BY <1>0, <2>1, <2>3, <3>1, <4>1 DEF QueueIsSuffix
    <3>2. CASE i = Len(chain) + 1
      BY <1>0, <2>1, <2>3, <3>2 DEF QueueIsSuffix
    <3> QED
      BY <1>0, <2>1, <3>1, <3>2
  <2> QED
    BY <2>4, <2>5 DEF QueueIsSuffix
<1>2. ASSUME NEW o \in Op, TurnRuns(o) PROVE QueueIsSuffix'
  <2>1. /\ chain' = chain /\ Len(chain) >= 1 /\ chain[1] = o /\ hold[o] = "queued"
        /\ hold'[o] = "held" /\ \A p \in Op \ {o} : hold'[p] = hold[p]
        /\ pendingTurns' = pendingTurns - 1
    BY <1>2 DEF TurnRuns
  <2>2. pendingTurns = Len(chain)
    BY <1>0, <2>1 DEF QueueIsSuffix
  <2>3. \A i \in 1..Len(chain) : chain[i] = o <=> i = 1
    BY <1>0, <2>1 DEF ChainOK
  <2> QED
    BY <1>0, <2>1, <2>2, <2>3 DEF QueueIsSuffix
<1>3. CASE LinkResolves
  <2>1. /\ hold' = hold /\ pendingTurns' = pendingTurns /\ Len(chain) >= 1
        /\ hold[chain[1]] = "released" /\ Len(chain') = Len(chain) - 1
        /\ \A i \in 1..Len(chain') : chain'[i] = chain[i + 1]
    BY <1>3 DEF LinkResolves
  <2>2. pendingTurns <= Len(chain) - 1
    BY <1>0, <2>1 DEF QueueIsSuffix
  <2>3. \A i \in 1..Len(chain') : i + 1 \in 1..Len(chain)
    BY <1>0, <2>1
  <2> QED
    BY <1>0, <2>1, <2>2, <2>3 DEF QueueIsSuffix
<1>4. CASE UNCHANGED <<chain, pendingTurns>> /\ ~ \E o \in Op : TurnRuns(o)
  <2>1. \A o \in Op : hold[o] = "queued" <=> hold'[o] = "queued"
    BY <1>4, HoldsStayInOrder
  <2> QED
    BY <1>0, <1>4, <2>1 DEF QueueIsSuffix
<1> QED
  BY <1>1, <1>2, <1>3, <1>4 DEF LockNext, lifecycleVars, lockVars, Release, LeaseFires,
     CleanupBlocks, DrainStarts, DrainEnds, Cancel, FinishWork, ShutdownCancels,
     RegisterWriter, StartWriter, EndWriter

\* The last k elements of a sequence.
LEMMA LastElements ==
  ASSUME NEW S, NEW s \in Seq(S), NEW k \in 0..Len(s)
  PROVE  /\ SubSeq(s, Len(s) - k + 1, Len(s)) \in Seq(S)
         /\ Len(SubSeq(s, Len(s) - k + 1, Len(s))) = k
         /\ \A i \in 1..k : SubSeq(s, Len(s) - k + 1, Len(s))[i] = s[Len(s) - k + i]
<1> DEFINE m == Len(s) - k + 1
           n == Len(s)
<1>1. m \in Int /\ n \in Nat /\ m >= 1 /\ n - m + 1 = k /\ k \in Nat
  OBVIOUS
<1>2. \A i \in m..n : s[i] \in S
  BY <1>1
<1>3. \A i \in 1..k : m + i - 1 = n - k + i
  OBVIOUS
<1>4. /\ SubSeq(s, m, n) \in Seq(S)
      /\ Len(SubSeq(s, m, n)) = IF m <= n THEN n - m + 1 ELSE 0
      /\ \A i \in 1..(n - m + 1) : SubSeq(s, m, n)[i] = s[m + i - 1]
  <2> HIDE DEF m, n
  <2> QED
    BY <1>1, <1>2, SubSeqProperties
<1> QED
  BY <1>1, <1>3, <1>4

\* The mapped state: acquires waiting in order, and those that are over.
Done == {o \in Op : hold[o] = "released"}

\* A step that moves neither the owner, nor the queue, nor a hold to its end.
LEMMA SameIsStutter ==
  ASSUME UNCHANGED <<active, chain, pendingTurns>>, Done' = Done
  PROVE  UNCHANGED Abstract!vars
  BY DEF Abstract!vars, WaitingTurns, Done

\* finish() of the owner is its leaving; of any other hold, nothing.
LEMMA FinishIsLeave ==
  ASSUME IInv, NEW o \in Op, Owning(o), Finish(o), UNCHANGED <<chain, pendingTurns>>
  PROVE  Abstract!Leave
<1>1. active = o /\ active # Null /\ active' = Null
  BY OpAssumption DEF IInv, MutualExclusion, Finish
<1>2. Done' = Done \cup {active}
  BY <1>1 DEF Finish, Done, IInv, LockTypeOK
<1>3. WaitingTurns' = WaitingTurns
  BY DEF WaitingTurns
<1> QED
  BY <1>1, <1>2, <1>3 DEF Abstract!Leave, Done

\* A call of acquire() asks, and joins the queue at its end.
LEMMA AcquireIsAsk ==
  ASSUME IInv, QueueIsSuffix, QueueIsSuffix', LockTypeOK', NEW o \in Op, Acquire(o)
  PROVE  Abstract!Ask(o)
<1> USE DEF IInv, LockTypeOK
<1> DEFINE n == Len(chain)
           p == pendingTurns
<1>0. n \in Nat /\ p \in 0..n /\ WaitingTurns \in Seq(Op) /\ Len(WaitingTurns) = p
  BY LastElements DEF QueueIsSuffix, WaitingTurns
<1>1. /\ hold[o] = "idle" /\ p' = p + 1 /\ n' = n + 1 /\ active' = active
      /\ chain'[n + 1] = o /\ \A i \in 1..n : chain'[i] = chain[i]
      /\ \A q \in Op \ {o} : hold'[q] = hold[q]
      /\ hold'[o] = "queued"
  BY DEF Acquire
<1>2. o \notin Done /\ o # active
  BY <1>1 DEF Done, MutualExclusion, Owning
<1>5. Done' = Done
  BY <1>1 DEF Done
<1>3. \A i \in 1..Len(WaitingTurns) : WaitingTurns[i] # o
  <2> TAKE i \in 1..Len(WaitingTurns)
  <2>1. n - p + i \in 1..n /\ WaitingTurns[i] = chain[n - p + i]
    BY <1>0, LastElements DEF WaitingTurns
  <2> QED
    BY <1>1, <2>1 DEF ChainOK
<1>4. WaitingTurns' = Append(WaitingTurns, o)
  <2>1. /\ WaitingTurns' \in Seq(Op) /\ Len(WaitingTurns') = p'
        /\ \A i \in 1..p' : WaitingTurns'[i] = chain'[n' - p' + i]
    BY LastElements DEF QueueIsSuffix, WaitingTurns
  <2>2. /\ Append(WaitingTurns, o) \in Seq(Op) /\ Len(Append(WaitingTurns, o)) = p + 1
        /\ \A i \in 1..p : Append(WaitingTurns, o)[i] = WaitingTurns[i]
        /\ Append(WaitingTurns, o)[p + 1] = o
    BY <1>0, AppendProperties
  <2>3. ASSUME NEW i \in 1..(p + 1) PROVE WaitingTurns'[i] = Append(WaitingTurns, o)[i]
    <3>1. n' - p' + i = n - p + i /\ WaitingTurns'[i] = chain'[n - p + i]
      BY <1>0, <1>1, <2>1
    <3>2. CASE i = p + 1
      BY <1>0, <1>1, <2>2, <3>1, <3>2
    <3>3. CASE i \in 1..p
      <4>1. n - p + i \in 1..n
        BY <1>0, <3>3
      <4> QED
        BY <1>1, <2>2, <3>1, <3>3, <4>1, LastElements DEF WaitingTurns
    <3> QED
      BY <1>0, <3>2, <3>3
  <2> QED
    BY <1>1, <2>1, <2>2, <2>3, SeqEqual
<1> QED
  BY <1>1, <1>2, <1>3, <1>4, <1>5 DEF Abstract!Ask, Abstract!Fresh, Done

\* The turn that runs was the first of those who wait.
LEMMA TurnIsServe ==
  ASSUME IInv, QueueIsSuffix, QueueIsSuffix', LockTypeOK', NEW o \in Op, TurnRuns(o)
  PROVE  Abstract!Serve
<1> USE DEF IInv, LockTypeOK
<1> DEFINE n == Len(chain)
<1>1. /\ chain' = chain /\ n \in Nat /\ n >= 1 /\ chain[1] = o /\ hold[o] = "queued"
      /\ active = Null /\ active' = o /\ pendingTurns' = pendingTurns - 1
  BY DEF TurnRuns
<1>2. pendingTurns = n
  BY <1>1 DEF QueueIsSuffix
<1>3. WaitingTurns = chain /\ chain # <<>>
  BY <1>1, <1>2, SubSeqFull DEF WaitingTurns
<1>4. WaitingTurns' = Tail(chain)
  BY <1>1, <1>2, <1>3, TailIsSubSeq DEF WaitingTurns
<1>5. Done' = Done
  BY DEF TurnRuns, Done
<1> QED
  BY <1>1, <1>3, <1>4, <1>5 DEF Abstract!Serve, Done

\* tryAcquire() takes a lock that nobody owns or waits for.
LEMMA TryAcquireIsTakeNow ==
  ASSUME IInv, QueueIsSuffix, QueueIsSuffix', LockTypeOK', NEW o \in Op, TryAcquire(o)
  PROVE  Abstract!TakeNow(o)
<1> USE DEF IInv, LockTypeOK
<1>1. /\ hold[o] = "idle" /\ hold'[o] = "held" /\ active = Null /\ active' = o
      /\ pendingTurns = 0 /\ pendingTurns' = 0
      /\ \A q \in Op \ {o} : hold'[q] = hold[q]
  BY DEF TryAcquire
<1>2. WaitingTurns = <<>> /\ WaitingTurns' = <<>>
  <2>1. Len(chain) \in Nat /\ Len(chain') \in Nat
    OBVIOUS
  <2> QED
    BY <1>1, <2>1, SubSeqEmpty DEF WaitingTurns
<1>3. o \notin Done /\ o # active
  BY <1>1, OpAssumption DEF Done
<1>4. Done' = Done
  BY <1>1 DEF Done
<1> QED
  BY <1>1, <1>2, <1>3, <1>4 DEF Abstract!TakeNow, Abstract!Fresh, Done

\* A link that resolves stood for no one who waits.
LEMMA LinkIsStutter ==
  ASSUME IInv, QueueIsSuffix, QueueIsSuffix', LockTypeOK', LinkResolves
  PROVE  UNCHANGED Abstract!vars
<1> USE DEF IInv, LockTypeOK
<1> DEFINE n == Len(chain)
           p == pendingTurns
<1>1. /\ UNCHANGED <<hold, active, pendingTurns>> /\ n \in Nat /\ n >= 1
      /\ hold[chain[1]] = "released" /\ Len(chain') = n - 1
      /\ \A i \in 1..(n - 1) : chain'[i] = chain[i + 1]
  BY DEF LinkResolves
<1>2. p \in 0..(n - 1)
  BY <1>1 DEF QueueIsSuffix
<1>3. /\ WaitingTurns \in Seq(Op) /\ Len(WaitingTurns) = p
      /\ \A i \in 1..p : WaitingTurns[i] = chain[n - p + i]
  BY <1>1, <1>2, LastElements DEF WaitingTurns
<1>4. /\ WaitingTurns' \in Seq(Op) /\ Len(WaitingTurns') = p
      /\ \A i \in 1..p : WaitingTurns'[i] = chain'[(n - 1) - p + i]
  BY <1>1, <1>2, LastElements DEF WaitingTurns
<1>5. ASSUME NEW i \in 1..p PROVE WaitingTurns'[i] = WaitingTurns[i]
  <2> DEFINE k == (n - 1) - p + i
  <2>1. k \in 1..(n - 1) /\ k + 1 = n - p + i
    BY <1>1, <1>2
  <2>2. WaitingTurns'[i] = chain'[k] /\ WaitingTurns[i] = chain[n - p + i]
    BY <1>3, <1>4
  <2>3. chain'[k] = chain[k + 1]
    BY <1>1, <2>1
  <2> QED
    BY <2>1, <2>2, <2>3
<1>6. WaitingTurns' = WaitingTurns
  BY <1>3, <1>4, <1>5, SeqEqual
<1> QED
  BY <1>1, <1>6 DEF Abstract!vars

\* Every step of the lock is one of the FIFO mutex, or a stutter.
LEMMA FifoStep ==
  IInv /\ QueueIsSuffix /\ [LockNext]_lifecycleVars => [Abstract!Next]_(Abstract!vars)
<1> SUFFICES ASSUME IInv, QueueIsSuffix, [LockNext]_lifecycleVars
             PROVE  [Abstract!Next]_(Abstract!vars)
  OBVIOUS
<1>0. QueueIsSuffix' /\ LockTypeOK'
  BY SuffixStep, TypeStep DEF IInv
<1> USE OpAssumption
<1>1. ASSUME NEW o \in Op, Acquire(o) PROVE Abstract!Next
  BY <1>0, <1>1, AcquireIsAsk DEF Abstract!Next
<1>2. ASSUME NEW o \in Op, TryAcquire(o) PROVE Abstract!Next
  BY <1>0, <1>2, TryAcquireIsTakeNow DEF Abstract!Next
<1>3. ASSUME NEW o \in Op, TurnRuns(o) PROVE Abstract!Next
  BY <1>0, <1>3, TurnIsServe DEF Abstract!Next
<1>4. CASE LinkResolves
  BY <1>0, <1>4, LinkIsStutter
<1>5. ASSUME NEW o \in Op, Finish(o), Owning(o), UNCHANGED <<chain, pendingTurns>>
      PROVE  Abstract!Next
  BY <1>5, FinishIsLeave DEF Abstract!Next
<1>6. ASSUME NEW o \in Op, hold[o] # "released", NEW s \in HoldState \ {"released"},
             hold' = [hold EXCEPT ![o] = s], UNCHANGED <<active, chain, pendingTurns>>
      PROVE  UNCHANGED Abstract!vars
  <2>1. Done' = Done
    BY <1>6 DEF Done, IInv, LockTypeOK
  <2> QED
    BY <1>6, <2>1, SameIsStutter
<1>7. ASSUME UNCHANGED <<hold, active, chain, pendingTurns>> PROVE UNCHANGED Abstract!vars
  BY <1>7, SameIsStutter DEF Done
<1>8. ASSUME NEW o \in Op, Owning(o), hold[o] = "held", BeginRelease(o),
             UNCHANGED <<chain, pendingTurns>>
      PROVE  [Abstract!Next]_(Abstract!vars)
  BY <1>5, <1>6, <1>8 DEF BeginRelease, HoldState
<1>9. ASSUME NEW o \in Op, Release(o) \/ LeaseFires(o)
      PROVE  [Abstract!Next]_(Abstract!vars)
  BY <1>7, <1>8, <1>9 DEF Release, LeaseFires, Settling, Owning, IInv, LockTypeOK, HoldState
<1>10. ASSUME NEW r \in Repair, CleanupBlocks(r) \/ DrainEnds(r) \/ ShutdownCancels(r)
       PROVE  [Abstract!Next]_(Abstract!vars)
  <2>1. r \in Op
    OBVIOUS
  <2>2. CASE CleanupBlocks(r)
    BY <1>6, <2>1, <2>2 DEF CleanupBlocks, HoldState
  <2>3. CASE DrainEnds(r)
    BY <1>5, <2>1, <2>3 DEF DrainEnds, Owning
  <2>4. CASE ShutdownCancels(r)
    <3>1. Owning(r)
      BY <2>1, <2>4 DEF ShutdownCancels, IInv, MutualExclusion
    <3> QED
      BY <1>7, <1>8, <2>1, <2>4, <3>1 DEF ShutdownCancels, Settling, Owning
  <2> QED
    BY <1>10, <2>2, <2>3, <2>4
<1> QED
  BY <1>1, <1>2, <1>3, <1>4, <1>7, <1>9, <1>10 DEF LockNext, lifecycleVars, lockVars, repairVars,
     DrainStarts, Cancel, FinishWork, RegisterWriter, StartWriter, EndWriter

\* For any callers, leases, cleanups and shutdowns, the lifecycle lock is a FIFO mutex:
\* acquires are served in the order they were made, and a tryAcquire takes the lock
\* only when nobody owns it or waits for it.
THEOREM ImplementsFifo == LockSpec => Abstract!Spec
<1>1. LockInit => QueueIsSuffix /\ Abstract!Init
  <2> SUFFICES ASSUME LockInit PROVE QueueIsSuffix /\ Abstract!Init
    OBVIOUS
  <2>1. chain = <<>> /\ Len(chain) = 0 /\ pendingTurns = 0
    BY DEF LockInit
  <2>2. WaitingTurns = <<>>
    BY <2>1, SubSeqEmpty DEF WaitingTurns
  <2> QED
    BY <2>1, <2>2 DEF LockInit, QueueIsSuffix, Abstract!Init
<1>2. IInv /\ QueueIsSuffix /\ [LockNext]_lifecycleVars => QueueIsSuffix'
  BY SuffixStep
<1>3. IInv /\ QueueIsSuffix /\ [LockNext]_lifecycleVars => [Abstract!Next]_(Abstract!vars)
  BY FifoStep
<1> QED
  BY <1>1, <1>2, <1>3, Inductive, PTL DEF LockSpec, Abstract!Spec

==========================================================================
