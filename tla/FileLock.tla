----------------------------- MODULE FileLock -----------------------------
(***************************************************************************)
(* withFileLockSync (lib/server/utils/safe-file.js): the `<file>.lock`     *)
(* that the server and the CLI, separate processes, create exclusively     *)
(* around a read-modify-write of a shared file, and how waiters break the  *)
(* lock of a dead holder.  Every system call is a step, and a process may  *)
(* die at any of them.                                                     *)
(***************************************************************************)
CONSTANTS Process, \* the processes that use the lock; one that died has no successor here
          NoFile   \* lockPath names nothing

VARIABLES
  lockFile,  \* what lockPath names: who created it, whether its record is written, its age
  locking,   \* where each process is in withFileLockSync
  examined,  \* history: who has found the file of now under lockPath stale
  missed     \* history: a waiter broke a lock that it had not examined

examining == <<examined, missed>>
fileLockVars == <<lockFile, locking, examining>>

\* A record that was not written parses to nothing.
LockFile == [by : Process, written : BOOLEAN, old : BOOLEAN]

ASSUME FileLockAssumption == NoFile \notin LockFile

LockStep == {"idle", "opening", "created", "holding", "stated", "judged", "dead"}

FileLockTypeOK ==
  /\ lockFile \in LockFile \cup {NoFile}
  /\ locking \in [Process -> LockStep]
  /\ examined \subseteq Process /\ missed \in BOOLEAN

FileLockInit ==
  /\ lockFile = NoFile
  /\ locking = [p \in Process |-> "idle"]
  /\ examined = {} /\ missed = FALSE

LockMoves(p, s) == locking' = [locking EXCEPT ![p] = s]
HolderAlive(p) == locking[p] # "dead"

StartLocking(p) ==
  /\ locking[p] = "idle" /\ LockMoves(p, "opening")
  /\ UNCHANGED <<lockFile, examining>>

\* openSync(lockPath, "wx") succeeds.
CreateLockFile(p) ==
  /\ locking[p] = "opening" /\ lockFile = NoFile
  /\ lockFile' = [by |-> p, written |-> FALSE, old |-> FALSE]
  /\ LockMoves(p, "created") /\ UNCHANGED examining

\* writeSync() of the record, to the file this process created.
WriteLockRecord(p) ==
  /\ locking[p] = "created"
  /\ lockFile' = IF lockFile # NoFile /\ lockFile.by = p
                 THEN [lockFile EXCEPT !.written = TRUE] ELSE lockFile
  /\ LockMoves(p, "holding") /\ UNCHANGED examining

\* fn() returned or threw: lockPath is unlinked, whatever it names.
Unlock(p) ==
  /\ locking[p] = "holding"
  /\ lockFile' = NoFile
  /\ LockMoves(p, "idle")
  /\ examined' = {} /\ UNCHANGED missed

\* Mutant: any lock in the way is taken for a stale one.
StatIgnoringAge(p) ==
  /\ locking[p] = "opening" /\ lockFile # NoFile
  /\ LockMoves(p, "stated") /\ examined' = examined \cup {p} /\ UNCHANGED <<lockFile, missed>>

\* EEXIST, and tryBreakStaleLock finds the file old.
StatLock(p) ==
  /\ locking[p] = "opening" /\ lockFile # NoFile /\ lockFile.old
  /\ LockMoves(p, "stated") /\ examined' = examined \cup {p} /\ UNCHANGED <<lockFile, missed>>

\* Mutant: a lock without a readable holder is left alone.
JudgeKeepingUnknown(p) ==
  /\ locking[p] = "stated"
  /\ LockMoves(p, IF lockFile # NoFile /\ lockFile.written /\ ~HolderAlive(lockFile.by)
                  THEN "judged" ELSE "opening")
  /\ UNCHANGED <<lockFile, examining>>

\* readLockRecord() and isHolderAlive(): a live holder is waited for, until the
\* deadline; one that is dead, or not recorded (the file may be gone by now), is
\* not.
JudgeHolder(p) ==
  /\ locking[p] = "stated"
  /\ IF lockFile # NoFile /\ lockFile.written /\ HolderAlive(lockFile.by)
     THEN \E s \in {"opening", "idle"} : LockMoves(p, s)
     ELSE LockMoves(p, "judged")
  /\ UNCHANGED <<lockFile, examining>>

\* renameSync(lockPath, claimPath), of whatever lockPath names now; it fails
\* when there is nothing.  The claim is unlinked, which nobody else sees.
ClaimStaleLock(p) ==
  /\ locking[p] = "judged"
  /\ lockFile' = NoFile
  /\ missed' = (missed \/ (lockFile # NoFile /\ p \notin examined))
  /\ LockMoves(p, "opening") /\ examined' = {}

\* ELOCKTIMEOUT, for a lock found young.
GiveUpLocking(p) ==
  /\ locking[p] = "opening" /\ lockFile # NoFile /\ ~lockFile.old
  /\ LockMoves(p, "idle") /\ UNCHANGED <<lockFile, examining>>

\* kStaleLockMs pass.  A live process does not take that long between its two
\* system calls.
LockAges ==
  /\ lockFile # NoFile /\ ~lockFile.old
  /\ locking[lockFile.by] = "created" => lockFile.written
  /\ lockFile' = [lockFile EXCEPT !.old = TRUE]
  /\ UNCHANGED <<locking, examining>>

\* The process dies; its lock file stays.
HolderDies(p) ==
  /\ locking[p] # "dead" /\ LockMoves(p, "dead")
  /\ UNCHANGED <<lockFile, examining>>

FileLockNext ==
  \/ LockAges
  \/ \E p \in Process :
       \/ StartLocking(p) \/ CreateLockFile(p) \/ WriteLockRecord(p) \/ Unlock(p)
       \/ StatLock(p) \/ JudgeHolder(p) \/ ClaimStaleLock(p)
       \/ GiveUpLocking(p) \/ HolderDies(p)

FileLockSpec == FileLockInit /\ [][FileLockNext]_fileLockVars

----------------------------------------------------------------------------
(* Properties. *)

InLock(p) == locking[p] \in {"created", "holding"}

\* The claim of the comment on tryBreakStaleLock: two waiters cannot both break
\* one lock and both acquire it.
LockHasOneHolder == \A p, q \in Process : InLock(p) /\ InLock(q) => p = q

\* What breaking a lock does give: as long as each rename hits the very file that its waiter
\* found stale, and not one that was created since, two processes are never inside together,
\* however many locks of dead holders are broken, and the file under lockPath is the holder's
\* own, so its unlink hits nobody else.
StaleBreakingExcludes ==
  ~missed => /\ LockHasOneHolder
             /\ \A p \in Process : InLock(p) => lockFile # NoFile /\ lockFile.by = p

\* The lock of a process that died, with its record or before it wrote one, does
\* not shut the others out for ever.
DeadLockIsBroken ==
  lockFile # NoFile /\ ~HolderAlive(lockFile.by)
    ~> lockFile = NoFile \/ HolderAlive(lockFile.by) \/ \A p \in Process : locking[p] = "dead"
=============================================================================
