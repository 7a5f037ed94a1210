---------------------------- MODULE ServiceProofs ----------------------------
(***************************************************************************)
(* Proofs about the file lock (withFileLockSync), for any processes, about *)
(* the Gmail watch of an account, and about the supervisor of a sidecar,   *)
(* for any number of its processes and of requests that overtake one       *)
(* another.                                                                *)
(***************************************************************************)
EXTENDS FileLock, GmailWatch, SidecarSupervisor, TLAPS

\* A lock file is that of a process that is inside, or died there; it is young until its
\* record is written, which is before fn() runs.
FileIsOfHolder ==
  lockFile # NoFile =>
    /\ locking[lockFile.by] \in {"created", "holding", "dead"}
    /\ locking[lockFile.by] = "created" => ~lockFile.written /\ ~lockFile.old
    /\ locking[lockFile.by] = "holding" => lockFile.written

\* Who found the file of now stale found it old, and judged that its holder is dead.
ExaminedIsStale ==
  \A p \in examined : /\ lockFile # NoFile /\ lockFile.old
                      /\ locking[p] = "judged" => locking[lockFile.by] = "dead"

\* What StaleBreakingExcludes rests on.
FileLockInv == FileLockTypeOK /\ FileIsOfHolder /\ ExaminedIsStale /\ StaleBreakingExcludes

\* A step that leaves a process outside the lock, and the file alone, keeps it all, if the
\* holder of a file it examined is dead when it goes to break it.
LEMMA OutsideKeeps ==
  ASSUME FileLockInv, NEW p \in Process, NEW s \in LockStep \ {"created", "holding"},
         LockMoves(p, s), UNCHANGED <<lockFile, missed>>,
         s = "dead" \/ (locking[p] \notin {"created", "holding", "dead"}),
         examined' \in {examined, examined \cup {p}},
         p \in examined' => lockFile # NoFile /\ lockFile.old,
         s = "judged" /\ p \in examined' => locking[lockFile.by] = "dead"
  PROVE  FileLockInv'
<1> USE FileLockAssumption DEF FileLockInv
<1>1. locking' \in [Process -> LockStep] /\ locking'[p] = s
      /\ \A q \in Process \ {p} : locking'[q] = locking[q]
  BY DEF LockMoves, FileLockTypeOK
<1>2. FileLockTypeOK'
  BY <1>1 DEF FileLockTypeOK
<1>3. lockFile # NoFile => lockFile.by \in Process
  BY DEF FileLockTypeOK, LockFile
<1>4. FileIsOfHolder' /\ ExaminedIsStale'
  BY <1>1, <1>3 DEF FileIsOfHolder, ExaminedIsStale, FileLockTypeOK
<1>5. \A q \in Process : InLock(q)' => InLock(q)
  BY <1>1 DEF InLock
<1>6. StaleBreakingExcludes'
  BY <1>5 DEF StaleBreakingExcludes, LockHasOneHolder
<1> QED
  BY <1>2, <1>4, <1>6

\* The exclusive create finds no file, so nobody was inside; the record goes to the
\* creator's own file; the unlink hits it; and the file that is broken is that of a dead
\* holder, or one that was missed.
LEMMA InsideKeeps ==
  ASSUME FileLockInv, NEW p \in Process,
         CreateLockFile(p) \/ WriteLockRecord(p) \/ Unlock(p) \/ ClaimStaleLock(p)
  PROVE  FileLockInv'
<1> USE FileLockAssumption DEF FileLockInv
<1>1. PICK s \in LockStep : LockMoves(p, s)
  BY DEF CreateLockFile, WriteLockRecord, Unlock, ClaimStaleLock, LockStep
<1>2. locking' \in [Process -> LockStep] /\ locking'[p] = s
      /\ \A q \in Process \ {p} : locking'[q] = locking[q]
  BY <1>1 DEF LockMoves, FileLockTypeOK
<1>3. CASE CreateLockFile(p)
  <2>1. /\ lockFile = NoFile /\ lockFile' = [by |-> p, written |-> FALSE, old |-> FALSE]
        /\ locking'[p] = "created" /\ UNCHANGED <<examined, missed>>
    BY <1>3 DEF CreateLockFile, LockMoves, FileLockTypeOK, examining
  <2>2. lockFile' \in LockFile /\ lockFile'.by = p /\ ~lockFile'.old /\ ~lockFile'.written
    BY <2>1 DEF LockFile
  <2> lockFile' # NoFile
    BY <2>2
  <2>3. FileLockTypeOK' /\ FileIsOfHolder' /\ ExaminedIsStale'
    BY <1>2, <2>1, <2>2 DEF FileLockTypeOK, FileIsOfHolder, ExaminedIsStale
  <2>4. StaleBreakingExcludes'
    BY <1>2, <2>1, <2>2 DEF StaleBreakingExcludes, LockHasOneHolder, InLock
  <2> QED
    BY <2>3, <2>4
<1>4. CASE WriteLockRecord(p)
  <2>1. locking[p] = "created" /\ locking'[p] = "holding" /\ UNCHANGED <<examined, missed>>
    BY <1>4 DEF WriteLockRecord, LockMoves, FileLockTypeOK, examining
  <2>2. /\ lockFile' \in LockFile \cup {NoFile} /\ (lockFile' = NoFile <=> lockFile = NoFile)
        /\ lockFile # NoFile =>
             /\ lockFile'.by = lockFile.by /\ lockFile'.by \in Process
             /\ lockFile'.old = lockFile.old
             /\ lockFile'.written = IF lockFile.by = p THEN TRUE ELSE lockFile.written
    BY <1>4 DEF WriteLockRecord, FileLockTypeOK, LockFile
  <2>3. FileLockTypeOK'
    BY <1>2, <2>1, <2>2 DEF FileLockTypeOK
  <2>4. FileIsOfHolder' /\ ExaminedIsStale'
    BY <1>2, <2>1, <2>2 DEF FileLockTypeOK, FileIsOfHolder, ExaminedIsStale
  <2>5. StaleBreakingExcludes'
    BY <1>2, <2>1, <2>2 DEF StaleBreakingExcludes, LockHasOneHolder, InLock
  <2> QED
    BY <2>3, <2>4, <2>5
<1>5. CASE Unlock(p)
  <2>1. /\ locking[p] = "holding" /\ locking'[p] = "idle" /\ lockFile' = NoFile
        /\ examined' = {} /\ missed' = missed
    BY <1>5 DEF Unlock, LockMoves, FileLockTypeOK
  <2>2. FileLockTypeOK' /\ FileIsOfHolder' /\ ExaminedIsStale'
    BY <1>2, <2>1 DEF FileLockTypeOK, FileIsOfHolder, ExaminedIsStale
  <2>3. StaleBreakingExcludes'
    BY <1>2, <2>1 DEF StaleBreakingExcludes, LockHasOneHolder, InLock
  <2> QED
    BY <2>2, <2>3
<1>6. CASE ClaimStaleLock(p)
  <2>1. /\ locking[p] = "judged" /\ locking'[p] = "opening" /\ lockFile' = NoFile
        /\ examined' = {} /\ missed' = (missed \/ (lockFile # NoFile /\ p \notin examined))
    BY <1>6 DEF ClaimStaleLock, LockMoves, FileLockTypeOK
  <2>2. FileLockTypeOK' /\ FileIsOfHolder' /\ ExaminedIsStale'
    BY <1>2, <2>1 DEF FileLockTypeOK, FileIsOfHolder, ExaminedIsStale
  <2>3. ~missed' => \A q \in Process : ~InLock(q)
    BY <2>1 DEF ExaminedIsStale, StaleBreakingExcludes, InLock
  <2>4. StaleBreakingExcludes'
    BY <1>2, <2>1, <2>3 DEF StaleBreakingExcludes, LockHasOneHolder, InLock
  <2> QED
    BY <2>2, <2>4
<1> QED
  BY <1>3, <1>4, <1>5, <1>6

\* Nobody is inside at first.
LEMMA InitFileLockInv == FileLockInit => FileLockInv
  BY DEF FileLockInit, FileLockInv, FileLockTypeOK, FileIsOfHolder, ExaminedIsStale,
         StaleBreakingExcludes, LockHasOneHolder, InLock, LockStep

\* Every action keeps it.
LEMMA StepFileLockInv == FileLockInv /\ [FileLockNext]_fileLockVars => FileLockInv'
<1> SUFFICES ASSUME FileLockInv, [FileLockNext]_fileLockVars PROVE FileLockInv'
  OBVIOUS
<1>1. CASE UNCHANGED fileLockVars
  BY <1>1 DEF fileLockVars, examining, FileLockInv, FileLockTypeOK, FileIsOfHolder,
              ExaminedIsStale, StaleBreakingExcludes, LockHasOneHolder, InLock
<1>2. CASE LockAges
  <2>1. /\ lockFile' \in LockFile /\ lockFile # NoFile
        /\ lockFile'.by = lockFile.by /\ lockFile'.written = lockFile.written /\ lockFile'.old
        /\ locking[lockFile.by] = "created" => lockFile.written
        /\ UNCHANGED <<locking, examined, missed>>
    BY <1>2 DEF LockAges, FileLockInv, FileLockTypeOK, LockFile, examining
  <2>2. lockFile' # NoFile
    BY <2>1, FileLockAssumption
  <2>3. FileLockTypeOK' /\ FileIsOfHolder' /\ ExaminedIsStale'
    BY <2>1, <2>2 DEF FileLockInv, FileLockTypeOK, FileIsOfHolder, ExaminedIsStale
  <2>4. StaleBreakingExcludes'
    BY <2>1, <2>2 DEF FileLockInv, StaleBreakingExcludes, LockHasOneHolder, InLock
  <2> QED
    BY <2>3, <2>4 DEF FileLockInv
<1>3. ASSUME NEW p \in Process, StartLocking(p) \/ GiveUpLocking(p) \/ HolderDies(p)
      PROVE  FileLockInv'
  BY <1>3, OutsideKeeps DEF StartLocking, GiveUpLocking, HolderDies, LockStep, examining,
     FileLockInv, ExaminedIsStale
<1>4. ASSUME NEW p \in Process, StatLock(p) PROVE FileLockInv'
  BY <1>4, OutsideKeeps DEF StatLock, LockStep
<1>5. ASSUME NEW p \in Process, JudgeHolder(p) PROVE FileLockInv'
  <2>1. /\ locking[p] = "stated" /\ UNCHANGED <<lockFile, examined, missed>>
        /\ \/ \E s \in {"opening", "idle"} : LockMoves(p, s)
           \/ /\ LockMoves(p, "judged")
              /\ ~(lockFile # NoFile /\ lockFile.written /\ HolderAlive(lockFile.by))
    BY <1>5 DEF JudgeHolder, examining
  <2>2. p \in examined => lockFile # NoFile /\ lockFile.old
    BY DEF FileLockInv, ExaminedIsStale
  <2>3. ASSUME ~(lockFile # NoFile /\ lockFile.written /\ HolderAlive(lockFile.by)), p \in examined
        PROVE  locking[lockFile.by] = "dead"
    BY <2>2, <2>3 DEF FileLockInv, FileIsOfHolder, HolderAlive
  <2>4. CASE \E s \in {"opening", "idle"} : LockMoves(p, s)
    BY <2>1, <2>2, <2>4, OutsideKeeps DEF LockStep
  <2>5. CASE /\ LockMoves(p, "judged")
             /\ ~(lockFile # NoFile /\ lockFile.written /\ HolderAlive(lockFile.by))
    BY <2>1, <2>2, <2>3, <2>5, OutsideKeeps DEF LockStep
  <2> QED
    BY <2>1, <2>4, <2>5
<1> QED
  BY <1>1, <1>2, <1>3, <1>4, <1>5, InsideKeeps DEF FileLockNext

\* The strengthened invariant of the file lock holds throughout.
THEOREM FileLockInvariant == FileLockSpec => []FileLockInv
<1>1. FileLockInit => FileLockInv
  BY InitFileLockInv
<1>2. FileLockInv /\ [FileLockNext]_fileLockVars => FileLockInv'
  BY StepFileLockInv
<1> QED
  BY <1>1, <1>2, PTL DEF FileLockSpec

\* Every variable of the file lock keeps its type.
THEOREM FileLockTypes == FileLockSpec => []FileLockTypeOK
<1>1. FileLockInv => FileLockTypeOK
  BY DEF FileLockInv
<1> QED
  BY <1>1, FileLockInvariant, PTL

\* As long as every lock that is broken is the very one its waiter found stale, one process
\* at most is inside withFileLockSync, and the file under the lock's path is its own.
THEOREM StaleBreakersAreAlone == FileLockSpec => []StaleBreakingExcludes
<1>1. FileLockInv => StaleBreakingExcludes
  BY DEF FileLockInv
<1> QED
  BY <1>1, FileLockInvariant, PTL

-----------------------------------------------------------------------------

\* The lane, whatever its fields.
LaneRecord ==
  [active : Kind \cup {NoOperation}, phase : Phase, purpose : Purpose,
   was : Snapshot, pending : Kind \cup {NoOperation}, pendingWas : Snapshot]

\* An idle lane has nothing pending; a disconnect is the last operation of its account;
\* what was begun for an operation that is not current finds it so when it ends; and
\* only those that stop the watch have the child stopped for themselves.
LaneIsOrderly ==
  /\ Idle => lane.pending = NoOperation
  /\ ~Idle /\ lane.phase = "revoke" => lane.active = "disconnect"
  /\ lane.active = "disconnect" => lane.pending = NoOperation
  /\ ~Idle /\ lane.purpose \in {"clean", "reap"} => ~OperationIsCurrent
  /\ ~Idle /\ lane.phase # "gogStart" /\ lane.purpose = "main" =>
       lane.active \in {"stop", "disconnect"}

\* The record says that an operation is pending while one has the lane, whichever it is;
\* when none has, only a service that stops leaves the record so.
PendingIsRecorded ==
  /\ ~Idle => account /\ watch.status = "pending"
  /\ Idle /\ gmailService # "stopping" => watch.status # "pending"

\* RemoteIsNotForgotten, at every moment.
RemoteIsRecorded ==
  account /\ ~watch.enabled /\ remote => watch.status \in {"pending", "failed"}

\* A watch that is on is of an account, and its child is not one of an earlier process.
EnabledIsOwn ==
  watch.enabled => account /\ watch.pid # "orphan"

\* A watch that is on while an operation has the lane was on when that operation, and the
\* one that waits, were accepted: so it is never one whose first start is being undone.
OnSinceAccepted ==
  ~Idle /\ watch.enabled =>
    /\ lane.was.enabled /\ lane.purpose # "undo"
    /\ lane.pending # NoOperation => lane.pendingWas.enabled

\* A watch that is on, when nothing is under way, is served or about to be, unless what was
\* last to serve it has failed.
WatchIsServed ==
  Idle /\ gmailService = "up" /\ watch.enabled => serve = "running" \/ restartDue \/ unserved

GmailInv ==
  /\ GmailTypeOK /\ LaneIsOrderly /\ PendingIsRecorded /\ RemoteIsRecorded
  /\ EnabledIsOwn /\ OnSinceAccepted /\ WatchIsServed

\* What the operations do to what is not the lane, the record or the child.
Around ==
  /\ account' = account /\ gmailService' = gmailService /\ orphan' = orphan
  /\ remote' \in BOOLEAN /\ restartDue' \in BOOLEAN /\ intent' \in {"on", "off"}
  /\ unserved' \in BOOLEAN

\* An operation that goes on, failed, or is left to a service that stops, has nothing
\* to prove but that its record says so, and that a watch it leaves on is accounted for.
LEMMA UnsettledKeeps ==
  ASSUME GmailTypeOK', LaneIsOrderly', account', watch'.enabled => watch'.pid # "orphan",
         OnSinceAccepted',
         \/ watch'.status = "pending" /\ (~Idle' \/ gmailService' = "stopping")
         \/ watch'.status = "failed" /\ Idle' /\ WatchIsServed'
  PROVE  GmailInv'
  BY DEF GmailInv, PendingIsRecorded, RemoteIsRecorded, EnabledIsOwn, WatchIsServed

\* The types of what Around leaves.
LEMMA AroundTypes ==
  ASSUME GmailTypeOK, Around, watch' \in Watch, lane' \in LaneRecord,
         serve' \in {"none", "running", "stopping"}
  PROVE  GmailTypeOK'
  BY DEF GmailTypeOK, Around, LaneRecord

\* Normalizing a record touches the pid only.
LEMMA NormalizedRecord ==
  ASSUME NEW w \in Watch
  PROVE  /\ Normalized(w) \in Watch
         /\ Normalized(w).enabled = w.enabled /\ Normalized(w).kind = w.kind
         /\ Normalized(w).status = w.status /\ Normalized(w).pid \in {w.pid, "none"}
  BY DEF Normalized, Watch, PidRecord

\* A save of an account's record is that record, but for the pid.
LEMMA SavedRecord ==
  ASSUME account, NEW w \in Watch, Save(w)
  PROVE  /\ watch' \in Watch /\ watch'.enabled = w.enabled /\ watch'.kind = w.kind
         /\ watch'.status = w.status /\ watch'.pid \in {w.pid, "none"}
  BY NormalizedRecord DEF Save

\* A stopped record is off, and has the given status.
LEMMA StoppedRecord ==
  ASSUME NEW w \in Watch, NEW kind \in {"stop", "disconnect"},
         NEW status \in {"succeeded", "failed"}, NEW unconfirmed \in BOOLEAN
  PROVE  /\ Stopped(w, kind, status, unconfirmed) \in Watch
         /\ ~Stopped(w, kind, status, unconfirmed).enabled
         /\ Stopped(w, kind, status, unconfirmed).status = status
  BY DEF Stopped, Watch, PidRecord

\* An operation that gets the lane with its record pending goes on, or has failed.
LEMMA ActivateKeeps ==
  ASSUME GmailInv, account, Around, NEW l \in LaneRecord, l.active # NoOperation,
         l.active = "disconnect" => l.pending = NoOperation,
         NEW w \in Watch, w.status = "pending", w.enabled => w.pid # "orphan",
         w.enabled => l.was.enabled /\ (l.pending # NoOperation => l.pendingWas.enabled),
         Activate(l, w)
  PROVE  GmailInv'
<1>1. account' /\ GmailTypeOK /\ serve \in {"none", "running", "stopping"}
  BY DEF Around, GmailInv, GmailTypeOK
<1>2. CASE l.active \in {"start", "renew"}
  <2>1. /\ lane' = [l EXCEPT !.phase = "gogStart", !.purpose = "main"]
        /\ serve' = serve /\ Save(w)
    BY <1>2 DEF Activate
  <2>2. /\ lane' \in LaneRecord /\ lane'.active = l.active /\ lane'.pending = l.pending
        /\ lane'.phase = "gogStart" /\ lane'.purpose = "main"
        /\ lane'.was = l.was /\ lane'.pendingWas = l.pendingWas
    BY <2>1 DEF LaneRecord, Phase, Purpose
  <2>3. /\ watch' \in Watch /\ watch'.status = "pending" /\ watch'.enabled = w.enabled
        /\ watch'.enabled => watch'.pid # "orphan"
    BY <2>1, SavedRecord
  <2>4. LaneIsOrderly' /\ ~Idle' /\ OnSinceAccepted'
    BY <2>2, <2>3, <1>2 DEF LaneIsOrderly, Idle, NoOperation, OnSinceAccepted
  <2>5. GmailTypeOK'
    BY <1>1, <2>1, <2>2, <2>3, AroundTypes
  <2> QED
    BY <1>1, <2>3, <2>4, <2>5, UnsettledKeeps
<1>3. CASE l.active \notin {"start", "renew"} /\ Unwaitable(l)
  <2>1. l.active \in {"stop", "disconnect"}
    BY <1>3 DEF LaneRecord, Kind
  <2> DEFINE v == Stopped(w, l.active, "failed", TRUE)
  <2>2. lane' = IdleLane /\ serve' = serve /\ Save(v)
    BY <1>3 DEF Activate
  <2>3. v \in Watch /\ ~v.enabled /\ v.status = "failed"
    BY <2>1, StoppedRecord
  <2> HIDE DEF v
  <2>4. watch' \in Watch /\ watch'.status = "failed" /\ ~watch'.enabled
    BY <2>2, <2>3, SavedRecord
  <2>5. lane' \in LaneRecord /\ Idle' /\ LaneIsOrderly'
    BY <2>2 DEF IdleLane, LaneRecord, Idle, LaneIsOrderly, Blank, Snapshot, PidRecord, Phase,
                Purpose, NoOperation
  <2>6. GmailTypeOK'
    BY <1>1, <2>2, <2>4, <2>5, AroundTypes
  <2>7. OnSinceAccepted' /\ WatchIsServed'
    BY <2>4 DEF OnSinceAccepted, WatchIsServed
  <2> QED
    BY <1>1, <2>4, <2>5, <2>6, <2>7, UnsettledKeeps
<1>4. CASE l.active \notin {"start", "renew"} /\ ~Unwaitable(l)
  <2>1. BeginStop(l, "main") /\ Save(w)
    BY <1>4 DEF Activate
  <2>2. /\ lane' \in LaneRecord /\ lane'.active = l.active /\ lane'.pending = l.pending
        /\ lane'.phase # "revoke" /\ lane'.purpose = "main"
        /\ lane'.was = l.was /\ lane'.pendingWas = l.pendingWas
        /\ serve' \in {"none", "running", "stopping"}
    BY <2>1 DEF BeginStop, LaneRecord, Phase, Purpose
  <2>3. /\ watch' \in Watch /\ watch'.status = "pending" /\ watch'.enabled = w.enabled
        /\ watch'.enabled => watch'.pid # "orphan"
    BY <2>1, SavedRecord
  <2>4. LaneIsOrderly' /\ ~Idle' /\ OnSinceAccepted'
    BY <1>4, <2>2, <2>3 DEF LaneIsOrderly, Idle, LaneRecord, Kind, OnSinceAccepted
  <2>5. GmailTypeOK'
    BY <1>1, <2>2, <2>3, AroundTypes
  <2> QED
    BY <1>1, <2>3, <2>4, <2>5, UnsettledKeeps
<1> QED
  BY <1>2, <1>3, <1>4

\* An idle lane with a failed record; a watch that is on is accounted for.
LEMMA IdleFailedKeeps ==
  ASSUME GmailInv, account, Around, lane' = IdleLane, serve' = serve, watch' \in Watch,
         watch'.status = "failed", watch'.enabled => watch'.pid # "orphan",
         watch'.enabled => serve' = "running" \/ restartDue' \/ unserved'
  PROVE  GmailInv'
<1>1. account' /\ GmailTypeOK /\ serve' \in {"none", "running", "stopping"}
  BY DEF Around, GmailInv, GmailTypeOK
<1>2. lane' \in LaneRecord /\ Idle' /\ LaneIsOrderly'
  BY DEF IdleLane, LaneRecord, Idle, LaneIsOrderly, Blank, Snapshot, PidRecord, Phase,
         Purpose, NoOperation
<1>3. GmailTypeOK'
  BY <1>1, <1>2, AroundTypes
<1>4. OnSinceAccepted' /\ WatchIsServed'
  BY <1>2 DEF OnSinceAccepted, WatchIsServed
<1> QED
  BY <1>1, <1>2, <1>3, <1>4, UnsettledKeeps

\* An operation that lost its turn gives the lane to the pending one, or to a service
\* that stops.
LEMMA SupersededKeeps ==
  ASSUME GmailInv, Around, ~Idle, ~OperationIsCurrent, Finish(watch)
  PROVE  GmailInv'
<1>1. /\ account /\ watch.status = "pending" /\ watch \in Watch /\ GmailTypeOK
      /\ watch.enabled => watch.pid # "orphan"
      /\ watch.enabled /\ lane.pending # NoOperation => lane.pendingWas.enabled
      /\ lane \in LaneRecord /\ serve \in {"none", "running", "stopping"}
  BY DEF GmailInv, GmailTypeOK, PendingIsRecorded, EnabledIsOwn, OnSinceAccepted, LaneRecord
<1>2. CASE lane.pending = NoOperation \/ gmailService = "stopping"
  <2>1. lane' = IdleLane /\ watch' = watch /\ serve' = serve /\ gmailService' = "stopping"
    BY <1>2 DEF Finish, OperationIsCurrent, Around
  <2>2. lane' \in LaneRecord /\ Idle' /\ LaneIsOrderly'
    BY <2>1 DEF IdleLane, LaneRecord, Idle, LaneIsOrderly, Blank, Snapshot, PidRecord, Phase,
                Purpose, NoOperation
  <2>3. account' /\ GmailTypeOK' /\ OnSinceAccepted'
    BY <1>1, <2>1, <2>2, AroundTypes DEF Around, OnSinceAccepted
  <2> QED
    BY <1>1, <2>1, <2>2, <2>3, UnsettledKeeps
<1>3. CASE ~(lane.pending = NoOperation \/ gmailService = "stopping")
  <2> DEFINE l == [lane EXCEPT !.active = lane.pending, !.was = lane.pendingWas,
                               !.pending = NoOperation, !.pendingWas = Blank]
  <2>1. Activate(l, watch)
    BY <1>3 DEF Finish
  <2>2. /\ l \in LaneRecord /\ l.active # NoOperation /\ l.pending = NoOperation
        /\ watch.enabled => l.was.enabled
    BY <1>1, <1>3 DEF LaneRecord, Blank, Snapshot, PidRecord
  <2> HIDE DEF l
  <2> QED
    BY <1>1, <2>1, <2>2, ActivateKeeps
<1> QED
  BY <1>2, <1>3

\* An operation that is current leaves an idle lane and the record it gives.
LEMMA CurrentFinishes ==
  ASSUME OperationIsCurrent, NEW w, Finish(w)
  PROVE  lane' = IdleLane /\ watch' = w /\ serve' = serve
  BY DEF Finish, OperationIsCurrent

\* What an operation under way begins with the child of its account.
LEMMA BeginStopKeeps ==
  ASSUME GmailInv, Around, ~Idle, watch' = watch, NEW purpose \in Purpose \ {"main"},
         lane.phase # "revoke", BeginStop(lane, purpose),
         purpose \in {"clean", "reap"} => ~OperationIsCurrent,
         purpose = "undo" => ~lane.was.enabled
  PROVE  GmailInv'
<1>1. /\ account' /\ watch.status = "pending" /\ watch \in Watch /\ GmailTypeOK
      /\ watch.enabled => watch.pid # "orphan"
      /\ lane \in LaneRecord /\ LaneIsOrderly /\ OnSinceAccepted /\ gmailService' = gmailService
  BY DEF GmailInv, GmailTypeOK, PendingIsRecorded, EnabledIsOwn, LaneRecord, Around
<1>2. /\ lane' \in LaneRecord /\ lane'.active = lane.active /\ lane'.pending = lane.pending
      /\ lane'.phase # "revoke" /\ lane'.purpose = purpose
      /\ lane'.was = lane.was /\ lane'.pendingWas = lane.pendingWas
      /\ serve' \in {"none", "running", "stopping"}
  BY <1>1 DEF BeginStop, LaneRecord, Phase, GmailTypeOK
<1>3. LaneIsOrderly' /\ ~Idle' /\ OnSinceAccepted'
  BY <1>1, <1>2 DEF LaneIsOrderly, Idle, OperationIsCurrent, OnSinceAccepted
<1>4. GmailTypeOK'
  BY <1>1, <1>2, AroundTypes
<1> QED
  BY <1>1, <1>3, <1>4, UnsettledKeeps

\* The cleanup of a start that lost its turn.
LEMMA CleanUpKeeps ==
  ASSUME GmailInv, Around, ~Idle, ~OperationIsCurrent, lane.phase # "revoke", CleanUp
  PROVE  GmailInv'
<1>1. Finish(watch) \/ \E purpose \in {"clean", "reap"} : BeginStop(lane, purpose) /\ watch' = watch
  BY DEF CleanUp
<1>2. CASE Finish(watch)
  BY <1>2, SupersededKeeps
<1>3. ASSUME NEW purpose \in {"clean", "reap"}, BeginStop(lane, purpose), watch' = watch
      PROVE  GmailInv'
  BY <1>3, BeginStopKeeps DEF Purpose
<1> QED
  BY <1>1, <1>2, <1>3

\* A start that failed leaves a record of it, or undoes what it did.
LEMMA FailStartKeeps ==
  ASSUME GmailInv, Around, ~Idle, lane.phase # "revoke", restartDue' = restartDue, FailStart
  PROVE  GmailInv'
<1>1. /\ account /\ watch \in Watch /\ (watch.enabled => watch.pid # "orphan")
  BY DEF GmailInv, GmailTypeOK, PendingIsRecorded, EnabledIsOwn
<1>2. CASE /\ lane' = IdleLane /\ serve' = serve /\ Save(StartFailed)
           /\ unserved' = (serve # "running" /\ ~restartDue) /\ restartDue' = restartDue
  <2>1. /\ StartFailed \in Watch /\ StartFailed.status = "failed"
        /\ StartFailed.enabled = watch.enabled /\ StartFailed.pid = watch.pid
    BY <1>1 DEF StartFailed, Watch
  <2>2. /\ watch' \in Watch /\ watch'.status = "failed"
        /\ watch'.enabled => watch'.pid # "orphan"
    BY <1>1, <1>2, <2>1, SavedRecord
  <2>3. serve' = "running" \/ restartDue' \/ unserved'
    <3>1. restartDue \in BOOLEAN
      BY DEF GmailInv, GmailTypeOK
    <3>2. CASE serve = "running" \/ restartDue
      BY <1>2, <3>1, <3>2
    <3>3. CASE ~(serve = "running" \/ restartDue)
      BY <1>2, <3>3
    <3> QED
      BY <3>2, <3>3
  <2> QED
    BY <1>1, <1>2, <2>2, <2>3, IdleFailedKeeps
<1>3. CASE lane' = IdleLane /\ serve' = serve /\ Save(Stopped(watch, "stop", "failed", TRUE))
  <2> DEFINE v == Stopped(watch, "stop", "failed", TRUE)
  <2>1. v \in Watch /\ ~v.enabled /\ v.status = "failed"
    BY <1>1, StoppedRecord
  <2> HIDE DEF v
  <2>2. watch' \in Watch /\ watch'.status = "failed" /\ ~watch'.enabled
    BY <1>1, <1>3, <2>1, SavedRecord DEF v
  <2> QED
    BY <1>1, <1>3, <2>2, IdleFailedKeeps
<1>4. CASE BeginStop(lane, "undo") /\ watch' = watch /\ ~lane.was.enabled
  BY <1>4, BeginStopKeeps DEF Purpose
<1> QED
  BY <1>2, <1>3, <1>4 DEF FailStart

\* A stop of what is outside ended for an operation: it may be the end of it.
LEMMA StopExternalKeeps ==
  ASSUME GmailInv, Around, ~Idle, lane.phase \in {"reap", "gogStop"},
         NEW ok \in BOOLEAN, NEW unconfirmed \in BOOLEAN, ok => ~remote',
         StopExternalEnds(ok, unconfirmed)
  PROVE  GmailInv'
<1>1. /\ account /\ account' /\ watch \in Watch /\ watch.status = "pending"
      /\ watch.enabled => watch.pid # "orphan"
      /\ GmailTypeOK /\ lane \in LaneRecord /\ LaneIsOrderly /\ OnSinceAccepted
      /\ serve \in {"none", "running", "stopping"} /\ gmailService' = gmailService
  BY DEF GmailInv, GmailTypeOK, PendingIsRecorded, EnabledIsOwn, LaneRecord, Around
<1>2. lane.purpose \in {"main", "undo", "clean", "reap"}
  BY <1>1 DEF LaneRecord, Purpose
<1>3. ASSUME NEW w \in Watch, w.status = "failed", ~w.enabled,
             OperationIsCurrent, Finish(Normalized(w))
      PROVE  GmailInv'
  <2>1. lane' = IdleLane /\ serve' = serve /\ watch' = Normalized(w)
    BY <1>3, CurrentFinishes
  <2>2. watch' \in Watch /\ watch'.status = "failed" /\ ~watch'.enabled
    BY <1>3, <2>1, NormalizedRecord
  <2> QED
    BY <1>1, <2>1, <2>2, IdleFailedKeeps
<1>4. CASE lane.purpose \in {"clean", "reap"}
  <2>1. ~OperationIsCurrent /\ Finish(watch)
    BY <1>1, <1>4 DEF LaneIsOrderly, StopExternalEnds
  <2> QED
    BY <2>1, SupersededKeeps
<1>5. CASE lane.purpose = "undo" /\ OperationIsCurrent
  <2>1. StartFailed \in Watch /\ StartFailed.status = "failed" /\ ~StartFailed.enabled
    BY <1>1, <1>5 DEF StartFailed, Watch, OnSinceAccepted
  <2> DEFINE v == Stopped(watch, "stop", "failed", unconfirmed)
  <2>2. v \in Watch /\ ~v.enabled /\ v.status = "failed"
    BY <1>1, StoppedRecord
  <2>3. Finish(Normalized(StartFailed)) \/ Finish(Normalized(v))
    BY <1>5 DEF StopExternalEnds
  <2> HIDE DEF v
  <2> QED
    BY <1>1, <1>3, <1>5, <2>1, <2>2, <2>3
<1>6. CASE lane.purpose = "undo" /\ ~OperationIsCurrent
  <2>1. CleanUp
    BY <1>6 DEF StopExternalEnds
  <2> QED
    BY <1>6, <2>1, CleanUpKeeps
<1>7. CASE lane.purpose = "main" /\ ~OperationIsCurrent
  <2>1. Finish(watch)
    BY <1>7 DEF StopExternalEnds
  <2> QED
    BY <1>7, <2>1, SupersededKeeps
<1>8. CASE lane.purpose = "main" /\ OperationIsCurrent
  <2>1. lane.active \in {"stop", "disconnect"}
    BY <1>1, <1>8 DEF LaneIsOrderly
  <2>2. CASE ~ok
    <3> DEFINE v == Stopped(watch, lane.active, "failed", unconfirmed)
    <3>1. v \in Watch /\ ~v.enabled /\ v.status = "failed"
      <4>1. "failed" \in {"succeeded", "failed"}
        OBVIOUS
      <4> QED
        BY <1>1, <2>1, <4>1, StoppedRecord, Zenon
    <3>2. Finish(Normalized(v))
      BY <1>8, <2>2 DEF StopExternalEnds
    <3> HIDE DEF v
    <3> QED
      BY <1>3, <1>8, <3>1, <3>2
  <2>3. CASE ok /\ lane.active = "disconnect"
    <3>1. lane' = [lane EXCEPT !.phase = "revoke"] /\ serve' = serve /\ watch' = watch
      BY <1>8, <2>3 DEF StopExternalEnds
    <3>2. /\ lane' \in LaneRecord /\ lane'.active = "disconnect" /\ lane'.purpose = "main"
          /\ lane'.pending = lane.pending /\ lane'.was = lane.was
          /\ lane'.pendingWas = lane.pendingWas
      BY <1>1, <1>8, <2>3, <3>1 DEF LaneRecord, Phase
    <3>3. LaneIsOrderly' /\ ~Idle' /\ OnSinceAccepted'
      BY <1>1, <2>3, <3>1, <3>2 DEF LaneIsOrderly, Idle, NoOperation, OnSinceAccepted
    <3>4. GmailTypeOK'
      BY <1>1, <3>1, <3>2, AroundTypes
    <3> QED
      BY <1>1, <3>1, <3>3, <3>4, UnsettledKeeps
  <2>4. CASE ok /\ lane.active # "disconnect"
    <3> DEFINE v == Stopped(watch, lane.active, "succeeded", FALSE)
    <3>1. v \in Watch /\ ~v.enabled /\ v.status = "succeeded"
      BY <1>1, <2>1, StoppedRecord
    <3>2. Finish(Normalized(v))
      BY <1>8, <2>4 DEF StopExternalEnds
    <3> HIDE DEF v
    <3>3. lane' = IdleLane /\ serve' = serve /\ watch' = Normalized(v)
      BY <1>8, <3>2, CurrentFinishes
    <3>4. watch' \in Watch /\ ~watch'.enabled /\ watch'.status = "succeeded"
      BY <3>1, <3>3, NormalizedRecord
    <3>5. lane' \in LaneRecord /\ Idle' /\ LaneIsOrderly'
      BY <3>3 DEF IdleLane, LaneRecord, Idle, LaneIsOrderly, Blank, Snapshot, PidRecord, Phase,
                  Purpose, NoOperation
    <3>6. GmailTypeOK'
      BY <1>1, <3>3, <3>4, <3>5, AroundTypes
    <3>7. ~remote'
      BY <2>4
    <3> QED
      BY <3>4, <3>5, <3>6, <3>7
      DEF GmailInv, PendingIsRecorded, RemoteIsRecorded, EnabledIsOwn, OnSinceAccepted,
       WatchIsServed
  <2> QED
    BY <2>2, <2>3, <2>4
<1> QED
  BY <1>2, <1>4, <1>5, <1>6, <1>7, <1>8

\* A request that is accepted has the lane, or waits in it.
LEMMA AcceptKeeps ==
  ASSUME GmailInv, account, Around, Open, NEW kind \in Kind, NEW w \in Watch,
         w.status = "pending", w.enabled => w.pid # "orphan", w.enabled => watch.enabled,
         Accept(kind, Taken, w)
  PROVE  GmailInv'
<1>1. /\ account' /\ GmailTypeOK /\ lane \in LaneRecord /\ LaneIsOrderly /\ OnSinceAccepted
      /\ serve \in {"none", "running", "stopping"} /\ gmailService' = gmailService
      /\ Taken \in Snapshot /\ Taken.enabled = watch.enabled
  BY DEF GmailInv, GmailTypeOK, LaneRecord, Around, Taken, Snapshot, Watch
<1>2. CASE Idle
  <2> DEFINE l == [IdleLane EXCEPT !.active = kind, !.was = Taken]
  <2>1. Activate(l, w)
    BY <1>2 DEF Accept
  <2>2. l \in LaneRecord /\ l.active # NoOperation /\ l.pending = NoOperation /\ l.was = Taken
    BY <1>1 DEF IdleLane, LaneRecord, Blank, Snapshot, PidRecord, Phase, Purpose, Kind, NoOperation
  <2> HIDE DEF l
  <2> QED
    BY <1>1, <2>1, <2>2, ActivateKeeps
<1>3. CASE ~Idle
  <2>1. lane' = [lane EXCEPT !.pending = kind, !.pendingWas = Taken] /\ serve' = serve /\ Save(w)
    BY <1>3 DEF Accept
  <2>2. /\ lane' \in LaneRecord /\ lane'.active = lane.active /\ lane'.phase = lane.phase
        /\ lane'.purpose = lane.purpose /\ lane'.pending = kind
        /\ lane'.was = lane.was /\ lane'.pendingWas = Taken
    BY <1>1, <2>1 DEF LaneRecord
  <2>3. lane.active # "disconnect" /\ kind # NoOperation
    BY DEF Open, Disconnecting, Kind, NoOperation
  <2>4. LaneIsOrderly' /\ ~Idle'
    BY <1>1, <1>3, <2>2, <2>3 DEF LaneIsOrderly, Idle, OperationIsCurrent
  <2>5. /\ watch' \in Watch /\ watch'.status = "pending" /\ watch'.enabled = w.enabled
        /\ watch'.enabled => watch'.pid # "orphan"
    BY <2>1, SavedRecord
  <2>6. GmailTypeOK'
    BY <1>1, <2>1, <2>2, <2>5, AroundTypes
  <2>7. OnSinceAccepted'
    BY <1>1, <1>3, <2>2, <2>5 DEF OnSinceAccepted, Idle
  <2> QED
    BY <1>1, <2>4, <2>5, <2>6, <2>7, UnsettledKeeps
<1> QED
  BY <1>2, <1>3

\* The requests.
LEMMA GmailRequestKeeps ==
  ASSUME GmailInv,
         \/ StartWatch \/ RenewWatch \/ StartRefused
         \/ \E kind \in {"stop", "disconnect"} : StopWatch(kind)
  PROVE  GmailInv'
<1>1. watch \in Watch /\ GmailTypeOK /\ (watch.enabled => watch.pid # "orphan")
  BY DEF GmailInv, GmailTypeOK, EnabledIsOwn
<1>2. CASE StartWatch \/ RenewWatch
  <2> DEFINE w == [watch EXCEPT !.kind = "start", !.status = "pending"]
  <2>1. w \in Watch /\ w.status = "pending" /\ w.enabled = watch.enabled /\ w.pid = watch.pid
    BY <1>1 DEF Watch
  <2>2. account /\ Open /\ \E kind \in Kind : Accept(kind, Taken, w)
    BY <1>2 DEF StartWatch, RenewWatch, Kind
  <2>3. Around
    BY <1>1, <1>2 DEF StartWatch, RenewWatch, Around, GmailTypeOK
  <2> HIDE DEF w
  <2> QED
    BY <1>1, <2>1, <2>2, <2>3, AcceptKeeps
<1>3. ASSUME NEW kind \in {"stop", "disconnect"}, StopWatch(kind) PROVE GmailInv'
  <2> DEFINE w == [watch EXCEPT !.enabled = FALSE, !.kind = kind, !.status = "pending"]
  <2>1. w \in Watch /\ w.status = "pending" /\ ~w.enabled
    BY <1>1 DEF Watch
  <2>2. account /\ Open /\ kind \in Kind /\ Accept(kind, Taken, w)
    BY <1>3 DEF StopWatch, Kind
  <2>3. Around
    BY <1>1, <1>3 DEF StopWatch, Around, GmailTypeOK
  <2> HIDE DEF w
  <2> QED
    BY <2>1, <2>2, <2>3, AcceptKeeps
<1>4. CASE StartRefused
  <2>1. /\ UNCHANGED <<account, watch, remote, serve, orphan, lane, gmailService, intent>>
        /\ serve' = "running" \/ unserved'
        /\ restartDue' \in BOOLEAN /\ unserved' \in BOOLEAN
    BY <1>4 DEF StartRefused
  <2>2. GmailTypeOK'
    BY <1>1, <2>1 DEF GmailTypeOK
  <2> QED
    BY <2>1, <2>2 DEF GmailInv, LaneIsOrderly, PendingIsRecorded, RemoteIsRecorded, EnabledIsOwn,
       OnSinceAccepted, WatchIsServed, Idle, OperationIsCurrent
<1> QED
  BY <1>2, <1>3, <1>4

\* A restore that finds the account idle serves a watch that is on, or says that it failed.
LEMMA RestoreKeeps == ASSUME GmailInv, RestartFires \/ BootRestores PROVE GmailInv'
<1>1. /\ watch \in Watch /\ lane \in LaneRecord /\ GmailTypeOK /\ LaneIsOrderly
      /\ OnSinceAccepted /\ PendingIsRecorded /\ RemoteIsRecorded /\ EnabledIsOwn
      /\ lane' = lane /\ account' = account /\ remote' = remote /\ orphan' = orphan
      /\ intent' = intent /\ gmailService' \in {"up", "restoring", "stopping"}
      /\ restartDue' \in BOOLEAN
      /\ gmailService' = "stopping" <=> gmailService = "stopping"
  BY DEF GmailInv, GmailTypeOK, LaneRecord, RestartFires, BootRestores
<1>2. LaneIsOrderly' /\ (Idle' <=> Idle)
  BY <1>1 DEF LaneIsOrderly, Idle, OperationIsCurrent
<1>3. ASSUME watch' \in Watch, watch'.status = watch.status, watch'.enabled = watch.enabled,
             watch'.enabled => watch'.pid # "orphan", serve' \in {serve, "running"},
             unserved' \in BOOLEAN, WatchIsServed'
      PROVE  GmailInv'
  <2>1. GmailTypeOK'
    BY <1>1, <1>3 DEF GmailTypeOK
  <2>2. PendingIsRecorded' /\ RemoteIsRecorded' /\ EnabledIsOwn'
    BY <1>1, <1>2, <1>3 DEF PendingIsRecorded, RemoteIsRecorded, EnabledIsOwn
  <2>3. OnSinceAccepted'
    BY <1>1, <1>2, <1>3 DEF OnSinceAccepted
  <2> QED
    BY <1>2, <1>3, <2>1, <2>2, <2>3 DEF GmailInv
<1>4. CASE RestoreYields
  <2>1. serve' = serve /\ watch' = watch /\ unserved' = unserved /\ ~(Open /\ Idle)
    BY <1>4 DEF RestoreYields
  <2>2. Idle => gmailService = "stopping"
    <3> SUFFICES ASSUME Idle PROVE Open \/ gmailService = "stopping"
      BY <2>1
    <3>1. lane.active = NoOperation /\ lane.pending = NoOperation
      BY <1>1 DEF LaneIsOrderly, Idle
    <3> QED
      BY <3>1 DEF Open, Disconnecting, NoOperation
  <2>3. unserved' \in BOOLEAN /\ (watch'.enabled => watch'.pid # "orphan")
    BY <1>1, <2>1 DEF GmailTypeOK, EnabledIsOwn
  <2>4. WatchIsServed'
    BY <1>1, <1>2, <2>2 DEF WatchIsServed
  <2> QED
    BY <1>1, <1>3, <2>1, <2>3, <2>4
<1>5. CASE RestoreServes
  <2> DEFINE w == [watch EXCEPT !.pid = "child"]
  <2>1. account /\ serve' = "running" /\ Save(w) /\ unserved' = FALSE
    BY <1>5 DEF RestoreServes
  <2>2. w \in Watch /\ w.status = watch.status /\ w.enabled = watch.enabled /\ w.pid = "child"
    BY <1>1 DEF Watch, PidRecord
  <2> HIDE DEF w
  <2>3. /\ watch' \in Watch /\ watch'.status = watch.status /\ watch'.enabled = watch.enabled
        /\ watch'.pid # "orphan"
    BY <2>1, <2>2, SavedRecord
  <2>4. WatchIsServed'
    BY <2>1 DEF WatchIsServed
  <2> QED
    BY <1>3, <2>1, <2>3, <2>4
<1>6. CASE RestoreFails /\ watch' = watch
  <2>1. serve' = serve /\ unserved' = (serve # "running")
    BY <1>6 DEF RestoreFails
  <2>2. WatchIsServed'
    BY <2>1 DEF WatchIsServed
  <2>3. watch'.enabled => watch'.pid # "orphan"
    BY <1>1, <1>6 DEF EnabledIsOwn
  <2> QED
    BY <1>1, <1>3, <1>6, <2>1, <2>2, <2>3
<1>7. CASE RestoreFails /\ account /\ Save(Stopped(watch, "stop", "failed", TRUE))
  <2> DEFINE v == Stopped(watch, "stop", "failed", TRUE)
  <2>1. v \in Watch /\ ~v.enabled /\ v.status = "failed"
    BY <1>1, StoppedRecord
  <2>2. serve' = serve /\ unserved' = (serve # "running") /\ Idle
    BY <1>7 DEF RestoreFails
  <2> HIDE DEF v
  <2>3. watch' \in Watch /\ watch'.status = "failed" /\ ~watch'.enabled
    BY <1>7, <2>1, SavedRecord DEF v
  <2>4. GmailTypeOK'
    BY <1>1, <2>2, <2>3 DEF GmailTypeOK
  <2> QED
    BY <1>2, <2>2, <2>3, <2>4
    DEF GmailInv, PendingIsRecorded, RemoteIsRecorded, EnabledIsOwn, OnSinceAccepted, WatchIsServed
<1> QED
  BY <1>4, <1>5, <1>6, <1>7 DEF RestartFires, BootRestores

\* `gog gmail watch start` came back: the start is superseded, committed, or failed.
LEMMA StartReturnsKeeps == ASSUME GmailInv, StartReturns PROVE GmailInv'
<1>1. /\ ~Idle /\ lane.phase = "gogStart" /\ account /\ account'
      /\ GmailTypeOK /\ gmailService' = gmailService /\ restartDue' = restartDue
      /\ orphan' = orphan /\ intent' = intent /\ account' = account /\ remote' \in BOOLEAN
  BY DEF GmailInv, GmailTypeOK, PendingIsRecorded, StartReturns
<1>5. Around
  <2>1. unserved' \in BOOLEAN
    BY <1>1 DEF StartReturns, FailStart, GmailTypeOK
  <2> QED
    BY <1>1, <2>1 DEF Around, GmailTypeOK
<1>2. CASE ~OperationIsCurrent
  <2>1. CleanUp
    BY <1>2 DEF StartReturns
  <2> QED
    BY <1>1, <1>2, <1>5, <2>1, CleanUpKeeps
<1>3. CASE FailStart
  BY <1>1, <1>3, <1>5, FailStartKeeps
<1>4. CASE OperationIsCurrent /\ ~FailStart
  <2> DEFINE w == [enabled |-> TRUE, kind |-> "start", status |-> "succeeded", pid |-> "child"]
  <2>1. serve' = "running" /\ lane' = IdleLane /\ Save(w)
    BY <1>4 DEF StartReturns, ServeStarted
  <2>2. w \in Watch
    BY DEF Watch, PidRecord
  <2>3. /\ watch' \in Watch /\ watch'.enabled /\ watch'.status = "succeeded"
        /\ watch'.pid # "orphan"
    BY <1>1, <2>1, <2>2, SavedRecord
  <2>4. lane' \in LaneRecord /\ Idle' /\ LaneIsOrderly'
    BY <2>1 DEF IdleLane, LaneRecord, Idle, LaneIsOrderly, Blank, Snapshot, PidRecord, Phase,
                Purpose, NoOperation
  <2>5. GmailTypeOK'
    BY <1>1, <1>5, <2>1, <2>3, <2>4, AroundTypes
  <2> QED
    BY <1>1, <2>1, <2>3, <2>4, <2>5
    DEF GmailInv, PendingIsRecorded, RemoteIsRecorded, EnabledIsOwn, OnSinceAccepted,
       WatchIsServed
<1> QED
  BY <1>2, <1>3, <1>4

\* The stops came back.
LEMMA StopsReturnKeep == ASSUME GmailInv, ReapReturns \/ GogStopReturns PROVE GmailInv'
<1>1. /\ ~Idle /\ account /\ account' /\ GmailTypeOK /\ Around /\ gmailService' = gmailService
      /\ watch.status = "pending" /\ (watch.enabled => watch.pid # "orphan") /\ watch \in Watch
      /\ lane \in LaneRecord /\ LaneIsOrderly /\ serve \in {"none", "running", "stopping"}
      /\ OnSinceAccepted
  BY DEF GmailInv, GmailTypeOK, PendingIsRecorded, EnabledIsOwn, ReapReturns, GogStopReturns,
         Around, LaneRecord
<1>2. CASE GogStopReturns
  <2>1. PICK ok \in BOOLEAN : (ok => ~remote') /\ StopExternalEnds(ok, FALSE)
    BY <1>1, <1>2 DEF GogStopReturns, GmailTypeOK
  <2>2. lane.phase = "gogStop"
    BY <1>2 DEF GogStopReturns
  <2> QED
    BY <1>1, <2>1, <2>2, StopExternalKeeps
<1>3. CASE ReapReturns /\ StopExternalEnds(FALSE, TRUE)
  <2>1. lane.phase = "reap"
    BY <1>3 DEF ReapReturns
  <2> QED
    BY <1>1, <1>3, <2>1, StopExternalKeeps
<1>4. CASE ReapReturns /\ lane' = [lane EXCEPT !.phase = "gogStop"] /\ serve' = serve
           /\ watch' = watch
  <2>1. /\ lane' \in LaneRecord /\ lane'.active = lane.active /\ lane'.purpose = lane.purpose
        /\ lane'.pending = lane.pending /\ lane'.phase = "gogStop" /\ lane.phase = "reap"
        /\ lane'.was = lane.was /\ lane'.pendingWas = lane.pendingWas
    BY <1>1, <1>4 DEF LaneRecord, Phase, ReapReturns
  <2>2. LaneIsOrderly' /\ ~Idle' /\ OnSinceAccepted'
    BY <1>1, <1>4, <2>1 DEF LaneIsOrderly, Idle, OperationIsCurrent, OnSinceAccepted
  <2>3. GmailTypeOK'
    BY <1>1, <1>4, <2>1, AroundTypes
  <2> QED
    BY <1>1, <1>4, <2>2, <2>3, UnsettledKeeps
<1> QED
  BY <1>2, <1>3, <1>4 DEF ReapReturns

\* The disconnect came back: without its account nothing is recorded.
LEMMA RevokeReturnsKeeps == ASSUME GmailInv, RevokeReturns PROVE GmailInv'
<1>1. /\ ~Idle /\ lane.phase = "revoke" /\ lane.active = "disconnect"
      /\ lane.pending = NoOperation /\ account /\ watch \in Watch /\ GmailTypeOK
      /\ gmailService' = gmailService /\ remote' = remote /\ orphan' = orphan
      /\ restartDue' = restartDue /\ intent' = intent /\ unserved' = unserved
  BY DEF GmailInv, GmailTypeOK, LaneIsOrderly, PendingIsRecorded, RevokeReturns
<1>2. CASE account' = FALSE /\ Finish(NoWatch)
  <2>1. lane' = IdleLane /\ watch' = NoWatch /\ serve' = serve
    BY <1>1, <1>2 DEF Finish
  <2>2. watch' \in Watch /\ ~watch'.enabled /\ watch'.status = "none"
    BY <2>1 DEF NoWatch, Watch, PidRecord
  <2>3. lane' \in LaneRecord /\ Idle' /\ LaneIsOrderly'
    BY <2>1 DEF IdleLane, LaneRecord, Idle, LaneIsOrderly, Blank, Snapshot, PidRecord, Phase,
                Purpose, NoOperation
  <2>4. GmailTypeOK'
    BY <1>1, <1>2, <2>1, <2>2, <2>3 DEF GmailTypeOK, LaneRecord
  <2> QED
    BY <1>2, <2>2, <2>3, <2>4
    DEF GmailInv, PendingIsRecorded, RemoteIsRecorded, EnabledIsOwn, OnSinceAccepted,
       WatchIsServed
<1>3. CASE account' = account
  <2>1. Around
    BY <1>1, <1>3 DEF Around, GmailTypeOK
  <2>2. CASE ~OperationIsCurrent
    <3>1. Finish(watch)
      BY <1>1, <1>3, <2>2 DEF RevokeReturns
    <3> QED
      BY <1>1, <2>1, <2>2, <3>1, SupersededKeeps
  <2>3. CASE OperationIsCurrent
    <3> DEFINE v == Stopped(watch, "disconnect", "failed", FALSE)
    <3>1. v \in Watch /\ ~v.enabled /\ v.status = "failed"
      BY <1>1, StoppedRecord
    <3>2. Finish(Normalized(v))
      BY <1>1, <1>3, <2>3 DEF RevokeReturns
    <3> HIDE DEF v
    <3>3. lane' = IdleLane /\ serve' = serve /\ watch' = Normalized(v)
      BY <2>3, <3>2, CurrentFinishes
    <3>4. watch' \in Watch /\ watch'.status = "failed" /\ ~watch'.enabled
      BY <3>1, <3>3, NormalizedRecord
    <3> QED
      BY <1>1, <2>1, <3>3, <3>4, IdleFailedKeeps
  <2> QED
    BY <2>2, <2>3
<1> QED
  BY <1>2, <1>3 DEF RevokeReturns

\* The exits of children, and the service's stop.
LEMMA ExitsKeep == ASSUME GmailInv, ServeExits \/ OrphanExits \/ StopService PROVE GmailInv'
<1>1. /\ watch \in Watch /\ lane \in LaneRecord /\ GmailTypeOK /\ LaneIsOrderly
      /\ account' = account /\ remote' = remote /\ intent' = intent /\ account \in BOOLEAN
  BY DEF GmailInv, GmailTypeOK, LaneRecord, ServeExits, OrphanExits, StopService
<1>2. CASE ServeExits
  <2> DEFINE w == IF watch.pid = "child" THEN [watch EXCEPT !.pid = "none"] ELSE watch
  <2>1. /\ Save(w) /\ serve' = "none" /\ lane' = lane /\ gmailService' = gmailService
        /\ restartDue' = (restartDue \/ (serve = "running" /\ gmailService # "stopping"
                                         /\ ~Disconnecting))
        /\ orphan' = orphan /\ unserved' = unserved
    BY <1>2 DEF ServeExits
  <2>2. w \in Watch /\ w.status = watch.status /\ w.enabled = watch.enabled
        /\ w.pid \in {watch.pid, "none"}
    BY <1>1 DEF Watch, PidRecord
  <2> HIDE DEF w
  <2>3. /\ watch' \in Watch /\ watch'.status = watch.status /\ watch'.enabled = watch.enabled
        /\ watch'.pid \in {watch.pid, "none"}
    <3>1. CASE account
      BY <2>1, <2>2, <3>1, SavedRecord
    <3>2. CASE ~account
      BY <1>1, <2>1, <3>2 DEF Save
    <3> QED
      BY <3>1, <3>2
  <2>4. GmailTypeOK' /\ LaneIsOrderly' /\ (Idle' <=> Idle)
    BY <1>1, <2>1, <2>3 DEF GmailTypeOK, LaneIsOrderly, Idle, OperationIsCurrent
  <2>5. WatchIsServed'
    <3> SUFFICES ASSUME Idle, watch.enabled, gmailService = "up" PROVE restartDue' \/ unserved'
      BY <2>1, <2>3, <2>4 DEF WatchIsServed
    <3>1. lane.active = NoOperation /\ lane.pending = NoOperation
      BY <1>1 DEF LaneIsOrderly, Idle
    <3>2. ~Disconnecting
      BY <3>1 DEF Disconnecting, NoOperation
    <3>3. serve = "running" \/ restartDue \/ unserved
      BY DEF GmailInv, WatchIsServed
    <3>4. serve = "running" => restartDue'
      BY <2>1, <3>2, Zenon
    <3>5. restartDue => restartDue'
      BY <2>1, Zenon
    <3>6. unserved => unserved'
      BY <2>1
    <3> QED
      BY <3>3, <3>4, <3>5, <3>6
  <2>6. OnSinceAccepted'
    BY <2>1, <2>3, <2>4 DEF GmailInv, OnSinceAccepted
  <2> QED
    BY <1>1, <2>1, <2>3, <2>4, <2>5, <2>6
    DEF GmailInv, PendingIsRecorded, RemoteIsRecorded, EnabledIsOwn
<1>3. CASE OrphanExits
  <2>1. /\ UNCHANGED <<watch, serve, lane, restartDue, gmailService, unserved>>
        /\ orphan' = "none"
    BY <1>3 DEF OrphanExits
  <2>2. GmailTypeOK'
    BY <1>1, <2>1 DEF GmailTypeOK
  <2> QED
    BY <1>1, <2>1, <2>2 DEF GmailInv, LaneIsOrderly, PendingIsRecorded, RemoteIsRecorded,
       EnabledIsOwn, OnSinceAccepted, WatchIsServed, Idle, OperationIsCurrent
<1>4. CASE StopService
  <2>1. /\ gmailService' = "stopping" /\ watch' = watch /\ orphan' = orphan /\ ~restartDue'
        /\ unserved' = unserved
        /\ serve' \in {serve, "stopping"}
        /\ lane' = [lane EXCEPT !.pending = NoOperation, !.pendingWas = Blank]
    BY <1>4 DEF StopService
  <2>2. restartDue' \in BOOLEAN
    BY <1>4 DEF StopService
  <2>3. /\ lane' \in LaneRecord /\ lane'.active = lane.active /\ lane'.purpose = lane.purpose
        /\ lane'.pending = NoOperation /\ lane'.phase = lane.phase
    BY <1>1, <2>1 DEF LaneRecord, Blank, Snapshot, PidRecord
  <2>4. GmailTypeOK'
    BY <1>1, <2>1, <2>2, <2>3 DEF GmailTypeOK, LaneRecord
  <2>5. LaneIsOrderly' /\ (Idle' <=> Idle)
    BY <1>1, <2>1, <2>3 DEF LaneIsOrderly, Idle, OperationIsCurrent
  <2> QED
    BY <1>1, <2>1, <2>4, <2>5
    DEF GmailInv, PendingIsRecorded, RemoteIsRecorded, EnabledIsOwn, OnSinceAccepted,
       WatchIsServed
<1> QED
  BY <1>2, <1>3, <1>4

\* The server restarts: what was cut short is on record as failed.
LEMMA ServerRestartKeeps == ASSUME GmailInv, GmailServerRestarts PROVE GmailInv'
<1> DEFINE pid == IF orphan' = "known" THEN "orphan" ELSE "none"
           w == [watch EXCEPT !.pid = pid]
           v == IF w.enabled /\ pid = "orphan"
                THEN [w EXCEPT !.enabled = FALSE, !.kind = "stop", !.status = "failed"]
                ELSE Interrupted(w)
<1>1. /\ watch \in Watch /\ GmailTypeOK /\ account' = account /\ intent' = intent
      /\ watch' = Normalized(v) /\ serve' = "none" /\ lane' = IdleLane
      /\ restartDue' = FALSE /\ gmailService' = "restoring" /\ unserved' = FALSE
  BY DEF GmailInv, GmailTypeOK, GmailServerRestarts
<1>2. remote' \in BOOLEAN /\ orphan' \in {"none", "known", "unknown"}
  BY <1>1 DEF GmailServerRestarts, GmailTypeOK
<1>3. Idle => remote' = remote
  BY DEF GmailServerRestarts
<1>4. w \in Watch /\ w.enabled = watch.enabled /\ w.status = watch.status /\ w.pid = pid
  BY <1>1 DEF Watch, PidRecord
<1> HIDE DEF w, pid
<1>5. /\ v \in Watch /\ v.status # "pending"
      /\ v.enabled => watch.enabled /\ v.pid # "orphan"
      /\ ~v.enabled => v.status = "failed" \/ ~watch.enabled
      /\ watch.status \in {"pending", "failed"} => v.status = "failed"
  <2>1. CASE w.enabled /\ pid = "orphan"
    BY <1>4, <2>1 DEF Watch
  <2>2. CASE ~(w.enabled /\ pid = "orphan")
    <3>1. /\ Interrupted(w) \in Watch /\ Interrupted(w).enabled = w.enabled
          /\ Interrupted(w).pid = w.pid /\ Interrupted(w).status # "pending"
          /\ w.status \in {"pending", "failed"} => Interrupted(w).status = "failed"
      BY <1>4 DEF Interrupted, Watch
    <3> QED
      BY <1>4, <2>2, <3>1
  <2> QED
    BY <2>1, <2>2
<1> HIDE DEF v
<1>6. /\ watch' \in Watch /\ watch'.status = v.status /\ watch'.enabled = v.enabled
      /\ watch'.pid \in {v.pid, "none"}
  BY <1>1, <1>5, NormalizedRecord
<1>7. lane' \in LaneRecord /\ Idle' /\ LaneIsOrderly'
  BY <1>1 DEF IdleLane, LaneRecord, Idle, LaneIsOrderly, Blank, Snapshot, PidRecord, Phase,
              Purpose, NoOperation
<1>8. GmailTypeOK'
  BY <1>1, <1>2, <1>6, <1>7 DEF GmailTypeOK, LaneRecord
<1>9. RemoteIsRecorded'
  <2> SUFFICES ASSUME account, ~v.enabled, remote' PROVE v.status = "failed"
    BY <1>1, <1>6 DEF RemoteIsRecorded
  <2>1. CASE watch.enabled
    BY <1>5, <2>1
  <2>2. CASE ~watch.enabled
    <3>1. watch.status \in {"pending", "failed"}
      BY <1>3, <2>2 DEF GmailInv, PendingIsRecorded, RemoteIsRecorded
    <3> QED
      BY <1>5, <3>1
  <2> QED
    BY <2>1, <2>2
<1> QED
  BY <1>1, <1>5, <1>6, <1>7, <1>8, <1>9
  DEF GmailInv, PendingIsRecorded, EnabledIsOwn, OnSinceAccepted,
       WatchIsServed

\* An account without a watch.
LEMMA InitGmailInv == GmailInit => GmailInv
<1> SUFFICES ASSUME GmailInit PROVE GmailInv
  OBVIOUS
<1>1. /\ lane \in LaneRecord /\ Idle /\ LaneIsOrderly
  BY DEF GmailInit, IdleLane, LaneRecord, Idle, LaneIsOrderly, Blank, Snapshot, PidRecord, Phase,
         Purpose, NoOperation
<1>2. watch \in Watch /\ ~watch.enabled /\ watch.status = "none" /\ ~remote
  BY DEF GmailInit, NoWatch, Watch, PidRecord
<1>3. GmailTypeOK
  BY <1>1, <1>2 DEF GmailInit, GmailTypeOK, LaneRecord
<1> QED
  BY <1>1, <1>2, <1>3
  DEF GmailInv, PendingIsRecorded, RemoteIsRecorded, EnabledIsOwn, OnSinceAccepted,
       WatchIsServed

\* Every action keeps what the two properties of the watch rest on.
LEMMA StepGmailInv == GmailInv /\ [GmailNext]_gmailVars => GmailInv'
<1> SUFFICES ASSUME GmailInv, [GmailNext]_gmailVars PROVE GmailInv'
  OBVIOUS
<1>1. CASE UNCHANGED gmailVars
  BY <1>1 DEF gmailVars, GmailInv, GmailTypeOK, LaneIsOrderly, PendingIsRecorded,
     RemoteIsRecorded, EnabledIsOwn, OnSinceAccepted, WatchIsServed, Idle, OperationIsCurrent
<1>2. CASE \/ StartWatch \/ RenewWatch \/ StartRefused
           \/ \E kind \in {"stop", "disconnect"} : StopWatch(kind)
  BY <1>2, GmailRequestKeeps
<1>3. CASE RestartFires \/ BootRestores
  BY <1>3, RestoreKeeps
<1>4. CASE StartReturns
  BY <1>4, StartReturnsKeeps
<1>5. CASE ReapReturns \/ GogStopReturns
  BY <1>5, StopsReturnKeep
<1>6. CASE RevokeReturns
  BY <1>6, RevokeReturnsKeeps
<1>7. CASE ServeExits \/ OrphanExits \/ StopService
  BY <1>7, ExitsKeep
<1>8. CASE GmailServerRestarts
  BY <1>8, ServerRestartKeeps
<1> QED
  BY <1>1, <1>2, <1>3, <1>4, <1>5, <1>6, <1>7, <1>8 DEF GmailNext

\* The strengthened invariant of the watch holds throughout.
THEOREM GmailInvariant == GmailSpec => []GmailInv
<1> QED
  BY InitGmailInv, StepGmailInv, PTL DEF GmailSpec

\* Every variable of the watch keeps its type.
THEOREM GmailTypes == GmailSpec => []GmailTypeOK
<1>1. GmailInv => GmailTypeOK
  BY DEF GmailInv
<1> QED
  BY <1>1, GmailInvariant, PTL

\* A watch that Google may still hold is never shown as off: whatever the order in which
\* starts, stops, disconnects and a restart of the server cut each other short, the record
\* of an idle account is settled, and says of a watch that may be left that an operation
\* failed.
THEOREM RemoteIsAlwaysRecorded == GmailSpec => []RemoteIsNotForgotten
<1>1. GmailInv => RemoteIsNotForgotten
  BY DEF GmailInv, PendingIsRecorded, RemoteIsRecorded, RemoteIsNotForgotten
<1> QED
  BY <1>1, GmailInvariant, PTL

\* A record that does not contradict what was last asked for.
Agrees(w, asked) ==
  /\ w.enabled => asked = "on"
  /\ w.status = "succeeded" /\ ~w.enabled => asked = "off"

\* The operation that was accepted last.
Latest == IF lane.pending = NoOperation THEN lane.active ELSE lane.pending

\* Unless the service stops, the operation accepted last is what was last asked for.
LaneAgrees ==
  gmailService # "stopping" =>
    /\ Latest \in {"start", "renew"} => intent = "on"
    /\ Latest \in {"stop", "disconnect"} => intent = "off"

\* Only a start, or a renewal, waits for `gog gmail watch start`.
OnlyStartsStart == lane.phase = "gogStart" => lane.active \in {"start", "renew", NoOperation}

IntentInv == Agrees(watch, intent) /\ LaneAgrees /\ OnlyStartsStart

\* What is saved agrees, but for an account that is gone, whose record stays.
LEMMA SaveAgrees ==
  ASSUME watch \in Watch, NEW w \in Watch, NEW asked, Save(w),
         Agrees(w, asked), Agrees(watch, asked)
  PROVE  Agrees(watch', asked)
  BY NormalizedRecord DEF Save, Agrees

\* A failed stop shows nothing as on or as done.
LEMMA StoppedAgrees ==
  ASSUME NEW w \in Watch, NEW kind \in {"stop", "disconnect"}, NEW unconfirmed \in BOOLEAN,
         NEW asked
  PROVE  /\ Stopped(w, kind, "failed", unconfirmed) \in Watch
         /\ Agrees(Stopped(w, kind, "failed", unconfirmed), asked)
         /\ Agrees(Normalized(Stopped(w, kind, "failed", unconfirmed)), asked)
         /\ Normalized(Stopped(w, kind, "failed", unconfirmed)) \in Watch
<1> DEFINE v == Stopped(w, kind, "failed", unconfirmed)
<1>1. "failed" \in {"succeeded", "failed"}
  OBVIOUS
<1>2. v \in Watch /\ ~v.enabled /\ v.status = "failed"
  BY <1>1, StoppedRecord, Zenon
<1> HIDE DEF v
<1>3. Agrees(v, asked) /\ Agrees(Normalized(v), asked) /\ Normalized(v) \in Watch
  BY <1>2, NormalizedRecord DEF Agrees
<1> QED
  BY <1>2, <1>3 DEF v

\* An operation that gets the lane keeps it, with what is pending, or has failed at once.
LEMMA ActivateLane ==
  ASSUME NEW l \in LaneRecord, NEW w, Activate(l, w)
  PROVE  /\ \/ lane'.active = l.active /\ lane'.pending = l.pending
            \/ lane'.active = NoOperation /\ lane'.pending = NoOperation
         /\ OnlyStartsStart'
<1> USE DEF OnlyStartsStart
<1>1. CASE l.active \in {"start", "renew"}
  BY <1>1 DEF Activate, LaneRecord
<1>2. CASE l.active \notin {"start", "renew"} /\ Unwaitable(l)
  BY <1>2 DEF Activate, IdleLane
<1>3. CASE l.active \notin {"start", "renew"} /\ ~Unwaitable(l)
  <2>1. PICK phase \in {"gogStop", "reap"} :
          lane' = [l EXCEPT !.purpose = "main", !.phase = phase]
    BY <1>3 DEF Activate, BeginStop
  <2> QED
    BY <2>1 DEF LaneRecord
<1> QED
  BY <1>1, <1>2, <1>3

\* What it saves agrees if what it was given does.
LEMMA ActivateAgrees ==
  ASSUME watch \in Watch, NEW l \in LaneRecord, l.active # NoOperation, NEW w \in Watch, NEW asked,
         Activate(l, w), Agrees(w, asked), Agrees(watch, asked)
  PROVE  Agrees(watch', asked)
<1>1. CASE Save(w)
  BY <1>1, SaveAgrees
<1>2. CASE ~Save(w)
  <2>1. l.active \in {"stop", "disconnect"} /\ Save(Stopped(w, l.active, "failed", TRUE))
    BY <1>2 DEF Activate, LaneRecord, Kind, NoOperation
  <2> QED
    BY <2>1, StoppedAgrees, SaveAgrees
<1> QED
  BY <1>1, <1>2

\* The end of an operation leaves the lane to the one accepted last, or idle.
LEMMA FinishAgrees ==
  ASSUME GmailInv, IntentInv, UNCHANGED <<gmailService, intent>>,
         NEW w \in Watch, Agrees(w, intent), Finish(w)
  PROVE  IntentInv'
<1>1. watch \in Watch /\ lane \in LaneRecord
  BY DEF GmailInv, GmailTypeOK, LaneRecord
<1>2. CASE lane.pending = NoOperation \/ gmailService = "stopping"
  BY <1>2 DEF Finish, IntentInv, LaneAgrees, Latest, OnlyStartsStart, IdleLane, NoOperation
<1>3. CASE ~(lane.pending = NoOperation \/ gmailService = "stopping")
  <2> DEFINE l == [lane EXCEPT !.active = lane.pending, !.was = lane.pendingWas,
                               !.pending = NoOperation, !.pendingWas = Blank]
  <2>1. l \in LaneRecord /\ l.active = lane.pending /\ l.pending = NoOperation
    BY <1>1 DEF LaneRecord, Blank, Snapshot, PidRecord
  <2>2. Activate(l, w)
    BY <1>3 DEF Finish
  <2> HIDE DEF l
  <2>3. /\ Agrees(watch', intent)
        /\ \/ lane'.active = l.active /\ lane'.pending = l.pending
           \/ lane'.active = NoOperation /\ lane'.pending = NoOperation
        /\ OnlyStartsStart'
    <3>1. l.active # NoOperation /\ Agrees(watch, intent)
      BY <1>3, <2>1 DEF IntentInv
    <3> QED
      BY <1>1, <2>1, <2>2, <3>1, ActivateAgrees, ActivateLane
  <2> QED
    BY <1>3, <2>1, <2>3 DEF IntentInv, LaneAgrees, Latest, OnlyStartsStart, NoOperation
<1> QED
  BY <1>2, <1>3

\* The cleanup of an operation that is not current is not a new one.
LEMMA CleanUpAgrees ==
  ASSUME GmailInv, IntentInv, UNCHANGED <<gmailService, intent>>, CleanUp
  PROVE  IntentInv'
<1>1. watch \in Watch /\ lane \in LaneRecord
  BY DEF GmailInv, GmailTypeOK, LaneRecord
<1>2. CASE Finish(watch)
  BY <1>1, <1>2, FinishAgrees DEF IntentInv
<1>3. CASE ~Finish(watch)
  <2>1. /\ watch' = watch /\ lane'.active = lane.active /\ lane'.pending = lane.pending
        /\ lane'.phase # "gogStart"
    BY <1>1, <1>3 DEF CleanUp, BeginStop, LaneRecord
  <2> QED
    BY <2>1 DEF IntentInv, LaneAgrees, Latest, OnlyStartsStart
<1> QED
  BY <1>2, <1>3

\* A start that failed leaves the watch as it was, or begins to undo it.
LEMMA FailStartAgrees ==
  ASSUME GmailInv, IntentInv, UNCHANGED <<gmailService, intent>>, FailStart
  PROVE  IntentInv'
<1>1. watch \in Watch /\ lane \in LaneRecord
  BY DEF GmailInv, GmailTypeOK, LaneRecord
<1>2. StartFailed \in Watch /\ Agrees(StartFailed, intent)
  BY <1>1 DEF StartFailed, Watch, IntentInv, Agrees
<1>3. CASE lane' = IdleLane
  <2>1. Save(StartFailed) \/ Save(Stopped(watch, "stop", "failed", TRUE)) \/ watch' = watch
    BY DEF FailStart
  <2>2. Agrees(watch', intent)
    BY <1>1, <1>2, <2>1, SaveAgrees, StoppedAgrees DEF IntentInv
  <2> QED
    BY <1>3, <2>2 DEF IntentInv, LaneAgrees, Latest, OnlyStartsStart, IdleLane, NoOperation
<1>4. CASE lane' # IdleLane
  <2>1. /\ watch' = watch /\ lane'.active = lane.active /\ lane'.pending = lane.pending
        /\ lane'.phase # "gogStart"
    BY <1>1, <1>4 DEF FailStart, BeginStop, LaneRecord
  <2> QED
    BY <2>1 DEF IntentInv, LaneAgrees, Latest, OnlyStartsStart
<1> QED
  BY <1>3, <1>4

\* Only a stop that is current, and worked, is recorded as done.
LEMMA StopExternalAgrees ==
  ASSUME GmailInv, IntentInv, UNCHANGED <<gmailService, intent>>, ~Idle,
         lane.phase \in {"reap", "gogStop"}, NEW ok \in BOOLEAN, NEW unconfirmed \in BOOLEAN,
         StopExternalEnds(ok, unconfirmed)
  PROVE  IntentInv'
<1>1. /\ watch \in Watch /\ lane \in LaneRecord /\ LaneIsOrderly /\ Agrees(watch, intent)
  BY DEF GmailInv, GmailTypeOK, LaneRecord, IntentInv
<1>2. /\ Normalized(StartFailed) \in Watch
      /\ Agrees(Normalized(StartFailed), intent)
  <2>1. StartFailed \in Watch /\ Agrees(StartFailed, intent)
    BY <1>1 DEF StartFailed, Watch, Agrees
  <2> QED
    BY <2>1, NormalizedRecord DEF Agrees
<1>3. CASE Finish(watch) \/ CleanUp
  BY <1>1, <1>3, FinishAgrees, CleanUpAgrees
<1>4. CASE Finish(Normalized(StartFailed))
  BY <1>2, <1>4, FinishAgrees
<1>5. ASSUME NEW kind \in {"stop", "disconnect"},
             Finish(Normalized(Stopped(watch, kind, "failed", unconfirmed)))
      PROVE  IntentInv'
  BY <1>1, <1>5, StoppedAgrees, FinishAgrees
<1>6. CASE lane.purpose = "main" /\ OperationIsCurrent
  <2>1. lane.active \in {"stop", "disconnect"}
    BY <1>1, <1>6 DEF LaneIsOrderly
  <2>2. intent = "off"
    BY <1>6, <2>1 DEF IntentInv, LaneAgrees, Latest, OnlyStartsStart, OperationIsCurrent
  <2>3. CASE ~ok
    BY <1>5, <1>6, <2>1, <2>3 DEF StopExternalEnds
  <2>4. CASE ok /\ lane.active = "disconnect"
    <3>1. /\ watch' = watch /\ lane'.active = lane.active /\ lane'.pending = lane.pending
          /\ lane'.phase # "gogStart"
      BY <1>1, <1>6, <2>4 DEF StopExternalEnds, LaneRecord
    <3> QED
      BY <3>1 DEF IntentInv, LaneAgrees, Latest, OnlyStartsStart
  <2>5. CASE ok /\ lane.active = "stop"
    <3> DEFINE s == Stopped(watch, lane.active, "succeeded", FALSE)
    <3>1. Finish(Normalized(s))
      BY <1>6, <2>5 DEF StopExternalEnds
    <3>2. s \in Watch /\ ~s.enabled
      BY <1>1, <2>5, StoppedRecord
    <3> HIDE DEF s
    <3>3. Normalized(s) \in Watch /\ Agrees(Normalized(s), intent)
      BY <2>2, <3>2, NormalizedRecord DEF Agrees
    <3> QED
      BY <3>1, <3>3, FinishAgrees
  <2> QED
    BY <2>1, <2>3, <2>4, <2>5
<1>7. CASE lane.purpose = "main" /\ ~OperationIsCurrent
  BY <1>3, <1>7 DEF StopExternalEnds
<1>8. CASE lane.purpose # "main"
  BY <1>1, <1>3, <1>4, <1>5, <1>8 DEF StopExternalEnds, LaneRecord, Purpose
<1> QED
  BY <1>6, <1>7, <1>8

\* A request is what is now asked for, and takes its place as the operation accepted last.
LEMMA AcceptAgrees ==
  ASSUME GmailInv, OnlyStartsStart, NEW kind \in Kind, NEW was \in Snapshot, NEW w \in Watch,
         Accept(kind, was, w), account, UNCHANGED gmailService,
         w.enabled => intent' = "on", w.status = "pending",
         intent' = IF kind \in {"start", "renew"} THEN "on" ELSE "off"
  PROVE  IntentInv'
<1>1. watch \in Watch /\ lane \in LaneRecord
  BY DEF GmailInv, GmailTypeOK, LaneRecord
<1>2. CASE Idle
  <2> DEFINE l == [IdleLane EXCEPT !.active = kind, !.was = was]
  <2>1. /\ l \in LaneRecord /\ l.active = kind /\ l.pending = NoOperation
        /\ l.active # NoOperation
    BY DEF IdleLane, LaneRecord, Blank, Snapshot, PidRecord, Phase, Purpose, Kind, NoOperation
  <2>2. Activate(l, w)
    BY <1>2 DEF Accept
  <2> HIDE DEF l
  <2>3. \/ lane'.active = kind /\ lane'.pending = NoOperation
        \/ lane'.active = NoOperation /\ lane'.pending = NoOperation
    BY <2>1, <2>2, ActivateLane
  <2>6. OnlyStartsStart'
    BY <2>1, <2>2, ActivateLane
  <2>4. Save(w) \/ (kind \in {"stop", "disconnect"} /\ Save(Stopped(w, kind, "failed", TRUE)))
    BY <2>1, <2>2 DEF Activate, Kind
  <2>5. Agrees(watch', intent')
    <3>1. CASE Save(w)
      BY <3>1, SavedRecord DEF Agrees
    <3>2. CASE kind \in {"stop", "disconnect"} /\ Save(Stopped(w, kind, "failed", TRUE))
      BY <3>2, StoppedRecord, SavedRecord DEF Agrees
    <3> QED
      BY <2>4, <3>1, <3>2
  <2> QED
    BY <2>3, <2>5, <2>6 DEF IntentInv, LaneAgrees, Latest, OnlyStartsStart, NoOperation, Kind
<1>3. CASE ~Idle
  <2>1. /\ lane'.pending = kind /\ Save(w)
        /\ lane'.active = lane.active /\ lane'.phase = lane.phase
    BY <1>1, <1>3 DEF Accept, LaneRecord
  <2>2. Agrees(watch', intent')
    BY <2>1, SavedRecord DEF Agrees
  <2> QED
    BY <2>1, <2>2 DEF IntentInv, LaneAgrees, Latest, OnlyStartsStart, NoOperation, Kind
<1> QED
  BY <1>2, <1>3

\* The requests.
LEMMA RequestAgrees ==
  ASSUME GmailInv, IntentInv,
         \/ StartWatch \/ RenewWatch \/ StartRefused
         \/ \E kind \in {"stop", "disconnect"} : StopWatch(kind)
  PROVE  IntentInv'
<1>1. watch \in Watch /\ Taken \in Snapshot
  BY DEF GmailInv, GmailTypeOK, Watch, Taken, Snapshot
<1> DEFINE p(w) == [w EXCEPT !.kind = "start", !.status = "pending"]
<1>2. /\ p(watch) \in Watch /\ p(watch).enabled = watch.enabled /\ p(watch).status = "pending"
  BY <1>1 DEF Watch
<1>3. CASE StartWatch
  <2>1. account /\ Accept("start", Taken, p(watch)) /\ UNCHANGED gmailService /\ intent' = "on"
    BY <1>3 DEF StartWatch
  <2> HIDE DEF p
  <2> QED
    BY <1>1, <1>2, <2>1, AcceptAgrees DEF Kind, IntentInv
<1>4. CASE RenewWatch
  <2>1. /\ account /\ Accept("renew", Taken, p(watch)) /\ UNCHANGED gmailService
        /\ intent' = "on"
    BY <1>4 DEF RenewWatch, IntentInv, Agrees
  <2> HIDE DEF p
  <2> QED
    BY <1>1, <1>2, <2>1, AcceptAgrees DEF Kind, IntentInv
<1>5. ASSUME NEW kind \in {"stop", "disconnect"}, StopWatch(kind) PROVE IntentInv'
  <2> DEFINE q == [watch EXCEPT !.enabled = FALSE, !.kind = kind, !.status = "pending"]
  <2>1. q \in Watch /\ ~q.enabled /\ q.status = "pending"
    BY <1>1, <1>5 DEF Watch
  <2>2. account /\ Accept(kind, Taken, q) /\ UNCHANGED gmailService /\ intent' = "off"
    BY <1>5 DEF StopWatch
  <2> HIDE DEF q
  <2> QED
    BY <1>1, <1>5, <2>1, <2>2, AcceptAgrees DEF Kind, IntentInv
<1>6. CASE StartRefused
  BY <1>6 DEF StartRefused, IntentInv, LaneAgrees, Latest, OnlyStartsStart
<1> QED
  BY <1>3, <1>4, <1>5, <1>6

\* A start that returns turns the watch on only if nothing was asked for since.
LEMMA StartReturnsAgrees == ASSUME GmailInv, IntentInv, StartReturns PROVE IntentInv'
<1>1. /\ ~Idle /\ account /\ lane.phase = "gogStart" /\ lane \in LaneRecord /\ watch \in Watch
      /\ UNCHANGED <<gmailService, intent>>
  BY DEF GmailInv, GmailTypeOK, PendingIsRecorded, StartReturns, LaneRecord
<1>2. CASE CleanUp \/ FailStart
  BY <1>1, <1>2, CleanUpAgrees, FailStartAgrees
<1>3. CASE ~(CleanUp \/ FailStart)
  <2> DEFINE s == [enabled |-> TRUE, kind |-> "start", status |-> "succeeded", pid |-> "child"]
  <2>1. OperationIsCurrent /\ lane' = IdleLane /\ Save(s)
    BY <1>3 DEF StartReturns
  <2>2. lane.active \in {"start", "renew"}
    BY <1>1 DEF IntentInv, OnlyStartsStart, Idle
  <2>3. intent = "on"
    BY <2>1, <2>2 DEF IntentInv, LaneAgrees, Latest, OnlyStartsStart, OperationIsCurrent
  <2>4. s \in Watch
    BY DEF Watch, PidRecord
  <2> QED
    BY <1>1, <2>1, <2>3, <2>4, SavedRecord
       DEF IntentInv, Agrees, LaneAgrees, Latest, OnlyStartsStart, IdleLane, NoOperation
<1> QED
  BY <1>2, <1>3

\* A stop that returns, or a disconnect.
LEMMA StopsReturnAgree ==
  ASSUME GmailInv, IntentInv, ReapReturns \/ GogStopReturns \/ RevokeReturns PROVE IntentInv'
<1>1. /\ ~Idle /\ UNCHANGED <<gmailService, intent>> /\ watch \in Watch /\ lane \in LaneRecord
      /\ Agrees(watch, intent)
  BY DEF ReapReturns, GogStopReturns, RevokeReturns, GmailInv, GmailTypeOK, LaneRecord, IntentInv
<1>2. CASE ReapReturns
  <2>1. CASE serve = "none" /\ lane.purpose # "reap"
    <3>1. /\ watch' = watch /\ lane'.active = lane.active /\ lane'.pending = lane.pending
          /\ lane'.phase # "gogStart"
      BY <1>1, <1>2, <2>1 DEF ReapReturns, LaneRecord
    <3> QED
      BY <1>1, <3>1 DEF IntentInv, LaneAgrees, Latest, OnlyStartsStart
  <2>2. CASE ~(serve = "none" /\ lane.purpose # "reap")
    <3>1. lane.phase \in {"reap", "gogStop"} /\ StopExternalEnds(FALSE, TRUE)
      BY <1>2, <2>2 DEF ReapReturns
    <3> QED
      BY <1>1, <3>1, StopExternalAgrees
  <2> QED
    BY <2>1, <2>2
<1>3. CASE GogStopReturns
  <2>1. PICK ok \in BOOLEAN : lane.phase \in {"reap", "gogStop"} /\ StopExternalEnds(ok, FALSE)
    BY <1>3 DEF GogStopReturns
  <2> QED
    BY <1>1, <2>1, StopExternalAgrees
<1>4. CASE RevokeReturns
  <2>1. NoWatch \in Watch /\ Agrees(NoWatch, intent)
    BY DEF NoWatch, Watch, PidRecord, Agrees
  <2>2. \/ Finish(NoWatch) \/ Finish(watch)
        \/ Finish(Normalized(Stopped(watch, "disconnect", "failed", FALSE)))
    BY <1>4 DEF RevokeReturns
  <2> QED
    BY <1>1, <2>1, <2>2, FinishAgrees, StoppedAgrees
<1> QED
  BY <1>2, <1>3, <1>4

\* The child, the boot and the stop of the service turn nothing on and show nothing as done.
LEMMA ChildAgrees ==
  ASSUME GmailInv, IntentInv,
         RestartFires \/ BootRestores \/ ServeExits \/ OrphanExits \/ StopService
  PROVE  IntentInv'
<1>1. watch \in Watch /\ lane \in LaneRecord /\ Agrees(watch, intent) /\ intent' = intent
  BY DEF GmailInv, GmailTypeOK, LaneRecord, IntentInv, RestartFires, BootRestores, ServeExits,
         OrphanExits, StopService
<1>2. ASSUME NEW pid \in PidRecord, Save([watch EXCEPT !.pid = pid])
      PROVE  Agrees(watch', intent)
  <2> DEFINE w == [watch EXCEPT !.pid = pid]
  <2>1. w \in Watch /\ Agrees(w, intent)
    BY <1>1 DEF Watch, Agrees
  <2> HIDE DEF w
  <2>2. Save(w)
    BY <1>2 DEF w
  <2> QED
    BY <1>1, <2>1, <2>2, SaveAgrees
<1>3. Save(watch) => Agrees(watch', intent)
  BY <1>1, SaveAgrees
<1>6. Save(Stopped(watch, "stop", "failed", TRUE)) => Agrees(watch', intent)
  BY <1>1, StoppedAgrees, SaveAgrees
<1>4. Agrees(watch', intent)
  BY <1>1, <1>2, <1>3, <1>6 DEF RestartFires, BootRestores, RestoreYields, RestoreServes,
     ServeExits, OrphanExits, StopService, PidRecord
<1>5. /\ gmailService' # "stopping" => lane' = lane /\ gmailService # "stopping"
      /\ lane'.active = lane.active /\ lane'.phase = lane.phase
  BY <1>1 DEF RestartFires, BootRestores, ServeExits, OrphanExits, StopService, LaneRecord
<1> QED
  BY <1>1, <1>4, <1>5 DEF IntentInv, LaneAgrees, Latest, OnlyStartsStart

\* The next process repairs the record: it turns nothing on and shows nothing as done.
LEMMA ServerRestartAgrees == ASSUME GmailInv, IntentInv, GmailServerRestarts PROVE IntentInv'
<1>1. watch \in Watch /\ Agrees(watch, intent) /\ intent' = intent /\ lane' = IdleLane
  BY DEF GmailInv, GmailTypeOK, IntentInv, GmailServerRestarts
<1> DEFINE pid == IF orphan' = "known" THEN "orphan" ELSE "none"
           w == [watch EXCEPT !.pid = pid]
           off == [w EXCEPT !.enabled = FALSE, !.kind = "stop", !.status = "failed"]
<1>2. watch' = Normalized(IF w.enabled /\ pid = "orphan" THEN off ELSE Interrupted(w))
  BY DEF GmailServerRestarts
<1>3. w \in Watch /\ Agrees(w, intent)
  BY <1>1 DEF Watch, PidRecord, Agrees
<1>4. off \in Watch /\ Agrees(off, intent)
  BY <1>1 DEF Watch, PidRecord, Agrees
<1> HIDE DEF w, off
<1>5. Interrupted(w) \in Watch /\ Agrees(Interrupted(w), intent)
  BY <1>3 DEF Interrupted, Watch, Agrees
<1>6. Agrees(watch', intent)
  BY <1>2, <1>4, <1>5, NormalizedRecord DEF Agrees
<1> QED
  BY <1>1, <1>6 DEF IntentInv, LaneAgrees, Latest, OnlyStartsStart, IdleLane, NoOperation

\* Every action keeps the record and the lane in agreement with what was last asked for.
LEMMA StepIntentInv == GmailInv /\ IntentInv /\ [GmailNext]_gmailVars => IntentInv'
<1> SUFFICES ASSUME GmailInv, IntentInv, [GmailNext]_gmailVars PROVE IntentInv'
  OBVIOUS
<1>1. CASE UNCHANGED gmailVars
  BY <1>1 DEF gmailVars, IntentInv, OnlyStartsStart, Agrees, LaneAgrees, Latest
<1> QED
  BY <1>1, RequestAgrees, StartReturnsAgrees, StopsReturnAgree, ChildAgrees,
     ServerRestartAgrees DEF GmailNext

\* The last request wins, whatever it overtakes and whatever fails or restarts; and a watch
\* that is shown as on, whether its last operation worked or not, is served, or its restart
\* is armed, unless the last thing that was to serve it has failed: a refused or a failed
\* start or renewal, or a restore.
THEOREM TheLatestIntentWins == GmailSpec => []LatestIntentWins
<1>1. GmailInit => IntentInv
  BY DEF GmailInit, NoWatch, IdleLane, IntentInv, Agrees, LaneAgrees, Latest, NoOperation,
         OnlyStartsStart
<1>2. GmailInv /\ IntentInv /\ [GmailNext]_gmailVars => IntentInv'
  BY StepIntentInv
<1>3. GmailInv /\ IntentInv => LatestIntentWins
  <2> SUFFICES ASSUME GmailInv, IntentInv PROVE LatestIntentWins
    OBVIOUS
  <2>1. watch.enabled \in BOOLEAN /\ intent \in {"on", "off"}
    BY DEF GmailInv, GmailTypeOK, Watch
  <2> QED
    BY <2>1 DEF GmailInv, WatchIsServed, IntentInv, Agrees, LatestIntentWins
<1> QED
  BY <1>1, <1>2, <1>3, GmailInvariant, PTL DEF GmailSpec

-----------------------------------------------------------------------------

\* The supervisor's state, the commands' and the service's, whatever their fields.
SidecarState ==
  [wanted : BOOLEAN, child : Copies, pid : Copies, run : Copies,
   status : {"idle", "starting", "running", "backoff", "exited", "failed", "stopping", "stopped"},
   exits : 0..CrashLoopThreshold, crashLoop : BOOLEAN, cleanExit : BOOLEAN]
CommandState ==
  [kind : {"none", "stop", "restart", "shutdown"}, step : {"idle", "waiting", "restarting"},
   copy : Copies]
ServiceState == [leftover : Copies, autostarted : BOOLEAN, halting : BOOLEAN]

ThreadStep == {"none", "precheck", "command", "armed", "checking", "stopping"}
CopyStep == {"none", "failing", "running", "exited"}

\* A copy that runs and that only the record accounts for.
OnRecordOnly(c) ==
  /\ copies[c] = "running" /\ c # service.leftover /\ c \notin lost
  /\ \A k \in Command : commands[k].copy # c

\* It is on record, is the current run, and neither the policy nor a request would launch
\* another: the sidecar is wanted, its status is not that of one that ended, and no timer
\* is armed.
OnRecordIsCurrent ==
  \A c \in Copy : OnRecordOnly(c) =>
    /\ pidFile = c
    /\ sidecar.run = c /\ sidecar.child = c /\ sidecar.pid = c
    /\ sidecar.wanted /\ sidecar.status = "running" /\ ~waking

\* The backoff timer follows a run of a wanted sidecar that is over.
WakingFollowsEnd ==
  waking =>
    /\ sidecar.wanted /\ sidecar.status \notin {"exited", "failed"}
    /\ \A c \in Copy : IsCurrentRun(c) => thread[c] = "none" /\ copies[c] = "none"

\* What the boot cleans up is not what this process launched.
LeftoverIsOld == service.leftover # NoCopy => sidecar.run # service.leftover

\* Only a command that waits has a copy to wait for.
WaitingIsForCopy == \A k \in Command : commands[k].step # "waiting" => commands[k].copy = NoCopy

\* Processes are of simple sidecars, commands of forking ones.
KindsAreApart ==
  /\ entry.type = "simple" => \A c \in Copy : thread[c] = "none"
  /\ entry.type = "forking" => \A c \in Copy : copies[c] = "none"

SidecarInv ==
  /\ SidecarTypeOK /\ OnRecordIsCurrent /\ WakingFollowsEnd /\ LeftoverIsOld /\ WaitingIsForCopy
  /\ KindsAreApart /\ NeverStranded

\* What the end of a run leaves, from state s with the timer w: nothing to wait for, and a
\* timer where the policy asks for a launch.
EndOf(s, w) ==
  /\ pids' \in Copies /\ pidFile' \in Copies
  /\ waking' \in BOOLEAN /\ sidecar' \in SidecarState
  /\ sidecar'.child = NoCopy /\ sidecar'.run = s.run /\ sidecar'.wanted = s.wanted
  /\ ToRestart' => waking'
  /\ \/ waking' = w /\ sidecar'.status \in {"stopped", "exited", "failed"}
     \/ s.wanted /\ sidecar'.status = "backoff"

\* recordExitAndScheduleRestart() does so.
LEMMA EndOfRun ==
  ASSUME SidecarTypeOK, entry' = entry, NEW s \in SidecarState, NEW w \in BOOLEAN,
         NEW success \in BOOLEAN, NEW quick \in BOOLEAN, RecordExit(s, w, success, quick)
  PROVE  EndOf(s, w)
<1> USE SidecarAssumption DEF SidecarState, Copies, EndOf
<1>1. pids' \in Copies /\ pidFile' \in Copies
  BY DEF RecordExit, Unrecord, Written, records, SidecarTypeOK
<1> DEFINE ended == [s EXCEPT !.child = NoCopy, !.pid = NoCopy, !.cleanExit = success /\ ~quick]
<1>2. (success /\ ~quick) \in BOOLEAN
  OBVIOUS
<1>3. /\ ended \in SidecarState /\ ended.child = NoCopy /\ ended.run = s.run
      /\ ended.wanted = s.wanted /\ ended.exits = s.exits
      /\ ended.cleanExit = (success /\ ~quick)
  <2> DEFINE b == success /\ ~quick
  <2>1. b \in BOOLEAN
    BY <1>2
  <2> HIDE DEF b
  <2>2. [s EXCEPT !.child = NoCopy, !.pid = NoCopy, !.cleanExit = b] \in SidecarState
    BY <2>1
  <2>3. [s EXCEPT !.child = NoCopy, !.pid = NoCopy, !.cleanExit = b].cleanExit = b
    BY <2>1
  <2> QED
    BY <2>1, <2>2, <2>3 DEF b
<1>4. CASE StaysDown(s, success, quick)
  <2>1. /\ waking' = w
        /\ sidecar' = [ended EXCEPT
             !.status = IF ~s.wanted THEN "stopped" ELSE IF success THEN "exited" ELSE "failed"]
    BY <1>4 DEF RecordExit
  <2>2. ~s.wanted \/ entry.policy = "never" \/ (entry.policy = "on-failure" /\ success /\ ~quick)
    BY <1>4 DEF StaysDown
  <2> HIDE DEF ended
  <2>3. /\ sidecar' \in SidecarState /\ sidecar'.child = NoCopy /\ sidecar'.run = s.run
        /\ sidecar'.wanted = s.wanted /\ sidecar'.cleanExit = ended.cleanExit
        /\ sidecar'.status \in {"stopped", "exited", "failed"}
    BY <1>3, <2>1
  <2>4. ~ToRestart'
    BY <1>3, <2>2, <2>3 DEF ToRestart
  <2> QED
    BY <1>1, <2>1, <2>3, <2>4
<1>5. CASE ~StaysDown(s, success, quick)
  <2>1. s.wanted /\ waking' = TRUE
    BY <1>5 DEF StaysDown, RecordExit, Rearms
  <2>2. PICK n \in 1..CrashLoopThreshold :
          sidecar' = [ended EXCEPT !.status = "backoff", !.exits = n,
                                   !.crashLoop = @ \/ n = CrashLoopThreshold]
    BY <1>5 DEF RecordExit
  <2>3. n \in 0..CrashLoopThreshold
    OBVIOUS
  <2> HIDE DEF ended
  <2>4. /\ sidecar' \in SidecarState /\ sidecar'.child = NoCopy /\ sidecar'.run = s.run
        /\ sidecar'.wanted = s.wanted /\ sidecar'.status = "backoff"
    BY <1>3, <2>2, <2>3
  <2> QED
    BY <1>1, <2>1, <2>4
<1> QED
  BY <1>4, <1>5

\* What a launch of copy c does: its process runs, on record or lost, or has no pid; or a
\* check starts; or it ends at once.
LaunchOf(c, w) ==
  /\ sidecar' \in SidecarState /\ sidecar'.wanted /\ sidecar'.run = c
  /\ waking' \in BOOLEAN /\ pids' \in Copies /\ pidFile' \in Copies
  /\ maturing' \subseteq Copy /\ lost' \subseteq Copy
  /\ copies' \in [Copy -> CopyStep] /\ thread' \in [Copy -> ThreadStep]
  /\ c # service.leftover
  /\ \A d \in Copy \ {c} : copies'[d] = copies[d] /\ thread'[d] = thread[d]
                           /\ (d \in lost' <=> d \in lost)
  /\ \/ /\ entry.type = "simple" /\ copies'[c] = "running" /\ thread'[c] = "none"
        /\ c \in lost' \/ pidFile' = c
        /\ sidecar'.child = c /\ sidecar'.pid = c /\ sidecar'.status = "running" /\ waking' = w
     \/ /\ entry.type = "simple" /\ copies'[c] = "failing" /\ thread'[c] = "none"
        /\ sidecar'.status = "starting" /\ waking' = w
     \/ /\ entry.type = "forking" /\ copies'[c] = "none" /\ thread'[c] = "precheck"
        /\ sidecar'.status = "starting" /\ waking' = w
     \/ /\ copies'[c] = "none" /\ thread'[c] = "none"
        /\ ToRestart' => waking'
        /\ \/ waking' = w /\ sidecar'.status \in {"stopped", "exited", "failed"}
           \/ sidecar'.status = "backoff"

\* A launch of a wanted sidecar is that of some unused copy.
LEMMA LaunchIsOfCopy ==
  ASSUME SidecarTypeOK, entry' = entry, NEW s \in SidecarState, s.wanted, NEW w \in BOOLEAN,
         Launch(s, w)
  PROVE  \E c \in Copy : LaunchOf(c, w)
<1> USE SidecarAssumption DEF CopyStep, ThreadStep
<1>1. PICK c \in Copy :
        /\ UnusedCopy(c)
        /\ \/ entry.type = "simple" /\ (Spawn(s, c) \/ SpawnWithoutPid(s, c)) /\ waking' = w
           \/ entry.type = "forking" /\ StartPrecheck(s, c) /\ waking' = w
           \/ LaunchRefused(s, w, c)
  BY DEF Launch
<1>2. /\ copies[c] = "none" /\ thread[c] = "none" /\ c \in Copies /\ NoCopy \in Copies
      /\ c # service.leftover
  BY <1>1 DEF UnusedCopy, Copies
<1>3. CASE entry.type = "simple" /\ Spawn(s, c) /\ waking' = w
  <2>1. sidecar' \in SidecarState /\ sidecar'.wanted /\ sidecar'.run = c /\ sidecar'.child = c
        /\ sidecar'.pid = c /\ sidecar'.status = "running"
    BY <1>2, <1>3 DEF Spawn, SidecarState
  <2>2. /\ pids' \in Copies /\ pidFile' \in Copies /\ lost' \subseteq Copy
        /\ c \in lost' \/ pidFile' = c
        /\ \A d \in Copy \ {c} : d \in lost' <=> d \in lost
    BY <1>2, <1>3 DEF Spawn, Written, SidecarTypeOK
  <2> QED
    BY <1>2, <1>3, <2>1, <2>2 DEF SidecarTypeOK, Spawn, LaunchOf
<1>4. CASE entry.type = "simple" /\ SpawnWithoutPid(s, c) /\ waking' = w
  <2>1. sidecar' \in SidecarState /\ sidecar'.wanted /\ sidecar'.run = c
        /\ sidecar'.status = "starting"
    BY <1>2, <1>4 DEF SpawnWithoutPid, SidecarState
  <2> QED
    BY <1>2, <1>4, <2>1 DEF SidecarTypeOK, SpawnWithoutPid, LaunchOf, records
<1>5. CASE entry.type = "forking" /\ StartPrecheck(s, c) /\ waking' = w
  <2>1. sidecar' \in SidecarState /\ sidecar'.wanted /\ sidecar'.run = c
        /\ sidecar'.status = "starting"
    BY <1>2, <1>5 DEF StartPrecheck, SidecarState
  <2> QED
    BY <1>2, <1>5, <2>1 DEF SidecarTypeOK, StartPrecheck, LaunchOf, records
<1>6. CASE LaunchRefused(s, w, c)
  <2> DEFINE t == [s EXCEPT !.run = c]
  <2>1. t \in SidecarState /\ t.wanted /\ t.run = c
    BY <1>2 DEF SidecarState
  <2>2. RecordExit(t, w, FALSE, FALSE) /\ UNCHANGED <<copies, thread, lost, maturing>>
    BY <1>6 DEF LaunchRefused
  <2> HIDE DEF t
  <2>3. EndOf(t, w)
    <3>1. FALSE \in BOOLEAN
      OBVIOUS
    <3> QED
      BY <2>1, <2>2, <3>1, EndOfRun
  <2> QED
    BY <1>2, <2>1, <2>2, <2>3 DEF SidecarTypeOK, EndOf, LaunchOf
<1> QED
  BY <1>1, <1>3, <1>4, <1>5, <1>6

\* No command begins or ends its waiting, and the boot's cleanup goes on as it was.
CommandsGoOn ==
  /\ entry' = entry /\ daemon' = daemon
  /\ commands' \in [Command -> CommandState] /\ service' \in ServiceState
  /\ service'.leftover = service.leftover
  /\ \A k \in Command : /\ commands'[k].copy = commands[k].copy
                        /\ commands'[k].step # "waiting" => commands[k].step # "waiting"

\* A launch, when nothing is held and the timer is not armed.
LEMMA LaunchKeeps ==
  ASSUME SidecarInv, NEW c \in Copy, LaunchOf(c, FALSE), CommandsGoOn,
         \A d \in Copy : ~OnRecordOnly(d)
  PROVE  SidecarInv'
<1> USE SidecarAssumption DEF SidecarInv, LaunchOf, CommandsGoOn
<1>1. SidecarTypeOK'
  BY DEF SidecarTypeOK, SidecarState, CommandState, ServiceState, CopyStep, ThreadStep
<1>2. OnRecordIsCurrent'
  <2> SUFFICES ASSUME NEW d \in Copy, OnRecordOnly(d)'
               PROVE  /\ pidFile' = d /\ sidecar'.run = d /\ sidecar'.child = d
                      /\ sidecar'.pid = d /\ sidecar'.wanted /\ sidecar'.status = "running"
                      /\ ~waking'
    BY DEF OnRecordIsCurrent
  <2>1. d = c
    BY DEF OnRecordOnly
  <2>2. copies'[c] = "running" /\ c \notin lost'
    BY <2>1 DEF OnRecordOnly
  <2> QED
    BY <2>1, <2>2
<1>3. WakingFollowsEnd'
  BY DEF WakingFollowsEnd, IsCurrentRun
<1>4. LeftoverIsOld' /\ WaitingIsForCopy'
  BY DEF LeftoverIsOld, WaitingIsForCopy
<1>5. KindsAreApart'
  BY DEF KindsAreApart
<1>6. NeverStranded'
  <2>1. c # NoCopy
    OBVIOUS
  <2> QED
    BY <2>1 DEF NeverStranded
<1> QED
  BY <1>1, <1>2, <1>3, <1>4, <1>5, <1>6

\* start(), from any of its callers.  s is the state with the counts it resets.
LEMMA StartKeeps ==
  ASSUME SidecarInv, NEW s \in SidecarState, s.wanted = sidecar.wanted,
         s.status = sidecar.status, s.run = sidecar.run, s.child = sidecar.child,
         s.pid = sidecar.pid, s.cleanExit = sidecar.cleanExit, Start(s), CommandsGoOn
  PROVE  SidecarInv'
<1> USE SidecarAssumption DEF SidecarInv
<1>1. CASE s.wanted /\ s.status \notin {"exited", "failed"}
  <2>1. sidecar' = s /\ UNCHANGED <<waking, copies, thread, pids, pidFile, lost, maturing>>
    BY <1>1 DEF Start, records
  <2>2. SidecarTypeOK'
    BY <2>1 DEF CommandsGoOn, SidecarTypeOK, SidecarState, CommandState, ServiceState
  <2>3. OnRecordIsCurrent'
    BY <2>1 DEF CommandsGoOn, OnRecordIsCurrent, OnRecordOnly
  <2>4. WakingFollowsEnd' /\ LeftoverIsOld' /\ WaitingIsForCopy' /\ KindsAreApart'
    BY <2>1 DEF CommandsGoOn, WakingFollowsEnd, LeftoverIsOld, WaitingIsForCopy, KindsAreApart,
                IsCurrentRun
  <2>5. NeverStranded'
    BY <2>1 DEF CommandsGoOn, NeverStranded, ToRestart
  <2> QED
    BY <2>2, <2>3, <2>4, <2>5
<1>2. CASE ~(s.wanted /\ s.status \notin {"exited", "failed"})
  <2> DEFINE t == [s EXCEPT !.wanted = TRUE]
  <2>1. Launch(t, waking) /\ t \in SidecarState /\ t.wanted
    BY <1>2 DEF Start, SidecarState
  <2>2. waking = FALSE
    BY <1>2 DEF WakingFollowsEnd, SidecarTypeOK
  <2>3. \A d \in Copy : ~OnRecordOnly(d)
    BY <1>2 DEF OnRecordIsCurrent
  <2> HIDE DEF t
  <2>4. \E c \in Copy : LaunchOf(c, FALSE)
    BY <2>1, <2>2, LaunchIsOfCopy DEF CommandsGoOn
  <2> QED
    BY <2>3, <2>4, LaunchKeeps
<1> QED
  BY <1>1, <1>2

\* A run that ends, of which no process and no command is left, when nothing is held.
LEMMA EndKeeps ==
  ASSUME SidecarInv, NEW c \in Copy, IsCurrentRun(c), ~waking, \A d \in Copy : ~OnRecordOnly(d),
         NEW s \in SidecarState, s.wanted = sidecar.wanted, s.run \in {c, NoCopy},
         NEW success \in BOOLEAN, NEW quick \in BOOLEAN, RecordExit(s, waking, success, quick),
         copies' = [copies EXCEPT ![c] = "none"], thread' = [thread EXCEPT ![c] = "none"],
         lost' \in {lost, lost \ {c}}, daemon' \in {"none", "left", "ours"},
         maturing' \subseteq Copy, UNCHANGED <<entry, commands, service>>
  PROVE  SidecarInv'
<1> USE SidecarAssumption DEF SidecarInv, IsCurrentRun
<1>1. EndOf(s, waking)
  <2>1. waking \in BOOLEAN
    BY DEF SidecarTypeOK
  <2> QED
    BY <2>1, EndOfRun
<1>2. /\ copies'[c] = "none" /\ thread'[c] = "none"
      /\ \A d \in Copy \ {c} : copies'[d] = copies[d] /\ thread'[d] = thread[d]
  BY DEF SidecarTypeOK
<1>3. SidecarTypeOK'
  BY <1>1 DEF EndOf, SidecarTypeOK, SidecarState
<1>4. OnRecordIsCurrent'
  BY <1>2 DEF OnRecordIsCurrent, OnRecordOnly
<1>5. WakingFollowsEnd'
  BY <1>1, <1>2 DEF EndOf, WakingFollowsEnd
<1>6. LeftoverIsOld' /\ WaitingIsForCopy' /\ KindsAreApart'
  BY <1>1, <1>2 DEF EndOf, LeftoverIsOld, WaitingIsForCopy, KindsAreApart
<1>7. NeverStranded'
  BY <1>1 DEF EndOf, NeverStranded
<1> QED
  BY <1>3, <1>4, <1>5, <1>6, <1>7

\* What becomes of a process.
LEMMA CopyKeeps ==
  ASSUME SidecarInv, NEW c \in Copy, ProcessExits(c) \/ ExitSeen(c)
  PROVE  SidecarInv'
<1> USE SidecarAssumption DEF SidecarInv
<1>1. CASE ProcessExits(c)
  <2>1. /\ copies'[c] = "exited" /\ copies[c] = "running"
        /\ \A d \in Copy \ {c} : copies'[d] = copies[d]
        /\ UNCHANGED <<entry, sidecar, daemon, thread, waking, maturing, commands, service,
                       pids, pidFile, lost>>
    BY <1>1 DEF ProcessExits, SidecarTypeOK, records
  <2>2. SidecarTypeOK'
    BY <1>1 DEF ProcessExits, SidecarTypeOK, records
  <2>3. OnRecordIsCurrent' /\ WakingFollowsEnd'
    BY <2>1 DEF OnRecordIsCurrent, OnRecordOnly, WakingFollowsEnd, IsCurrentRun
  <2>4. LeftoverIsOld' /\ WaitingIsForCopy' /\ KindsAreApart'
    BY <2>1 DEF LeftoverIsOld, WaitingIsForCopy, KindsAreApart
  <2>5. NeverStranded'
    BY <2>1 DEF NeverStranded, ToRestart, SidecarTypeOK, Copies
  <2> QED
    BY <2>2, <2>3, <2>4, <2>5
<1>2. CASE ExitSeen(c) /\ IsCurrentRun(c)
  <2>1. copies[c] \in {"failing", "exited"} /\ ~waking /\ thread[c] = "none"
    BY <1>2 DEF ExitSeen, WakingFollowsEnd, KindsAreApart, SidecarTypeOK
  <2>2. \A d \in Copy : ~OnRecordOnly(d)
    BY <1>2, <2>1 DEF OnRecordIsCurrent, OnRecordOnly, IsCurrentRun
  <2>3. PICK success \in BOOLEAN, quick \in BOOLEAN : RecordExit(sidecar, waking, success, quick)
    BY <1>2 DEF ExitSeen
  <2>4. thread' = [thread EXCEPT ![c] = "none"] /\ sidecar \in SidecarState
    BY <1>2, <2>1 DEF ExitSeen, SidecarTypeOK, SidecarState
  <2>5. /\ copies' = [copies EXCEPT ![c] = "none"] /\ daemon' \in {"none", "left", "ours"}
        /\ maturing' \subseteq Copy /\ UNCHANGED <<entry, commands, service>>
        /\ lost' \in {lost, lost \ {c}} /\ sidecar.run \in {c, NoCopy}
    BY <1>2 DEF ExitSeen, SidecarTypeOK, IsCurrentRun
  <2> QED
    BY <1>2, <2>1, <2>2, <2>3, <2>4, <2>5, EndKeeps
<1>3. CASE ExitSeen(c) /\ ~IsCurrentRun(c)
  <2>1. /\ copies'[c] = "none" /\ copies[c] # "running"
        /\ \A d \in Copy \ {c} : copies'[d] = copies[d]
        /\ copies' \in [Copy -> {"none", "failing", "running", "exited"}]
        /\ UNCHANGED <<entry, sidecar, daemon, thread, waking, maturing, commands, service,
                       pids, pidFile>>
        /\ lost' = lost \ {c} /\ lost' \subseteq Copy
    BY <1>3 DEF ExitSeen, SidecarTypeOK, records
  <2>2. SidecarTypeOK'
    BY <2>1 DEF SidecarTypeOK
  <2>3. OnRecordIsCurrent' /\ WakingFollowsEnd'
    BY <2>1 DEF OnRecordIsCurrent, OnRecordOnly, WakingFollowsEnd, IsCurrentRun
  <2>4. LeftoverIsOld' /\ WaitingIsForCopy' /\ KindsAreApart'
    BY <2>1 DEF LeftoverIsOld, WaitingIsForCopy, KindsAreApart
  <2>5. NeverStranded'
    BY <1>3, <2>1 DEF NeverStranded, ToRestart, IsCurrentRun, SidecarTypeOK, Copies
  <2> QED
    BY <2>2, <2>3, <2>4, <2>5
<1> QED
  BY <1>1, <1>2, <1>3

\* A command of a forking sidecar goes on: with status running, or as it was; whoever is
\* not the current run, or not wanted, may also end.
LEMMA CommandGoesOn ==
  ASSUME SidecarInv, NEW c \in Copy, thread[c] # "none", NEW t \in ThreadStep,
         thread' = [thread EXCEPT ![c] = t], Wanted(c) => t # "none",
         \/ sidecar' = sidecar
         \/ Wanted(c) /\ sidecar' = [sidecar EXCEPT !.status = "running"],
         daemon' \in {"none", "left", "ours"}, maturing' \subseteq Copy,
         UNCHANGED <<entry, copies, waking, commands, service, pids, pidFile, lost>>
  PROVE  SidecarInv'
<1> USE SidecarAssumption DEF SidecarInv
<1>1. entry.type = "forking" /\ \A d \in Copy : copies[d] = "none"
  BY DEF KindsAreApart, SidecarTypeOK
<1>2. Wanted(c) => ~waking
  BY DEF Wanted, WakingFollowsEnd
<1>3. /\ sidecar' \in SidecarState /\ sidecar'.wanted = sidecar.wanted
      /\ sidecar'.run = sidecar.run /\ sidecar'.cleanExit = sidecar.cleanExit
      /\ sidecar'.status = sidecar.status \/ (~waking /\ sidecar'.status = "running")
  BY <1>2 DEF SidecarTypeOK, SidecarState
<1>4. /\ thread'[c] = t /\ \A d \in Copy \ {c} : thread'[d] = thread[d]
      /\ thread' \in [Copy -> ThreadStep]
  BY DEF SidecarTypeOK, ThreadStep
<1>5. SidecarTypeOK'
  BY <1>3, <1>4 DEF SidecarTypeOK, SidecarState, ThreadStep
<1>6. OnRecordIsCurrent'
  BY <1>1 DEF OnRecordIsCurrent, OnRecordOnly
<1>7. LeftoverIsOld' /\ WaitingIsForCopy' /\ KindsAreApart'
  BY <1>1, <1>3 DEF LeftoverIsOld, WaitingIsForCopy, KindsAreApart
<1>8. WakingFollowsEnd'
  BY <1>3, <1>4 DEF WakingFollowsEnd, IsCurrentRun
<1>9. NeverStranded'
  BY <1>3, <1>4 DEF NeverStranded, ToRestart, IsCurrentRun, Wanted, SidecarTypeOK, Copies
<1> QED
  BY <1>5, <1>6, <1>7, <1>8, <1>9

\* What becomes of a forking sidecar's command.
LEMMA CommandKeeps ==
  ASSUME SidecarInv, NEW c \in Copy,
         PrecheckEnds(c) \/ CommandEnds(c) \/ CheckStarts(c) \/ CheckEnds(c) \/ CheckStops(c)
  PROVE  SidecarInv'
<1> USE SidecarAssumption DEF SidecarInv, records
<1>1. /\ daemon \in {"none", "left", "ours"} /\ maturing \cup {c} \subseteq Copy
      /\ maturing \subseteq Copy /\ sidecar \in SidecarState
  BY DEF SidecarTypeOK, SidecarState
<1>2. CASE PrecheckEnds(c)
  BY <1>1, <1>2, CommandGoesOn DEF PrecheckEnds, DaemonRuns, ThreadMoves, ThreadStep
<1>3. CASE CheckStarts(c)
  BY <1>1, <1>3, CommandGoesOn DEF CheckStarts, ThreadMoves, ThreadStep
<1>4. CASE CheckEnds(c)
  BY <1>1, <1>4, CommandGoesOn DEF CheckEnds, ThreadMoves, ThreadStep
<1>5. ASSUME IsCurrentRun(c), thread[c] # "none",
             NEW s \in SidecarState, s.wanted = sidecar.wanted, s.run \in {c, NoCopy},
             RecordExit(s, waking, FALSE, FALSE), thread' = [thread EXCEPT ![c] = "none"],
             daemon' \in {"none", "left", "ours"},
             UNCHANGED <<entry, copies, maturing, commands, service, lost>>
      PROVE  SidecarInv'
  <2>1. \A d \in Copy : copies[d] = "none"
    BY <1>5 DEF KindsAreApart, SidecarTypeOK
  <2>2. copies' = [copies EXCEPT ![c] = "none"] /\ maturing' \subseteq Copy
    BY <1>1, <1>5, <2>1 DEF SidecarTypeOK
  <2>3. ~waking /\ \A d \in Copy : ~OnRecordOnly(d)
    BY <1>5, <2>1 DEF WakingFollowsEnd, OnRecordOnly
  <2>4. FALSE \in BOOLEAN /\ UNCHANGED <<entry, commands, service>> /\ lost' \in {lost, lost \ {c}}
    BY <1>5
  <2> QED
    BY <1>5, <2>2, <2>3, <2>4, EndKeeps
<1>6. CASE CommandEnds(c)
  <2>1. thread[c] = "command" /\ daemon' \in {"none", "left", "ours"}
        /\ UNCHANGED <<entry, copies, commands, service, lost>>
    BY <1>1, <1>6 DEF CommandEnds
  <2>2. CASE Wanted(c) /\ DaemonRuns(c) /\ UNCHANGED <<waking, records>>
    BY <1>1, <2>1, <2>2, CommandGoesOn DEF DaemonRuns, ThreadMoves, ThreadStep
  <2>3. CASE Wanted(c) /\ RecordExit(sidecar, waking, FALSE, FALSE)
             /\ ThreadMoves(c, "none") /\ UNCHANGED maturing
    <3>1. IsCurrentRun(c) /\ sidecar.run \in {c, NoCopy}
      BY <2>3 DEF Wanted, IsCurrentRun
    <3> QED
      BY <1>1, <1>5, <2>1, <2>3, <3>1 DEF ThreadMoves
  <2>4. CASE ~Wanted(c) /\ ThreadMoves(c, "none")
           /\ UNCHANGED <<sidecar, maturing, waking, records>>
    BY <1>1, <2>1, <2>4, CommandGoesOn DEF ThreadMoves, ThreadStep
  <2> QED
    BY <1>6, <2>2, <2>3, <2>4 DEF CommandEnds
<1>7. CASE CheckStops(c)
  <2>1. thread[c] = "stopping" /\ daemon' \in {"none", "left", "ours"} /\ ThreadMoves(c, "none")
        /\ UNCHANGED <<entry, copies, maturing, commands, service, lost>>
    BY <1>1, <1>7 DEF CheckStops
  <2>2. CASE Wanted(c)
    <3> DEFINE s == [sidecar EXCEPT !.run = NoCopy]
    <3>1. s \in SidecarState /\ s.wanted = sidecar.wanted /\ s.run \in {c, NoCopy}
      BY <1>1 DEF SidecarState, Copies
    <3>2. IsCurrentRun(c) /\ RecordExit(s, waking, FALSE, FALSE)
      BY <1>7, <2>2 DEF CheckStops, Wanted
    <3> HIDE DEF s
    <3> QED
      BY <1>5, <2>1, <3>1, <3>2 DEF ThreadMoves
  <2>3. CASE ~Wanted(c)
    BY <1>1, <1>7, <2>1, <2>3, CommandGoesOn DEF CheckStops, ThreadMoves, ThreadStep
  <2> QED
    BY <2>2, <2>3
<1> QED
  BY <1>2, <1>3, <1>4, <1>6, <1>7

\* clearTimers() and stop(): a copy that is held is waited for.
LEMMA StopKeeps ==
  ASSUME SidecarInv, NEW k \in Command,
         NEW kind \in {"stop", "restart", "shutdown"}, StopRequested(k, kind)
  PROVE  SidecarInv'
<1> USE SidecarAssumption DEF SidecarInv
<1>1. /\ waking' = FALSE /\ maturing' = {}
      /\ thread' \in [Copy -> {"none", "precheck", "command", "armed", "checking", "stopping"}]
      /\ \A c \in Copy : thread'[c] # "none" => thread[c] # "none"
      /\ UNCHANGED <<entry, copies, daemon, pids, pidFile, lost>>
  BY DEF StopRequested, TimersCleared, SidecarTypeOK, records
<1>2. PICK waits \in {MayWait, MayWait /\ entry.type = "simple"} :
        /\ sidecar' = [sidecar EXCEPT !.wanted = FALSE, !.run = NoCopy,
                                      !.status = IF waits THEN "stopping" ELSE "stopped"]
        /\ IF waits
           THEN commands' = [commands EXCEPT ![k] = [kind |-> kind, step |-> "waiting",
                               copy |-> sidecar.pid]]
           ELSE NextStep(k, kind)
  BY DEF StopRequested
<1>3. /\ sidecar' \in SidecarState /\ ~sidecar'.wanted /\ sidecar'.run = NoCopy
  BY <1>2 DEF SidecarTypeOK, SidecarState, Copies
<1>4. service' \in ServiceState /\ service'.leftover = service.leftover
  BY DEF StopRequested, SidecarTypeOK, ServiceState
<1>5. /\ commands' \in [Command -> CommandState]
      /\ \A j \in Command \ {k} : commands'[j] = commands[j]
      /\ commands'[k].step # "waiting" => commands'[k].copy = NoCopy
      /\ MayWait /\ entry.type = "simple" => commands'[k].copy = sidecar.pid
  <2>1. CASE waits
    <3> DEFINE r == [kind |-> kind, step |-> "waiting", copy |-> sidecar.pid]
    <3>1. r \in CommandState /\ r.step = "waiting" /\ r.copy = sidecar.pid
      BY DEF CommandState, SidecarTypeOK
    <3>2. commands' = [commands EXCEPT ![k] = r]
      BY <1>2, <2>1
    <3> HIDE DEF r
    <3> QED
      BY <2>1, <3>1, <3>2 DEF SidecarTypeOK, CommandState
  <2>2. CASE ~waits
    <3> DEFINE r == IF kind = "restart"
                    THEN [kind |-> kind, step |-> "restarting", copy |-> NoCopy] ELSE NoCommand
    <3>1. r \in CommandState /\ r.copy = NoCopy
      BY DEF CommandState, NoCommand, Copies
    <3>2. commands' = [commands EXCEPT ![k] = r]
      BY <1>2, <2>2 DEF NextStep
    <3> HIDE DEF r
    <3>3. ~(MayWait /\ entry.type = "simple")
      BY <1>2, <2>2
    <3> QED
      BY <3>1, <3>2, <3>3 DEF SidecarTypeOK, CommandState
  <2> QED
    BY <2>1, <2>2
<1>6. SidecarTypeOK'
  BY <1>1, <1>3, <1>4, <1>5 DEF SidecarTypeOK, SidecarState, CommandState, ServiceState
<1>7. OnRecordIsCurrent'
  <2> SUFFICES ASSUME NEW c \in Copy, OnRecordOnly(c)' PROVE FALSE
    BY DEF OnRecordIsCurrent
  <2>1. commands[k].copy = NoCopy
    BY DEF StopRequested, WaitingIsForCopy
  <2>2. OnRecordOnly(c)
    <3>1. \A j \in Command : commands[j].copy # c
      BY <1>5, <2>1 DEF OnRecordOnly
    <3> QED
      BY <1>1, <1>4, <3>1 DEF OnRecordOnly
  <2>3. sidecar.child = c /\ sidecar.pid = c /\ entry.type = "simple"
    BY <2>2 DEF OnRecordIsCurrent, OnRecordOnly, KindsAreApart, SidecarTypeOK
  <2>4. MayWait
    BY <2>3 DEF MayWait
  <2> QED
    BY <1>5, <2>3, <2>4 DEF OnRecordOnly
<1>8. WakingFollowsEnd' /\ KindsAreApart' /\ NeverStranded'
  BY <1>1, <1>3 DEF WakingFollowsEnd, NeverStranded, ToRestart, KindsAreApart
<1>9. LeftoverIsOld' /\ WaitingIsForCopy'
  BY <1>3, <1>5 DEF LeftoverIsOld, WaitingIsForCopy
<1> QED
  BY <1>6, <1>7, <1>8, <1>9

\* A stop that ended: what runs and it did not wait for is lost, if nothing else accounts
\* for it.
LEMMA StopEndKeeps ==
  ASSUME SidecarInv, NEW k \in Command, StopEnds(k)
  PROVE  SidecarInv'
<1> USE SidecarAssumption DEF SidecarInv
<1>1. /\ sidecar' \in SidecarState /\ sidecar'.wanted = sidecar.wanted
      /\ sidecar'.run = sidecar.run /\ sidecar'.cleanExit = sidecar.cleanExit
      /\ sidecar'.status = "stopped"
      /\ UNCHANGED <<entry, copies, thread, waking, maturing, service>>
      /\ daemon' \in {"none", "left", "ours"}
  BY DEF StopEnds, SidecarTypeOK, SidecarState, Copies
<1>2. /\ commands' \in [Command -> CommandState]
      /\ \A j \in Command \ {k} : commands'[j] = commands[j]
      /\ commands'[k].copy = NoCopy
  <2> DEFINE r == IF commands[k].kind = "restart"
                  THEN [kind |-> commands[k].kind, step |-> "restarting", copy |-> NoCopy]
                  ELSE NoCommand
  <2>1. r \in CommandState /\ r.copy = NoCopy
    BY DEF CommandState, NoCommand, Copies
  <2>2. commands' = [commands EXCEPT ![k] = r]
    BY DEF StopEnds, NextStep
  <2> HIDE DEF r
  <2> QED
    BY <2>1, <2>2 DEF SidecarTypeOK, CommandState
<1>3. pids' \in Copies /\ pidFile' \in Copies /\ lost' \subseteq Copy
  BY DEF StopEnds, Unrecord, Written, records, SidecarTypeOK, Copies
<1>4. SidecarTypeOK'
  BY <1>1, <1>2, <1>3 DEF SidecarTypeOK, SidecarState, CommandState
<1>5. OnRecordIsCurrent'
  <2> SUFFICES ASSUME NEW c \in Copy, OnRecordOnly(c)' PROVE FALSE
    BY DEF OnRecordIsCurrent
  <2>1. copies[c] = "running" /\ c \notin lost' /\ c # NoCopy
    BY <1>1 DEF OnRecordOnly
  <2>2. commands[k].copy # c
    BY <2>1 DEF StopEnds
  <2>3. c \notin lost /\ c # sidecar.child
    BY <2>1, <2>2 DEF StopEnds
  <2>4. OnRecordOnly(c)
    BY <1>1, <1>2, <2>1, <2>2, <2>3 DEF OnRecordOnly
  <2> QED
    BY <2>3, <2>4 DEF OnRecordIsCurrent
<1>6. WakingFollowsEnd' /\ LeftoverIsOld' /\ KindsAreApart'
  BY <1>1 DEF WakingFollowsEnd, LeftoverIsOld, KindsAreApart, IsCurrentRun
<1>7. WaitingIsForCopy' /\ NeverStranded'
  BY <1>1, <1>2 DEF WaitingIsForCopy, NeverStranded, ToRestart
<1> QED
  BY <1>4, <1>5, <1>6, <1>7

\* A stable run, or a restart, forgets the exits.
Forgiven(s) == [s EXCEPT !.exits = 0, !.crashLoop = FALSE]

\* It touches neither the run nor the wish for one.
LEMMA ForgivenIsSidecar ==
  ASSUME NEW s \in SidecarState
  PROVE  /\ Forgiven(s) \in SidecarState
         /\ Forgiven(s).wanted = s.wanted /\ Forgiven(s).status = s.status
         /\ Forgiven(s).run = s.run /\ Forgiven(s).child = s.child
         /\ Forgiven(s).pid = s.pid /\ Forgiven(s).cleanExit = s.cleanExit
<1>1. 0 \in 0..CrashLoopThreshold
  BY SidecarAssumption
<1>2. [s EXCEPT !.exits = 0] \in SidecarState
  BY <1>1 DEF SidecarState
<1> QED
  BY <1>2, Zenon DEF Forgiven, SidecarState

\* Every way to a launch.
LEMMA StartingKeeps ==
  ASSUME SidecarInv,
         BackoffEnds \/ StartRequested \/ AutoStart \/ \E k \in Command : RestartStarts(k)
  PROVE  SidecarInv'
<1> USE SidecarAssumption DEF SidecarInv
<1>1. /\ sidecar \in SidecarState /\ commands \in [Command -> CommandState]
      /\ service \in ServiceState
  BY DEF SidecarTypeOK, SidecarState, CommandState, ServiceState
<1>2. CASE BackoffEnds
  <2>1. waking /\ sidecar.wanted
    BY <1>2 DEF BackoffEnds, WakingFollowsEnd
  <2>2. \A d \in Copy : ~OnRecordOnly(d)
    BY <2>1 DEF OnRecordIsCurrent
  <2>3. \E c \in Copy : LaunchOf(c, FALSE)
    BY <1>1, <1>2, <2>1, LaunchIsOfCopy DEF BackoffEnds
  <2>4. CommandsGoOn
    BY <1>1, <1>2 DEF BackoffEnds, CommandsGoOn
  <2> QED
    BY <2>2, <2>3, <2>4, LaunchKeeps
<1>3. CASE StartRequested \/ AutoStart
  <2>1. Start(sidecar) /\ CommandsGoOn
    BY <1>1, <1>3 DEF StartRequested, AutoStart, CommandsGoOn, ServiceState
  <2> QED
    BY <1>1, <2>1, StartKeeps
<1>4. ASSUME NEW k \in Command, RestartStarts(k) PROVE SidecarInv'
  <2> DEFINE s == Forgiven(sidecar)
  <2>1. NoCommand \in CommandState /\ NoCommand.copy = NoCopy
    BY DEF NoCommand, CommandState, Copies
  <2>2. commands[k].step = "restarting" /\ commands[k].copy = NoCopy
    BY <1>4 DEF RestartStarts, WaitingIsForCopy
  <2>3. CommandsGoOn
    BY <1>1, <1>4, <2>1, <2>2 DEF RestartStarts, CommandsGoOn
  <2>4. /\ s \in SidecarState /\ s.wanted = sidecar.wanted /\ s.status = sidecar.status
        /\ s.run = sidecar.run /\ s.child = sidecar.child /\ s.pid = sidecar.pid
        /\ s.cleanExit = sidecar.cleanExit
    BY <1>1, ForgivenIsSidecar
  <2>5. Start(s)
    BY <1>4 DEF RestartStarts, Forgiven
  <2> HIDE DEF s
  <2> QED
    BY <2>3, <2>4, <2>5, StartKeeps
<1> QED
  BY <1>2, <1>3, <1>4

\* The boot, the death of the server, the recovery timer and the daemon.
LEMMA ServiceKeeps ==
  ASSUME SidecarInv, \/ BootCleansUp \/ ServerDiesAndBoots \/ DaemonDies
                     \/ \E c \in Copy : RecoveryElapses(c)
  PROVE  SidecarInv'
<1> USE SidecarAssumption DEF SidecarInv, records
<1>1. CASE BootCleansUp
  <2>1. /\ UNCHANGED <<entry, sidecar, daemon, thread, waking, maturing, commands, pids>>
        /\ service.leftover \in Copy
        /\ service' \in ServiceState /\ service'.leftover = NoCopy
        /\ pidFile' \in Copies /\ lost' \subseteq Copy
    BY <1>1 DEF BootCleansUp, Written, SidecarTypeOK, ServiceState, Copies
  <2>2. /\ copies' \in [Copy -> {"none", "failing", "running", "exited"}]
        /\ copies'[service.leftover] = "none"
        /\ \A c \in Copy \ {service.leftover} : copies'[c] = copies[c]
    BY <1>1, <2>1 DEF BootCleansUp, SidecarTypeOK
  <2>3. SidecarTypeOK'
    BY <2>1, <2>2 DEF SidecarTypeOK, ServiceState
  <2>4. OnRecordIsCurrent'
    <3> SUFFICES ASSUME NEW c \in Copy, OnRecordOnly(c)' PROVE FALSE
      BY DEF OnRecordIsCurrent
    <3>1. c # service.leftover /\ copies[c] = "running"
      BY <2>2 DEF OnRecordOnly
    <3>2. c \notin lost /\ c # pidFile
      BY <1>1, <3>1 DEF OnRecordOnly, BootCleansUp
    <3>3. OnRecordOnly(c)
      BY <2>1, <3>1, <3>2 DEF OnRecordOnly
    <3> QED
      BY <3>2, <3>3 DEF OnRecordIsCurrent
  <2>5. WakingFollowsEnd' /\ LeftoverIsOld' /\ WaitingIsForCopy' /\ KindsAreApart'
    BY <2>1, <2>2 DEF WakingFollowsEnd, LeftoverIsOld, WaitingIsForCopy, KindsAreApart,
                      IsCurrentRun
  <2>6. NeverStranded'
    <3>1. sidecar.run # service.leftover /\ sidecar.run \in Copies
      BY <2>1 DEF LeftoverIsOld, SidecarTypeOK
    <3> QED
      BY <2>1, <2>2, <3>1 DEF NeverStranded, ToRestart, Copies
  <2> QED
    BY <2>3, <2>4, <2>5, <2>6
<1>2. CASE ServerDiesAndBoots
  <2> DEFINE running == {c \in Copy : copies[c] = "running"}
             found == IF pidFile \in running THEN pidFile ELSE NoCopy
  <2>1. /\ sidecar' = NewSidecar /\ sidecar' \in SidecarState /\ waking' = FALSE /\ maturing' = {}
        /\ entry' = entry /\ pids' = NoCopy /\ pidFile' = found /\ found \in Copies
    BY <1>2 DEF ServerDiesAndBoots, NewSidecar, SidecarState, Copies
  <2>2. /\ copies' \in [Copy -> {"none", "failing", "running", "exited"}]
        /\ \A c \in Copy : copies'[c] = IF copies[c] = "running" THEN "running" ELSE "none"
        /\ thread' = [c \in Copy |-> "none"] /\ daemon' \in {"none", "left", "ours"}
    BY <1>2 DEF ServerDiesAndBoots
  <2>3. /\ NoCommand \in CommandState /\ commands' = [k \in Command |-> NoCommand]
        /\ NoCommand.copy = NoCopy
    BY <1>2 DEF ServerDiesAndBoots, NoCommand, CommandState, Copies
  <2>4. service' \in ServiceState /\ service'.leftover = found
    BY <1>2, <2>1 DEF ServerDiesAndBoots, NewService, ServiceState
  <2>5. lost' = (lost \cup Stopping \cup {service.leftover}) \cap (running \ {found})
    BY <1>2 DEF ServerDiesAndBoots
  <2>6. lost' \subseteq Copy
    BY <2>5
  <2>7. SidecarTypeOK'
    BY <2>1, <2>2, <2>3, <2>4, <2>6 DEF SidecarTypeOK, SidecarState, CommandState, ServiceState,
                                         Copies
  <2>8. OnRecordIsCurrent'
    <3> SUFFICES ASSUME NEW c \in Copy, OnRecordOnly(c)' PROVE FALSE
      BY DEF OnRecordIsCurrent
    <3>1. c \in running /\ c # found /\ c \notin lost'
      BY <2>2, <2>4 DEF OnRecordOnly
    <3>2. c \notin lost /\ c \notin Stopping /\ c # service.leftover
      BY <2>5, <3>1
    <3>3. \A k \in Command : commands[k].copy # c
      BY <3>2 DEF Stopping
    <3>4. OnRecordOnly(c)
      BY <3>1, <3>2, <3>3 DEF OnRecordOnly
    <3>5. pidFile = c
      BY <3>4 DEF OnRecordIsCurrent
    <3> QED
      BY <3>1, <3>5
  <2>9. WakingFollowsEnd' /\ NeverStranded' /\ LeftoverIsOld'
    BY <2>1 DEF WakingFollowsEnd, NeverStranded, ToRestart, LeftoverIsOld, NewSidecar
  <2>10. WaitingIsForCopy' /\ KindsAreApart'
    <3>1. entry'.type = "forking" => \A c \in Copy : copies'[c] = "none"
      BY <2>1, <2>2 DEF KindsAreApart
    <3> QED
      BY <2>2, <2>3, <3>1 DEF WaitingIsForCopy, KindsAreApart
  <2> QED
    BY <2>7, <2>8, <2>9, <2>10
<1>3. ASSUME UNCHANGED <<entry, copies, thread, waking, commands, service, pids, pidFile, lost>>,
             sidecar' \in SidecarState, sidecar'.wanted = sidecar.wanted,
             sidecar'.run = sidecar.run, sidecar'.child = sidecar.child,
             sidecar'.pid = sidecar.pid, sidecar'.cleanExit = sidecar.cleanExit,
             sidecar'.status = sidecar.status, daemon' \in {"none", "left", "ours"},
             maturing' \subseteq Copy
      PROVE  SidecarInv'
  <2>1. SidecarTypeOK'
    BY <1>3 DEF SidecarTypeOK, SidecarState
  <2>2. OnRecordIsCurrent' /\ WakingFollowsEnd'
    BY <1>3 DEF OnRecordIsCurrent, OnRecordOnly, WakingFollowsEnd, IsCurrentRun
  <2>3. LeftoverIsOld' /\ WaitingIsForCopy' /\ KindsAreApart' /\ NeverStranded'
    BY <1>3 DEF LeftoverIsOld, WaitingIsForCopy, KindsAreApart, NeverStranded, ToRestart
  <2> QED
    BY <2>1, <2>2, <2>3
<1>4. CASE DaemonDies
  BY <1>3, <1>4 DEF DaemonDies, SidecarTypeOK, SidecarState
<1>5. ASSUME NEW c \in Copy, RecoveryElapses(c) PROVE SidecarInv'
  <2>1. sidecar \in SidecarState
    BY DEF SidecarTypeOK, SidecarState
  <2>2. sidecar' \in {sidecar, Forgiven(sidecar)}
    BY <1>5, Zenon DEF RecoveryElapses, Forgiven
  <2>3. /\ sidecar' \in SidecarState /\ sidecar'.wanted = sidecar.wanted
        /\ sidecar'.run = sidecar.run /\ sidecar'.child = sidecar.child
        /\ sidecar'.pid = sidecar.pid /\ sidecar'.cleanExit = sidecar.cleanExit
        /\ sidecar'.status = sidecar.status
    BY <2>1, <2>2, ForgivenIsSidecar
  <2>4. maturing' \subseteq Copy /\ daemon' \in {"none", "left", "ours"}
    BY <1>5 DEF RecoveryElapses, SidecarTypeOK
  <2> QED
    BY <1>3, <1>5, <2>3, <2>4 DEF RecoveryElapses
<1> QED
  BY <1>1, <1>2, <1>4, <1>5

\* Every action keeps it, whatever requests overtake one another.
LEMMA StepSidecarInv == SidecarInv /\ [SidecarNext]_sidecarVars => SidecarInv'
<1> SUFFICES ASSUME SidecarInv, [SidecarNext]_sidecarVars PROVE SidecarInv'
  OBVIOUS
<1>1. CASE UNCHANGED sidecarVars
  <2> USE <1>1 DEF sidecarVars, records, SidecarInv
  <2>1. SidecarTypeOK'
    BY DEF SidecarTypeOK
  <2>2. OnRecordIsCurrent' /\ WakingFollowsEnd'
    BY DEF OnRecordIsCurrent, OnRecordOnly, WakingFollowsEnd, IsCurrentRun
  <2>3. LeftoverIsOld' /\ WaitingIsForCopy' /\ KindsAreApart' /\ NeverStranded'
    BY DEF LeftoverIsOld, WaitingIsForCopy, KindsAreApart, NeverStranded, ToRestart
  <2> QED
    BY <2>1, <2>2, <2>3
<1>2. ASSUME NEW k \in Command, StopKills(k) PROVE SidecarInv'
  <2>1. commands[k].copy \in Copy /\ ProcessExits(commands[k].copy)
    BY <1>2 DEF StopKills, SidecarInv, SidecarTypeOK, Copies
  <2> QED
    BY <2>1, CopyKeeps
<1>3. ASSUME NEW k \in Command,
             StopEnds(k) \/ \E kind \in {"stop", "restart", "shutdown"} : StopRequested(k, kind)
      PROVE  SidecarInv'
  BY <1>3, StopKeeps, StopEndKeeps
<1> QED
  BY <1>1, <1>2, <1>3, CopyKeeps, CommandKeeps, StartingKeeps, ServiceKeeps DEF SidecarNext

\* Nothing is wanted, runs or is on record at first.
LEMMA InitSidecarInv == SidecarInit => SidecarInv
<1> SUFFICES ASSUME SidecarInit PROVE SidecarInv
  OBVIOUS
<1> USE SidecarAssumption DEF SidecarInit, NewSidecar, NewService, NoCommand
<1>1. /\ sidecar \in SidecarState /\ service \in ServiceState
      /\ commands \in [Command -> CommandState]
  BY DEF SidecarState, ServiceState, CommandState, Copies
<1>2. SidecarTypeOK
  BY <1>1 DEF SidecarTypeOK, SidecarState, ServiceState, CommandState, Copies
<1>3. OnRecordIsCurrent /\ WakingFollowsEnd /\ LeftoverIsOld
  BY DEF OnRecordIsCurrent, OnRecordOnly, WakingFollowsEnd, LeftoverIsOld
<1>4. WaitingIsForCopy /\ KindsAreApart /\ NeverStranded
  BY DEF WaitingIsForCopy, KindsAreApart, NeverStranded, ToRestart
<1> QED
  BY <1>2, <1>3, <1>4 DEF SidecarInv

\* The strengthened invariant of a sidecar holds throughout, whatever requests, the boot's
\* cleanup, failed writes of the record and deaths of the server come between.
THEOREM SidecarInvariant == SidecarSpec => []SidecarInv
<1> QED
  BY InitSidecarInv, StepSidecarInv, PTL DEF SidecarSpec

\* Every variable of a sidecar keeps its type.
THEOREM SidecarTypes == SidecarSpec => []SidecarTypeOK
<1>1. SidecarInv => SidecarTypeOK
  BY DEF SidecarInv
<1> QED
  BY <1>1, SidecarInvariant, PTL

\* A copy that runs is on record for the next boot to stop, is being stopped, or was lost
\* in one of the ways RunningIsAccounted names: no other order of launches, exits, stops,
\* restarts and deaths of the server leaves one running that nothing knows of.
THEOREM RunningCopiesAreAccounted == SidecarSpec => []RunningIsAccounted
<1>1. SidecarInv => RunningIsAccounted
  <2> SUFFICES ASSUME SidecarInv, NEW c \in Copy, copies[c] = "running",
                      c \notin lost, c # service.leftover, c \notin Stopping
               PROVE  pidFile = c
    BY DEF RunningIsAccounted, RunningCopies
  <2>1. \A k \in Command : commands[k].copy # c
    BY SidecarAssumption DEF Stopping
  <2> QED
    BY <2>1 DEF SidecarInv, OnRecordIsCurrent, OnRecordOnly
<1> QED
  BY <1>1, SidecarInvariant, PTL

\* A sidecar that is to be restarted always has what will bring it back, whatever requests
\* overtake one another.
THEOREM WantedIsNeverStranded == SidecarSpec => []NeverStranded
<1>1. SidecarInv => NeverStranded
  BY DEF SidecarInv
<1> QED
  BY <1>1, SidecarInvariant, PTL

=============================================================================
