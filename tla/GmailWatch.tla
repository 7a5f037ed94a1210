----------------------------- MODULE GmailWatch -----------------------------
(***************************************************************************)
(* The Gmail watch of one account (lib/server/gmail-watch-lifecycle.js):   *)
(* the lane that runs one operation at a time and keeps the latest intent  *)
(* (gmail-account-operations.js), the local `gog ... serve` child          *)
(* (gmail-serve.js), the watch that Google holds, external, and the        *)
(* durable record of both (google-state.js).                               *)
(*                                                                         *)
(* An operation is current until a newer one was accepted or the service   *)
(* stops; it looks at that after every await.  What it does between two    *)
(* awaits is one step.  A gog command may fail after it took effect.       *)
(***************************************************************************)
EXTENDS Naturals

VARIABLES
  account,    \* the account is in the state file
  watch,      \* its gmailWatch there: the intent, the last remote operation, the recorded pid
  remote,     \* Google holds a watch
  serve,      \* the child of this process: none, running, or told to stop
  orphan,     \* a child of an earlier process still runs: on record, or not
  lane,       \* the running operation, where it is, its snapshot at acceptance; the pending one
  restartDue, \* the timer of an automatic serve restart
  gmailService, \* up, restoring (just booted) or stopping
  intent,     \* history: what was last asked for
  unserved    \* history: nothing will serve the watch, for what was to do so has failed

gmailVars == <<account, watch, remote, serve, orphan, lane, restartDue, gmailService, intent,
               unserved>>

Kind == {"start", "renew", "stop", "disconnect"}
\* main: of the operation itself.  undo: of a start that failed.  clean: of one that
\* was superseded.  reap: of one that the service's stop cut short.
Phase == {"gogStart", "reap", "gogStop", "revoke"}
Purpose == {"main", "undo", "clean", "reap"}
PidRecord == {"none", "child", "orphan"}
NoOperation == "none"

Watch == [enabled : BOOLEAN, kind : {"none", "start", "stop", "disconnect"},
          status : {"none", "pending", "succeeded", "failed"}, pid : PidRecord]
Snapshot == [enabled : BOOLEAN, pid : PidRecord]

GmailTypeOK ==
  /\ account \in BOOLEAN /\ remote \in BOOLEAN /\ restartDue \in BOOLEAN
  /\ orphan \in {"none", "known", "unknown"}
  /\ watch \in Watch
  /\ serve \in {"none", "running", "stopping"}
  /\ lane \in [active : Kind \cup {NoOperation}, phase : Phase, purpose : Purpose,
               was : Snapshot, pending : Kind \cup {NoOperation}, pendingWas : Snapshot]
  /\ gmailService \in {"up", "restoring", "stopping"}
  /\ intent \in {"on", "off"} /\ unserved \in BOOLEAN

NoWatch == [enabled |-> FALSE, kind |-> "none", status |-> "none", pid |-> "none"]
Blank == [enabled |-> FALSE, pid |-> "none"]
IdleLane == [active |-> NoOperation, phase |-> "gogStart", purpose |-> "main", was |-> Blank,
             pending |-> NoOperation, pendingWas |-> Blank]

GmailInit ==
  /\ account = TRUE /\ watch = NoWatch /\ remote = FALSE
  /\ serve = "none" /\ orphan = "none"
  /\ lane = IdleLane /\ restartDue = FALSE
  /\ gmailService = "up" /\ intent = "off" /\ unserved = FALSE

----------------------------------------------------------------------------
(* The record, the lane. *)

\* normalizeGmailWatch(): a disabled watch keeps the pid only while its stop or
\* its disconnect has not succeeded.
Normalized(w) ==
  IF w.enabled \/ (w.status \in {"pending", "failed"} /\ w.kind \in {"stop", "disconnect"})
  THEN w ELSE [w EXCEPT !.pid = "none"]

\* saveWatch(): an account that was removed has no record to write.
Save(w) == watch' = IF account THEN Normalized(w) ELSE watch

OperationIsCurrent == lane.pending = NoOperation /\ gmailService # "stopping"
Disconnecting == "disconnect" \in {lane.active, lane.pending}
Idle == lane.active = NoOperation

\* assertPriorChildStopped() would throw.
PriorChildAlive == serve = "stopping" \/ (serve = "none" /\ watch.pid = "orphan" /\ orphan = "known")

\* stopExternal() begins, for operation l: it refuses while a process it cannot
\* wait for is on record, else the child is told to stop.
Unwaitable(l) == serve = "none" /\ l.was.pid = "orphan" /\ orphan = "known"
BeginStop(l, purpose) ==
  /\ lane' = [l EXCEPT !.purpose = purpose, !.phase = IF serve = "none" THEN "gogStop" ELSE "reap"]
  /\ serve' = IF serve = "none" THEN "none" ELSE "stopping"

\* markStopped(), with the record w of now.
Stopped(w, kind, status, unconfirmed) ==
  [enabled |-> FALSE, kind |-> kind, status |-> status,
   pid |-> IF serve # "none" THEN "child" ELSE IF unconfirmed THEN w.pid ELSE "none"]

\* run() of operation l up to its first await, with the record w.
Activate(l, w) ==
  IF l.active \in {"start", "renew"}
  THEN lane' = [l EXCEPT !.phase = "gogStart", !.purpose = "main"] /\ Save(w) /\ UNCHANGED serve
  ELSE IF Unwaitable(l)
  THEN lane' = IdleLane /\ Save(Stopped(w, l.active, "failed", TRUE)) /\ UNCHANGED serve
  ELSE BeginStop(l, "main") /\ Save(w)

\* The operation is over, the record is w: the pending one has the lane.
Finish(w) ==
  IF lane.pending = NoOperation \/ gmailService = "stopping"
  THEN lane' = IdleLane /\ watch' = w /\ UNCHANGED serve
  ELSE Activate([lane EXCEPT !.active = lane.pending, !.was = lane.pendingWas,
                             !.pending = NoOperation, !.pendingWas = Blank], w)

\* request() accepts operation kind, prepared with snapshot was; w is the record
\* its prepare() leaves.
Accept(kind, was, w) ==
  IF Idle
  THEN Activate([IdleLane EXCEPT !.active = kind, !.was = was], w)
  ELSE lane' = [lane EXCEPT !.pending = kind, !.pendingWas = was] /\ Save(w) /\ UNCHANGED serve

Taken == [enabled |-> watch.enabled, pid |-> watch.pid]
Deduped(kind) ==
  \/ lane.pending = kind
  \/ lane.pending = NoOperation /\ lane.active = kind

----------------------------------------------------------------------------
(* The requests.  Nothing is accepted while stopping or disconnecting. *)

Open == gmailService # "stopping" /\ ~Disconnecting

\* startWatch().  Another destination is another key.
StartWatch ==
  /\ Open /\ account /\ ~PriorChildAlive
  /\ Accept("start", Taken, [watch EXCEPT !.kind = "start", !.status = "pending"])
  /\ restartDue' = FALSE /\ intent' = "on"
  /\ UNCHANGED <<account, remote, orphan, gmailService, unserved>>

\* renewWatch(), conditional: of an enabled watch whose lane is idle.
RenewWatch ==
  /\ Open /\ account /\ watch.enabled /\ Idle /\ ~PriorChildAlive
  /\ Accept("renew", Taken, [watch EXCEPT !.kind = "start", !.status = "pending"])
  /\ restartDue' = FALSE
  /\ UNCHANGED <<account, remote, orphan, gmailService, intent, unserved>>

\* prepare() of a start or a renewal throws (no port, no permission, no topic, no hook, a
\* failed write) when it has cancelled the restart already.
StartRefused ==
  /\ Open /\ account /\ ~PriorChildAlive /\ restartDue
  /\ restartDue' = FALSE /\ unserved' = (serve # "running")
  /\ UNCHANGED <<account, watch, remote, serve, orphan, lane, gmailService, intent>>

\* requestStop(): the intent is durable before anything is stopped.
StopWatch(kind) ==
  /\ Open /\ account /\ ~Deduped(kind)
  /\ Accept(kind, Taken, [watch EXCEPT !.enabled = FALSE, !.kind = kind, !.status = "pending"])
  /\ restartDue' = FALSE /\ intent' = "off"
  /\ UNCHANGED <<account, remote, orphan, gmailService, unserved>>

\* restoreServe() yields to an operation that is under way.
RestoreYields == ~(Open /\ Idle) /\ UNCHANGED <<serve, watch, unserved>>

\* It serves an enabled watch, and is done at once.
RestoreServes ==
  /\ Open /\ Idle /\ account /\ watch.enabled /\ ~PriorChildAlive
  /\ serve' = "running" /\ Save([watch EXCEPT !.pid = "child"])
  /\ unserved' = FALSE

\* It does nothing without an enabled watch, or a WEBHOOK_TOKEN; the earlier child is still
\* there, there is no port, or startServe() throws.  Nothing tries again.
RestoreFails ==
  /\ Open /\ Idle
  /\ unserved' = (serve # "running") /\ UNCHANGED serve

RestartFires ==
  /\ restartDue /\ restartDue' = FALSE
  /\ RestoreYields \/ RestoreServes \/ (RestoreFails /\ UNCHANGED watch)
  /\ UNCHANGED <<account, remote, orphan, lane, gmailService, intent>>

\* At boot a watch is shown as off when its earlier child is still there.
BootRestores ==
  /\ gmailService = "restoring" /\ gmailService' = "up"
  /\ \/ RestoreYields \/ RestoreServes
     \/ RestoreFails /\ UNCHANGED watch
     \/ /\ RestoreFails /\ account /\ watch.enabled /\ PriorChildAlive
        /\ Save(Stopped(watch, "stop", "failed", TRUE))
  /\ UNCHANGED <<account, remote, orphan, lane, restartDue, intent>>

----------------------------------------------------------------------------
(* What an operation does after each await. *)

\* A start that was superseded is cleaned up before the next has the lane; a
\* service that stops only reaps the child, and keeps the intent.
CleanUp ==
  LET stopping == gmailService = "stopping"
  IN IF (stopping /\ serve = "none") \/ (~stopping /\ Unwaitable(lane)) THEN Finish(watch)
     ELSE BeginStop(lane, IF stopping THEN "reap" ELSE "clean") /\ UNCHANGED watch

StartFailed == [watch EXCEPT !.kind = "start", !.status = "failed"]

\* A failed first start is undone; a failed renewal leaves the watch, served or not.
FailStart ==
  IF lane.was.enabled
  THEN /\ Save(StartFailed) /\ lane' = IdleLane /\ UNCHANGED serve
       /\ unserved' = (serve # "running" /\ ~restartDue)
  ELSE /\ IF Unwaitable(lane)
          THEN lane' = IdleLane /\ Save(Stopped(watch, "stop", "failed", TRUE)) /\ UNCHANGED serve
          ELSE BeginStop(lane, "undo") /\ UNCHANGED watch
       /\ UNCHANGED unserved

\* Mutant: a renewal leaves the child to its restart timer.
ServeLeftByRenewal == IF lane.active = "renew" THEN serve ELSE "running"

\* startServe(): the child that runs is kept.
ServeStarted == "running"

\* `gog gmail watch start` returns: the watch may exist whatever it says.  The
\* child is started, or is kept, and the whole is committed.
StartReturns ==
  /\ ~Idle /\ lane.phase = "gogStart"
  /\ \E ok, took \in BOOLEAN :
       /\ ok => took
       /\ remote' = (remote \/ took)
       /\ IF ~OperationIsCurrent THEN CleanUp /\ UNCHANGED unserved
          ELSE \/ /\ ok /\ serve # "stopping"
                  /\ lane.active = "renew" => watch.enabled
                  /\ serve' = ServeStarted /\ lane' = IdleLane /\ unserved' = FALSE
                  /\ Save([enabled |-> TRUE, kind |-> "start", status |-> "succeeded", pid |-> "child"])
               \/ FailStart
  /\ UNCHANGED <<account, orphan, restartDue, gmailService, intent>>

\* stopExternal() ended, well or not.
StopExternalEnds(ok, unconfirmed) ==
  CASE lane.purpose \in {"clean", "reap"} -> Finish(watch)
    [] lane.purpose = "undo" /\ OperationIsCurrent ->
         Finish(IF ok THEN Normalized(StartFailed)
                ELSE Normalized(Stopped(watch, "stop", "failed", unconfirmed)))
    [] lane.purpose = "undo" /\ ~OperationIsCurrent -> CleanUp
    [] lane.purpose = "main" /\ ~OperationIsCurrent -> Finish(watch)
    [] lane.purpose = "main" /\ OperationIsCurrent /\ ~ok ->
         Finish(Normalized(Stopped(watch, lane.active, "failed", unconfirmed)))
    [] lane.purpose = "main" /\ OperationIsCurrent /\ ok /\ lane.active = "disconnect" ->
         lane' = [lane EXCEPT !.phase = "revoke"] /\ UNCHANGED <<serve, watch>>
    [] OTHER -> Finish(Normalized(Stopped(watch, lane.active, "succeeded", FALSE)))

\* stopServe(): the child is gone, or survives SIGKILL as far as can be seen.
ReapReturns ==
  /\ ~Idle /\ lane.phase = "reap"
  /\ IF serve = "none" /\ lane.purpose # "reap"
     THEN lane' = [lane EXCEPT !.phase = "gogStop"] /\ UNCHANGED <<serve, watch>>
     ELSE StopExternalEnds(FALSE, TRUE)
  /\ UNCHANGED <<account, remote, orphan, restartDue, gmailService, intent, unserved>>

\* `gog gmail watch stop` returns; it too may have taken effect when it failed.
GogStopReturns ==
  /\ ~Idle /\ lane.phase = "gogStop"
  /\ \E ok, took \in BOOLEAN :
       /\ ok => took
       /\ remote' = (remote /\ ~took)
       /\ StopExternalEnds(ok, FALSE)
  /\ UNCHANGED <<account, orphan, restartDue, gmailService, intent, unserved>>

\* The disconnect itself: the account is removed, or it failed.
RevokeReturns ==
  /\ ~Idle /\ lane.phase = "revoke"
  /\ \/ account' = FALSE /\ Finish(NoWatch)
     \/ /\ account' = account
        /\ Finish(IF OperationIsCurrent
               THEN Normalized(Stopped(watch, "disconnect", "failed", FALSE)) ELSE watch)
  /\ UNCHANGED <<remote, orphan, restartDue, gmailService, intent, unserved>>

----------------------------------------------------------------------------
(* The child, and the life of the server. *)

\* onServeExit(): an exit nobody asked for is followed by a restart.
ServeExits ==
  /\ serve # "none" /\ serve' = "none"
  /\ Save(IF watch.pid = "child" THEN [watch EXCEPT !.pid = "none"] ELSE watch)
  /\ restartDue' = (restartDue \/ (serve = "running" /\ gmailService # "stopping" /\ ~Disconnecting))
  /\ UNCHANGED <<account, remote, orphan, lane, gmailService, intent, unserved>>

OrphanExits ==
  /\ orphan # "none" /\ orphan' = "none"
  /\ UNCHANGED <<account, watch, remote, serve, lane, restartDue, gmailService, intent, unserved>>

\* stop(): what runs is no longer current, and the child goes when the lane is idle.
StopService ==
  /\ gmailService' = "stopping"
  /\ lane' = [lane EXCEPT !.pending = NoOperation, !.pendingWas = Blank]
  /\ restartDue' = FALSE
  /\ serve' = IF Idle /\ serve = "running" THEN "stopping" ELSE serve
  /\ UNCHANGED <<account, watch, remote, orphan, intent, unserved>>

\* Mutant: an operation that the restart cut short is forgotten.
InterruptedForgotten(w) == IF w.status = "pending" THEN [w EXCEPT !.status = "none"] ELSE w

Interrupted(w) == IF w.status = "pending" THEN [w EXCEPT !.status = "failed"] ELSE w

\* The process ends, and what it left running may go on: a command, a child.  The
\* next one repairs the record before it restores anything.
GmailServerRestarts ==
  /\ remote' \in {remote} \cup (IF ~Idle /\ lane.phase = "gogStart" THEN {TRUE} ELSE {})
                         \cup (IF ~Idle /\ lane.phase = "gogStop" THEN {FALSE} ELSE {})
  /\ orphan' \in {"none"} \cup (IF serve = "none" THEN {orphan}
                               ELSE {IF watch.pid = "child" THEN "known" ELSE "unknown"})
  /\ LET pid == IF orphan' = "known" THEN "orphan" ELSE "none"
         w == [watch EXCEPT !.pid = pid]
     IN watch' = Normalized(
          IF w.enabled /\ pid = "orphan"
          THEN [w EXCEPT !.enabled = FALSE, !.kind = "stop", !.status = "failed"]
          ELSE Interrupted(w))
  /\ serve' = "none" /\ lane' = IdleLane /\ restartDue' = FALSE
  /\ gmailService' = "restoring" /\ unserved' = FALSE
  /\ UNCHANGED <<account, intent>>

GmailNext ==
  \/ StartWatch \/ RenewWatch \/ StartRefused \/ (\E kind \in {"stop", "disconnect"} : StopWatch(kind))
  \/ RestartFires \/ BootRestores
  \/ StartReturns \/ ReapReturns \/ GogStopReturns \/ RevokeReturns
  \/ ServeExits \/ OrphanExits \/ StopService \/ GmailServerRestarts

GmailSpec == GmailInit /\ [][GmailNext]_gmailVars

----------------------------------------------------------------------------
(* Properties. *)

\* A watch that Google may still hold is never shown as off: when nothing is under
\* way, either it is not there or the record says that an operation failed.
RemoteIsNotForgotten ==
  Idle /\ gmailService = "up" /\ account /\ ~watch.enabled /\ remote => watch.status = "failed"

\* The last request wins: an operation that was overtaken by another one, a stop of
\* the service or a restart never turns a watch on against it, and when the record
\* settles on success it shows what was last asked for.  A watch that is on is served, or
\* about to be, unless what was last to serve it has failed: a start or a renewal that was
\* refused or failed, or a restore.
LatestIntentWins ==
  /\ watch.enabled => intent = "on"
  /\ Idle /\ gmailService = "up" =>
       /\ watch.status = "succeeded" => (watch.enabled <=> intent = "on")
       /\ watch.enabled => serve = "running" \/ restartDue \/ unserved
=============================================================================
