------------------------- MODULE SidecarSupervisor -------------------------
(***************************************************************************)
(* One supervised sidecar (lib/server/sidecars/supervisor.js), the service *)
(* that starts and stops it and records its pid (sidecars/index.js), and   *)
(* the commands of the API (routes/sidecars.js).                           *)
(*                                                                         *)
(* A launch takes a run number (runSeq), which every launch and stop bumps *)
(* and every callback compares; `run` names the launch it belongs to.  A   *)
(* simple sidecar is a process of its own, a forking one a daemon that its *)
(* commands start, check and stop.  Processes outlive the server.          *)
(*                                                                         *)
(* Nothing serializes the requests: one may come while another, a launch   *)
(* or the boot's cleanup waits.                                            *)
(***************************************************************************)
EXTENDS Integers, FiniteSets

CONSTANTS
  Copy,   \* launches, and the processes they start
  NoCopy,
  Command, \* stop, restart and shutdown requests that may be under way
  CrashLoopThreshold, \* kCrashLoopThreshold
  RecordsFail \* whether a write of the pid file may fail, or the server die just before it

ASSUME SidecarAssumption ==
  NoCopy \notin Copy /\ CrashLoopThreshold \in Nat \ {0} /\ RecordsFail \in BOOLEAN

VARIABLES
  entry,    \* of the registry: type and restart policy
  sidecar,  \* the supervisor's state
  copies,   \* each process: failing has no pid and its error is still to come
  daemon,   \* a forking sidecar's daemon: started or adopted by this process (ours), or left
  thread,   \* where each launch of a forking sidecar is in its asynchronous work
  waking,   \* the backoff timer is armed
  maturing, \* launches whose recovery timer is armed
  commands, \* where each stop, restart or shutdown is
  service,  \* of the process: the leftover its boot stops, autostarted, halting
  pids,     \* the copy it holds on record
  pidFile,  \* sidecars-state.json: the copy it names
  lost      \* history: copies whose record failed, or was dropped while they ran

records == <<pids, pidFile>>
sidecarVars == <<entry, sidecar, copies, daemon, thread, waking, maturing, commands,
                 service, records, lost>>

Copies == Copy \cup {NoCopy}

SidecarTypeOK ==
  /\ entry \in [type : {"simple", "forking"}, policy : {"always", "on-failure", "never"}]
  /\ sidecar \in [wanted : BOOLEAN, child : Copies, pid : Copies, run : Copies,
                  status : {"idle", "starting", "running", "backoff", "exited", "failed",
                            "stopping", "stopped"},
                  exits : 0..CrashLoopThreshold, crashLoop : BOOLEAN, cleanExit : BOOLEAN]
  /\ copies \in [Copy -> {"none", "failing", "running", "exited"}]
  /\ daemon \in {"none", "left", "ours"}
  /\ thread \in [Copy -> {"none", "precheck", "command", "armed", "checking", "stopping"}]
  /\ waking \in BOOLEAN /\ maturing \subseteq Copy
  /\ commands \in [Command -> [kind : {"none", "stop", "restart", "shutdown"},
                               step : {"idle", "waiting", "restarting"}, copy : Copies]]
  /\ service \in [leftover : Copies, autostarted : BOOLEAN, halting : BOOLEAN]
  /\ pids \in Copies /\ pidFile \in Copies /\ lost \subseteq Copy

NewSidecar == [wanted |-> FALSE, child |-> NoCopy, pid |-> NoCopy, run |-> NoCopy,
               status |-> "idle", exits |-> 0, crashLoop |-> FALSE, cleanExit |-> FALSE]
NoCommand == [kind |-> "none", step |-> "idle", copy |-> NoCopy]
NewService(c) == [leftover |-> c, autostarted |-> FALSE, halting |-> FALSE]

SidecarInit ==
  /\ entry \in [type : {"simple", "forking"}, policy : {"always", "on-failure", "never"}]
  /\ sidecar = NewSidecar
  /\ copies = [c \in Copy |-> "none"] /\ daemon = "none"
  /\ thread = [c \in Copy |-> "none"]
  /\ waking = FALSE /\ maturing = {}
  /\ commands = [k \in Command |-> NoCommand]
  /\ service = NewService(NoCopy)
  /\ pids = NoCopy /\ pidFile = NoCopy /\ lost = {}

\* No run of it is remembered anywhere.
UnusedCopy(c) ==
  /\ copies[c] = "none" /\ thread[c] = "none" /\ c \notin maturing
  /\ c \notin {sidecar.run, sidecar.child, sidecar.pid, pids, pidFile, service.leftover}
  /\ \A k \in Command : commands[k].copy # c

\* What stops are under way for.
Stopping == {commands[k].copy : k \in Command} \ {NoCopy}

\* persistPids(): a failed write is only reported.
Written(c) == {c} \cup (IF RecordsFail THEN {pidFile} ELSE {})

\* The record is removed, if the process holds one.
Unrecord ==
  IF pids = NoCopy THEN UNCHANGED records ELSE pids' = NoCopy /\ pidFile' \in Written(NoCopy)

----------------------------------------------------------------------------
(* A run ends.  s is the supervisor's state and w whether the backoff timer is *)
(* armed, as the caller leaves them.                                           *)

\* success is exit code 0, quick that of a simple sidecar within kQuickExitMs,
\* which counts as a crash.
StaysDown(s, success, quick) ==
  \/ ~s.wanted \/ entry.policy = "never"
  \/ entry.policy = "on-failure" /\ success /\ ~quick

\* Mutant: an exit while a crash loop is on is the last one.
RearmsOutOfLoop(s) == ~s.crashLoop

\* An exit that does not stay is followed by a launch, after the backoff.
Rearms(s) == TRUE

\* recordExitAndScheduleRestart().  The window forgets older exits.
RecordExit(s, w, success, quick) ==
  /\ Unrecord
  /\ LET ended == [s EXCEPT !.child = NoCopy, !.pid = NoCopy, !.cleanExit = success /\ ~quick]
     IN IF StaysDown(s, success, quick)
        THEN /\ sidecar' = [ended EXCEPT
                  !.status = IF ~s.wanted THEN "stopped" ELSE IF success THEN "exited" ELSE "failed"]
             /\ waking' = w
        ELSE /\ \E n \in 1..CrashLoopThreshold :
                  /\ n <= s.exits + 1
                  /\ sidecar' = [ended EXCEPT !.status = "backoff", !.exits = n,
                                              !.crashLoop = @ \/ n = CrashLoopThreshold]
             /\ waking' = Rearms(s)

----------------------------------------------------------------------------
(* launch(), of a supervisor that wants it. *)

\* The process runs, and its pid is recorded.
Spawn(s, c) ==
  /\ sidecar' = [s EXCEPT !.run = c, !.child = c, !.pid = c, !.status = "running"]
  /\ copies' = [copies EXCEPT ![c] = "running"]
  /\ pids' = c /\ pidFile' \in Written(c)
  /\ lost' = IF pidFile' = c THEN lost \ {c} ELSE lost \cup {c}
  /\ maturing' = maturing \cup {c}
  /\ UNCHANGED thread

\* spawn() returns a child without a pid, whose error event is still to come.
SpawnWithoutPid(s, c) ==
  /\ sidecar' = [s EXCEPT !.run = c, !.child = c, !.status = "starting"]
  /\ copies' = [copies EXCEPT ![c] = "failing"]
  /\ UNCHANGED <<thread, records, lost, maturing>>

\* A forking sidecar is checked first: it may run already.
StartPrecheck(s, c) ==
  /\ sidecar' = [s EXCEPT !.run = c, !.status = "starting"]
  /\ thread' = [thread EXCEPT ![c] = "precheck"]
  /\ UNCHANGED <<copies, records, lost, maturing>>

\* prepare() refuses, or spawn() throws.
LaunchRefused(s, w, c) ==
  /\ RecordExit([s EXCEPT !.run = c], w, FALSE, FALSE)
  /\ UNCHANGED <<copies, thread, lost, maturing>>

Launch(s, w) ==
  \E c \in Copy :
    /\ UnusedCopy(c)
    /\ \/ entry.type = "simple" /\ (Spawn(s, c) \/ SpawnWithoutPid(s, c)) /\ waking' = w
       \/ entry.type = "forking" /\ StartPrecheck(s, c) /\ waking' = w
       \/ LaunchRefused(s, w, c)

\* start(): a sidecar that is wanted is left to its restart policy.
Start(s) ==
  IF s.wanted /\ s.status \notin {"exited", "failed"}
  THEN sidecar' = s /\ UNCHANGED <<waking, copies, thread, records, lost, maturing>>
  ELSE Launch([s EXCEPT !.wanted = TRUE], waking)

\* Mutant: a callback does not care whether its launch is the current one.
AnyRunIsCurrent(c) == TRUE

\* The callbacks of a launch that was stopped, or followed by another, do nothing.
IsCurrentRun(c) == sidecar.run = c

BackoffEnds ==
  /\ waking
  /\ IF sidecar.wanted THEN Launch(sidecar, FALSE)
     ELSE waking' = FALSE /\ UNCHANGED <<sidecar, copies, thread, records, lost, maturing>>
  /\ UNCHANGED <<entry, daemon, commands, service>>

\* armRecovery(): after ten minutes the run is stable.
RecoveryElapses(c) ==
  /\ c \in maturing /\ maturing' = maturing \ {c}
  /\ sidecar' = IF IsCurrentRun(c) /\ sidecar.status = "running"
                THEN [sidecar EXCEPT !.exits = 0, !.crashLoop = FALSE] ELSE sidecar
  /\ UNCHANGED <<entry, copies, daemon, thread, waking, commands, service, records, lost>>

ProcessExits(c) ==
  /\ copies[c] = "running"
  /\ copies' = [copies EXCEPT ![c] = "exited"]
  /\ UNCHANGED <<entry, sidecar, daemon, thread, waking, maturing, commands, service, records, lost>>

\* child.on("exit") and child.on("error").
ExitSeen(c) ==
  /\ copies[c] \in {"failing", "exited"}
  /\ copies' = [copies EXCEPT ![c] = "none"]
  /\ IF IsCurrentRun(c)
     THEN \E success, quick \in BOOLEAN :
            /\ quick => success
            /\ success => copies[c] = "exited"
            /\ RecordExit(sidecar, waking, success, quick)
     ELSE UNCHANGED <<sidecar, waking, records>>
  /\ lost' = lost \ {c}
  /\ UNCHANGED <<entry, daemon, thread, maturing, commands, service>>

----------------------------------------------------------------------------
(* The commands of a forking sidecar.  Its check tells the truth when it ends. *)

ThreadMoves(c, t) == thread' = [thread EXCEPT ![c] = t]
Wanted(c) == IsCurrentRun(c) /\ sidecar.wanted

DaemonRuns(c) ==
  /\ sidecar' = [sidecar EXCEPT !.status = "running"]
  /\ maturing' = maturing \cup {c} /\ ThreadMoves(c, "armed")

\* A daemon that runs is adopted.
PrecheckEnds(c) ==
  /\ thread[c] = "precheck"
  /\ IF Wanted(c) /\ daemon # "none" THEN DaemonRuns(c) /\ daemon' = "ours"
     ELSE /\ ThreadMoves(c, IF Wanted(c) THEN "command" ELSE "none")
          /\ UNCHANGED <<sidecar, maturing, daemon>>
  /\ UNCHANGED <<entry, copies, waking, commands, service, records, lost>>

\* The command exits, and whether it was stopped meanwhile is looked at only now.
CommandEnds(c) ==
  /\ thread[c] = "command"
  /\ \E started \in BOOLEAN :
       /\ daemon' = IF started THEN "ours" ELSE daemon
       /\ \/ Wanted(c) /\ started /\ DaemonRuns(c) /\ UNCHANGED <<waking, records>>
          \/ /\ Wanted(c) /\ ~started /\ RecordExit(sidecar, waking, FALSE, FALSE)
             /\ ThreadMoves(c, "none") /\ UNCHANGED maturing
          \/ ~Wanted(c) /\ ThreadMoves(c, "none") /\ UNCHANGED <<sidecar, maturing, waking, records>>
  /\ UNCHANGED <<entry, copies, commands, service, lost>>

CheckStarts(c) ==
  /\ thread[c] = "armed" /\ ThreadMoves(c, IF Wanted(c) THEN "checking" ELSE "none")
  /\ UNCHANGED <<entry, sidecar, copies, daemon, waking, maturing, commands, service, records, lost>>

CheckEnds(c) ==
  /\ thread[c] = "checking"
  /\ ThreadMoves(c, IF ~Wanted(c) THEN "none" ELSE IF daemon # "none" THEN "armed" ELSE "stopping")
  /\ UNCHANGED <<entry, sidecar, copies, daemon, waking, maturing, commands, service, records, lost>>

\* A failed check runs the stop command, if there is one, and is an exit.
CheckStops(c) ==
  /\ thread[c] = "stopping" /\ ThreadMoves(c, "none")
  /\ daemon' \in {"none", daemon}
  /\ IF Wanted(c) THEN RecordExit([sidecar EXCEPT !.run = NoCopy], waking, FALSE, FALSE)
     ELSE UNCHANGED <<sidecar, waking, records>>
  /\ UNCHANGED <<entry, copies, maturing, commands, service, lost>>

DaemonDies ==
  /\ daemon # "none" /\ daemon' = "none"
  /\ UNCHANGED <<entry, sidecar, copies, thread, waking, maturing, commands, service, records, lost>>

----------------------------------------------------------------------------
(* start, stop and restart, from the API, and shutdown. *)

StartRequested ==
  /\ Start(sidecar)
  /\ UNCHANGED <<entry, daemon, commands, service>>

\* clearTimers()
TimersCleared ==
  /\ waking' = FALSE /\ maturing' = {}
  /\ thread' = [c \in Copy |-> IF thread[c] = "armed" THEN "none" ELSE thread[c]]

\* A stop ended: a restart goes on.
NextStep(k, kind) ==
  commands' = [commands EXCEPT ![k] =
    IF kind = "restart" THEN [kind |-> kind, step |-> "restarting", copy |-> NoCopy] ELSE NoCommand]

\* There is something to wait for: a process that has a pid, or the stop command.
MayWait ==
  IF entry.type = "simple" THEN sidecar.child # NoCopy /\ sidecar.pid # NoCopy
  ELSE sidecar.wanted /\ sidecar.status \in {"starting", "running"}

\* stop(): SIGTERM, or the stop command (there may be none, or prepare() refuses), is
\* under way.  stopAll() also keeps the gateway's readiness from starting anything.
StopRequested(k, kind) ==
  /\ commands[k].step = "idle" /\ (kind = "shutdown" => ~service.halting)
  /\ TimersCleared
  /\ \E waits \in {MayWait, MayWait /\ entry.type = "simple"} :
       /\ sidecar' = [sidecar EXCEPT !.wanted = FALSE, !.run = NoCopy,
                                     !.status = IF waits THEN "stopping" ELSE "stopped"]
       /\ IF waits
          THEN commands' = [commands EXCEPT ![k] = [kind |-> kind, step |-> "waiting",
                              copy |-> sidecar.pid]]
          ELSE NextStep(k, kind)
  /\ service' = [service EXCEPT !.halting = @ \/ kind = "shutdown"]
  /\ UNCHANGED <<entry, copies, daemon, records, lost>>

\* SIGTERM, and SIGKILL for a process that ignores it.
StopKills(k) ==
  /\ commands[k].step = "waiting" /\ commands[k].copy # NoCopy
  /\ ProcessExits(commands[k].copy)

\* The exit was seen, or not in time; or the stop command has ended, well or not.  A
\* child that another request launched meanwhile is forgotten too.
StopEnds(k) ==
  /\ commands[k].step = "waiting"
  /\ commands[k].copy # NoCopy => copies[commands[k].copy] # "running"
  /\ daemon' \in {"none", daemon}
  /\ sidecar' = [sidecar EXCEPT !.child = NoCopy, !.pid = NoCopy, !.status = "stopped"]
  /\ Unrecord
  /\ lost' = lost \cup ({sidecar.child} \ {commands[k].copy, NoCopy})
  /\ NextStep(k, commands[k].kind)
  /\ UNCHANGED <<entry, copies, thread, waking, maturing, service>>

RestartStarts(k) ==
  /\ commands[k].step = "restarting"
  /\ Start([sidecar EXCEPT !.exits = 0, !.crashLoop = FALSE])
  /\ commands' = [commands EXCEPT ![k] = NoCommand]
  /\ UNCHANGED <<entry, daemon, service>>

----------------------------------------------------------------------------
(* The service: boot, and the death or in-place restart of the server. *)

\* stopLeftovers(): the copy that was on record at boot is stopped.  The file is removed,
\* even when a launch has written it meanwhile.
BootCleansUp ==
  /\ service.leftover # NoCopy
  /\ copies' = [copies EXCEPT ![service.leftover] = "none"]
  /\ pidFile' \in Written(NoCopy)
  /\ lost' = (lost \cup ({pidFile} \ {NoCopy})) \ {service.leftover}
  /\ service' = [service EXCEPT !.leftover = NoCopy]
  /\ UNCHANGED <<entry, sidecar, daemon, thread, waking, maturing, commands, pids>>

\* At boot, or when the gateway is ready or has not become so in time.
AutoStart ==
  /\ service.leftover = NoCopy /\ ~service.autostarted /\ ~service.halting
  /\ Start(sidecar)
  /\ service' = [service EXCEPT !.autostarted = TRUE]
  /\ UNCHANGED <<entry, daemon, commands>>

\* Sidecars are detached, and so is a command under way.  The boot looks for the copy on
\* record, and what else runs is not known to it.
ServerDiesAndBoots ==
  LET running == {c \in Copy : copies[c] = "running"}
      found == IF pidFile \in running THEN pidFile ELSE NoCopy
  IN /\ sidecar' = NewSidecar
     /\ copies' = [c \in Copy |-> IF c \in running THEN "running" ELSE "none"]
     /\ daemon' \in (IF daemon = "none" THEN {"none"} ELSE {"left"})
                    \cup {"left" : c \in {x \in Copy : thread[x] = "command"}}
     /\ thread' = [c \in Copy |-> "none"]
     /\ waking' = FALSE /\ maturing' = {}
     /\ commands' = [k \in Command |-> NoCommand]
     /\ service' = NewService(found)
     /\ pids' = NoCopy /\ pidFile' = found
     /\ lost' = (lost \cup Stopping \cup {service.leftover}) \cap (running \ {found})
     /\ UNCHANGED entry

SidecarNext ==
  \/ BackoffEnds \/ DaemonDies \/ StartRequested
  \/ BootCleansUp \/ AutoStart \/ ServerDiesAndBoots
  \/ \E c \in Copy :
       \/ RecoveryElapses(c) \/ ProcessExits(c) \/ ExitSeen(c)
       \/ PrecheckEnds(c) \/ CommandEnds(c) \/ CheckStarts(c) \/ CheckEnds(c) \/ CheckStops(c)
  \/ \E k \in Command :
       \/ \E kind \in {"stop", "restart", "shutdown"} : StopRequested(k, kind)
       \/ StopKills(k) \/ StopEnds(k) \/ RestartStarts(k)

SidecarSpec == SidecarInit /\ [][SidecarNext]_sidecarVars

\* The server does not die in the middle of a stop: what it was stopping is gone.
StopsCompleteSpec ==
  SidecarInit /\ [][SidecarNext /\ (Stopping # {} => ~ServerDiesAndBoots)]_sidecarVars

----------------------------------------------------------------------------
(* Properties. *)

RunningCopies == {c \in Copy : copies[c] = "running"}

\* Every copy that runs is on record for the next boot to stop, or is being stopped, but
\* for the ways to lose one that are known: its record was not written, or it was removed
\* by the end of a stop or of the boot's cleanup that it overtook, or the server died while
\* it was being stopped and a later launch was on record.
RunningIsAccounted ==
  RunningCopies \subseteq {pidFile, service.leftover} \cup Stopping \cup lost

\* With no request or cleanup under way one copy runs at most: boot stops what the process
\* before left running, "so nothing runs twice" (sidecars/index.js).
NothingRunsTwice ==
  service.leftover = NoCopy /\ (\A k \in Command : commands[k].step = "idle")
    => Cardinality(RunningCopies) <= 1

\* The policy asks for a launch after the last exit.
ToRestart ==
  /\ sidecar.wanted
  /\ \/ entry.policy = "always"
     \/ entry.policy = "on-failure" /\ ~sidecar.cleanExit

\* A sidecar that is to be restarted is never left without a run, a timer or a command
\* that will bring it back, whatever requests overtake one another.
NeverStranded ==
  ToRestart => \/ waking
               \/ sidecar.run # NoCopy /\ (copies[sidecar.run] # "none" \/ thread[sidecar.run] # "none")

=============================================================================
