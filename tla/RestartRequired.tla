--------------------------- MODULE RestartRequired ---------------------------
(***************************************************************************)
(* What waits for a gateway restart (lib/server/restart-required-state.js, *)
(* restart-required-flag.js), the restart that applies it                  *)
(* (runRestartOperation of routes/system.js), the schedule of one          *)
(* (restart-schedule.js) and the clear after any other launch              *)
(* (restart-required-launch-clear.js).                                     *)
(*                                                                         *)
(* Every clear compares the time of a mark with that of the latest spawn,  *)
(* so a mark is "old" (a gateway spawned since) or "new".  The reasons,    *)
(* the flag, the record and the schedule are files; a synchronous stretch  *)
(* of the server is one step.                                              *)
(***************************************************************************)
CONSTANTS Code,  \* reason codes
          NoCode

ASSUME RestartAssumption == NoCode \notin Code

VARIABLES
  reasons,   \* state.reasons: the age of each code's mark
  flag,      \* the cross-process flag: one code and the age of its mark
  seenDown,  \* sawGatewayDownSincePending
  scheduled, \* a restart is scheduled
  gateway,
  awaited,   \* the launch clear waits for the latest launch to be ready
  route,     \* the restart under way
  record,    \* state.operation
  poll,      \* checkAndClearIfRecovered(): asking, and what it was told
  fresh      \* history: codes changed since the latest spawn, and not dismissed

restartVars == <<reasons, flag, seenDown, scheduled, gateway, awaited, route, record, poll, fresh>>

Age == {"old", "new"}
NoFlag == [code |-> NoCode, age |-> "old"]

RestartTypeOK ==
  /\ reasons \in [Code -> Age \cup {"none"}]
  /\ flag \in [code : Code, age : Age] \cup {NoFlag}
  /\ seenDown \in BOOLEAN /\ scheduled \in BOOLEAN
  /\ gateway \in {"down", "starting", "up"} /\ awaited \in BOOLEAN
  /\ route \in {"idle", "begun", "launched"}
  /\ record \in [status : {"none", "running", "succeeded", "failed", "interrupted"},
                 snapshot : SUBSET Code,
                 carried : BOOLEAN, \* a gateway spawned since it began
                 noted : BOOLEAN,   \* the watchdog of this process still follows its failure
                 held : BOOLEAN]    \* it failed less than kFailedRestartHoldMs ago
  /\ poll \in {"idle", "asking", "up", "down"}
  /\ fresh \subseteq Code

NoRestart == [status |-> "none", snapshot |-> {}, carried |-> FALSE, noted |-> FALSE, held |-> FALSE]

RestartInit ==
  /\ reasons = [c \in Code |-> "none"] /\ flag = NoFlag
  /\ seenDown = FALSE /\ scheduled = FALSE
  /\ gateway = "up" /\ awaited = FALSE
  /\ route = "idle" /\ record = NoRestart /\ poll = "idle"
  /\ fresh = {}

PendingReasons(rs) == {c \in Code : rs[c] # "none"}
RestartIsRequired == PendingReasons(reasons) # {}

----------------------------------------------------------------------------
(* Marks, and the clears. *)

\* adoptPersistedFlag(): a code that is there already only has its mark refreshed.
AdoptedReasons ==
  IF flag = NoFlag THEN reasons
  ELSE [reasons EXCEPT ![flag.code] =
          IF flag.age = "new" THEN "new" ELSE IF @ = "none" THEN "old" ELSE @]
AdoptedSeenDown == seenDown /\ (flag = NoFlag \/ reasons[flag.code] # "none")

AdoptFlag == reasons' = AdoptedReasons /\ seenDown' = AdoptedSeenDown

\* A schedule is dropped with the last reason.
ScheduleOf(rs) == scheduled /\ PendingReasons(rs) # {}

\* clearReasonCodes(): the flag goes when its code is among them.
ClearCodes(rs, seen, S) ==
  LET kept == [c \in Code |-> IF c \in S THEN "none" ELSE rs[c]]
  IN /\ reasons' = kept
     /\ seenDown' = (seen /\ (S = {} \/ PendingReasons(kept) # {}))
     /\ scheduled' = IF S = {} THEN scheduled ELSE ScheduleOf(kept)
     /\ flag' = IF flag.code \in S THEN NoFlag ELSE flag

\* clearRequired()
ClearRequired ==
  /\ reasons' = [c \in Code |-> "none"] /\ flag' = NoFlag
  /\ seenDown' = FALSE /\ scheduled' = FALSE

\* markRequired(), of the server: the flag is overwritten.
MarkRequired(c) ==
  /\ reasons' = [reasons EXCEPT ![c] = "new"]
  /\ flag' = [code |-> c, age |-> "new"] /\ seenDown' = FALSE
  /\ fresh' = fresh \cup {c}
  /\ UNCHANGED <<scheduled, gateway, awaited, route, record, poll>>

\* writeRestartRequiredFlag(), of the CLI or the autotune.
WriteFlag(c) ==
  /\ flag' = [code |-> c, age |-> "new"]
  /\ fresh' = fresh \cup {c}
  /\ UNCHANGED <<reasons, seenDown, scheduled, gateway, awaited, route, record, poll>>

\* POST /api/restart-status/dismiss
Dismiss ==
  /\ ClearRequired /\ fresh' = {}
  /\ UNCHANGED <<gateway, awaited, route, record, poll>>

----------------------------------------------------------------------------
(* The restart, and its schedule. *)

SetSchedule ==
  /\ AdoptFlag /\ scheduled' = (scheduled \/ PendingReasons(AdoptedReasons) # {})
  /\ UNCHANGED <<flag, gateway, awaited, route, record, poll, fresh>>

\* Cancelled by the operator, or its window was missed.
DropSchedule ==
  /\ scheduled /\ scheduled' = FALSE
  /\ UNCHANGED <<reasons, flag, seenDown, gateway, awaited, route, record, poll, fresh>>

\* beginRestart(), asked for by the operator or by the schedule, which it uses up.
RestartBegins ==
  /\ route = "idle" /\ route' = "begun"
  /\ AdoptFlag /\ scheduled' \in {scheduled, FALSE}
  /\ record' = [NoRestart EXCEPT !.status = "running",
                                 !.snapshot = PendingReasons(AdoptedReasons)]
  /\ UNCHANGED <<flag, gateway, awaited, poll, fresh>>

\* readActiveOperation(): the record outlived its lease.
RecordExpires ==
  /\ record.status = "running" /\ record' = [record EXCEPT !.status = "interrupted"]
  /\ UNCHANGED <<reasons, flag, seenDown, scheduled, gateway, awaited, route, poll, fresh>>

\* Mutant: a restart that worked clears all that is pending.
RestartSucceedsForAll ==
  /\ route = "launched" /\ gateway = "up" /\ route' = "idle"
  /\ IF record.status = "running"
     THEN record' = [record EXCEPT !.status = "succeeded"] /\ ClearRequired
     ELSE UNCHANGED <<record, reasons, flag, seenDown, scheduled>>
  /\ UNCHANGED <<gateway, awaited, poll, fresh>>

\* completeRestart({ ok: true }), of a record that is still running.
RestartSucceeds ==
  /\ route = "launched" /\ gateway = "up" /\ route' = "idle"
  /\ IF record.status = "running"
     THEN record' = [record EXCEPT !.status = "succeeded"]
          /\ ClearCodes(reasons, seenDown, record.snapshot)
     ELSE UNCHANGED <<record, reasons, flag, seenDown, scheduled>>
  /\ UNCHANGED <<gateway, awaited, poll, fresh>>

\* completeRestart({ ok: false }), refused or failed; noteRestartFailure(), unless
\* nothing was stopped.
RestartFails ==
  /\ route # "idle" /\ route' = "idle"
  /\ IF record.status = "running"
     THEN \E noted \in BOOLEAN :
            record' = [record EXCEPT !.status = "failed", !.held = TRUE, !.noted = noted]
     ELSE UNCHANGED record
  /\ UNCHANGED <<reasons, flag, seenDown, scheduled, gateway, awaited, poll, fresh>>

\* The watchdog's note and the hold expire.
FailureForgotten ==
  /\ record.held /\ record' = [record EXCEPT !.held = FALSE, !.noted = FALSE]
  /\ UNCHANGED <<reasons, flag, seenDown, scheduled, gateway, awaited, route, poll, fresh>>

\* markRecovered(): the gateway is ready again.  A launch of the watchdog's, or the
\* failed restart's own child, carried what its snapshot names.
Recovered ==
  /\ record.noted /\ gateway = "up"
  /\ record' = [record EXCEPT !.noted = FALSE, !.held = FALSE]
  /\ \/ /\ record.carried
        /\ ClearCodes(reasons, seenDown, {c \in record.snapshot : reasons[c] = "old"})
     \/ UNCHANGED <<reasons, flag, seenDown, scheduled>>
  /\ UNCHANGED <<gateway, awaited, route, poll, fresh>>

----------------------------------------------------------------------------
(* The gateway, and who watches it. *)

Aged(age) == IF age = "new" THEN "old" ELSE age

\* A managed launch, of the restart, the boot, crash recovery or a repair.
GatewaySpawns ==
  /\ route # "launched"
  /\ gateway' = "starting" /\ awaited' = TRUE
  /\ route' = IF route = "begun" THEN "launched" ELSE route
  /\ record' = [record EXCEPT !.carried = @ \/ record.status \in {"running", "failed"}]
  /\ reasons' = [c \in Code |-> Aged(reasons[c])] /\ flag' = [flag EXCEPT !.age = Aged(@)]
  /\ fresh' = {}
  /\ UNCHANGED <<seenDown, scheduled, poll>>

GatewayReady ==
  /\ gateway = "starting" /\ gateway' = "up"
  /\ UNCHANGED <<reasons, flag, seenDown, scheduled, awaited, route, record, poll, fresh>>

GatewayGoesDown ==
  /\ gateway # "down" /\ gateway' = "down" /\ awaited' = FALSE
  /\ UNCHANGED <<reasons, flag, seenDown, scheduled, route, record, poll, fresh>>

\* markAppliedByLaunch(): what was marked before the spawn is live, unless the verdict
\* is another's to give.
LaunchApplied ==
  /\ awaited /\ gateway = "up" /\ awaited' = FALSE
  /\ IF route # "idle" \/ record.held
     THEN UNCHANGED <<reasons, flag, seenDown, scheduled>>
     ELSE ClearCodes(AdoptedReasons, AdoptedSeenDown, {c \in Code : AdoptedReasons[c] = "old"})
  /\ UNCHANGED <<gateway, route, record, poll, fresh>>

\* checkAndClearIfRecovered() adopts the flag and asks whether the gateway runs.
PollStarts ==
  /\ poll = "idle" /\ poll' = "asking"
  /\ AdoptFlag
  /\ UNCHANGED <<flag, scheduled, gateway, awaited, route, record, fresh>>

PollAnswered ==
  /\ poll = "asking"
  /\ poll' \in (IF gateway # "down" THEN {"up"} ELSE {})
               \cup (IF gateway # "up" THEN {"down"} ELSE {})
  /\ UNCHANGED <<reasons, flag, seenDown, scheduled, gateway, awaited, route, record, fresh>>

\* A gateway that was down and is up again is taken to have applied everything.
PollEnds ==
  /\ poll \in {"up", "down"} /\ poll' = "idle"
  /\ IF ~RestartIsRequired \/ route # "idle"
     THEN UNCHANGED <<reasons, flag, seenDown, scheduled>>
     ELSE IF poll = "down" THEN seenDown' = TRUE /\ UNCHANGED <<reasons, flag, scheduled>>
     ELSE IF seenDown /\ ~record.held THEN ClearRequired
     ELSE UNCHANGED <<reasons, flag, seenDown, scheduled>>
  /\ UNCHANGED <<gateway, awaited, route, record, fresh>>

\* A new AlphaClaw process reads the files (reconcileOnBoot); a record of the old one
\* that still runs is closed.
ServerBoots ==
  /\ route' = "idle" /\ poll' = "idle" /\ seenDown' = FALSE /\ awaited' = FALSE
  /\ gateway' \in {gateway, "down"}
  /\ record' = [record EXCEPT !.noted = FALSE, !.held = FALSE,
                  !.status = IF @ = "running" THEN "interrupted" ELSE @]
  /\ scheduled' = ScheduleOf(reasons)
  /\ UNCHANGED <<reasons, flag, fresh>>

RestartNext ==
  \/ \E c \in Code : MarkRequired(c) \/ WriteFlag(c)
  \/ Dismiss \/ SetSchedule \/ DropSchedule
  \/ RestartBegins \/ RecordExpires \/ RestartSucceeds \/ RestartFails
  \/ FailureForgotten \/ Recovered
  \/ GatewaySpawns \/ GatewayReady \/ GatewayGoesDown \/ LaunchApplied
  \/ PollStarts \/ PollAnswered \/ PollEnds \/ ServerBoots

RestartSpec == RestartInit /\ [][RestartNext]_restartVars

----------------------------------------------------------------------------
(* Properties. *)

\* A restart is asked for what was changed since the spawn.
Asks(c) == reasons[c] = "new" \/ flag = [code |-> c, age |-> "new"]

\* What a launch or a restart clears was live in the gateway that came up.  "A reason
\* recorded after the spawn survives" the clear of a launch that became ready, whether it
\* is in the server's list or only in the flag; and the success of a restart clears no
\* change under a code that was not pending when the restart began.
ClearsKeepLaterChanges ==
  [][\A c \in fresh :
       LaunchApplied \/ (RestartSucceeds /\ c \notin record.snapshot)
         => (Asks(c) => Asks(c)')]_restartVars

\* The claim of completeRestart() for every change: "reasons added mid-restart still
\* need a future restart and must survive".
MidRestartChangeSurvives ==
  [][RestartSucceeds => \A c \in fresh : Asks(c) => Asks(c)']_restartVars

=============================================================================
