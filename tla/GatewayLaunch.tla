---------------------------- MODULE GatewayLaunch ----------------------------
(***************************************************************************)
(* The processes this server spawns as its gateway (lib/server/gateway.js):*)
(* the one launch primitive, requestGatewayLaunch(), and its callers, which*)
(* are the boot, the watchdog's verified relaunch and the cold restart.    *)
(*                                                                         *)
(* Each caller runs under the lifecycle lock (LifecycleLock), of which only*)
(* the owner is kept; a lease that ends does not stop its holder, whose    *)
(* fence (shouldAbort) is read where the code reads it.  Every await is the*)
(* end of a step.  A child is the process group of one spawn, numbered by  *)
(* its launch generation; slot is gatewayChild.                            *)
(***************************************************************************)
EXTENDS Naturals

CONSTANTS MaxLaunch,    \* bound on the children spawned
          BootOverruns, \* may the boot outlive its lease on the lock?
          NoCaller

ASSUME LaunchAssumption == /\ MaxLaunch \in Nat \ {0} /\ BootOverruns \in BOOLEAN
                           /\ NoCaller \notin {"boot", "relaunch", "restart"}

VARIABLES
  child,      \* what became of each spawn
  launched,   \* gatewayLaunchGeneration
  slot,       \* the generation of gatewayChild, 0 for null
  incumbent,  \* a gateway of someone else holds the port
  lockOwner,
  at,         \* where each caller is
  watched,    \* the child its guard waits to be reaped, or its ladder stops
  reconciles  \* the relaunch looks for an incumbent before it spawns

launchVars == <<child, launched, slot, incumbent, lockOwner, at, watched, reconciles>>

Generation == 1..MaxLaunch
Caller == {"boot", "relaunch", "restart"}
Place == {"idle", "start", "preparing", "stopping", "stopped", "guard1", "reap1", "probe1",
          "hook", "guard2", "reap2", "probe2", "spawn", "waiting"}

\* failing: it could not be run, and Node has not said so yet; zombie: dead, and
\* not reaped by Node; exited: 'exit' was emitted, its pipes are still open.
ChildState == {"none", "failing", "starting", "serving", "zombie", "exited", "closed"}

LaunchTypeOK ==
  /\ child \in [Generation -> ChildState] /\ launched \in 0..MaxLaunch
  /\ slot \in 0..MaxLaunch /\ incumbent \in BOOLEAN
  /\ lockOwner \in Caller \cup {NoCaller} /\ at \in [Caller -> Place]
  /\ watched \in [Caller -> 0..MaxLaunch] /\ reconciles \in BOOLEAN

LaunchInit ==
  /\ child = [g \in Generation |-> "none"] /\ launched = 0 /\ slot = 0
  /\ incumbent \in BOOLEAN
  /\ lockOwner = "boot" /\ at = [c \in Caller |-> IF c = "boot" THEN "start" ELSE "idle"]
  /\ watched = [c \in Caller |-> 0] /\ reconciles = TRUE

Alive(g) == child[g] \in {"starting", "serving"}
SlotState == IF slot = 0 THEN "none" ELSE child[slot]

\* isGatewayRunning(): something answers on the port.
PortAnswers == incumbent \/ \E g \in Generation : child[g] = "serving"

----------------------------------------------------------------------------
(* The processes. *)

\* The ready line: a child that finds the port taken does not get there.
ChildServes(g) ==
  /\ child[g] = "starting" /\ ~PortAnswers
  /\ child' = [child EXCEPT ![g] = "serving"]
  /\ UNCHANGED <<launched, slot, incumbent, lockOwner, at, watched, reconciles>>

\* It crashes, is killed, or steps aside.
ChildDies(g) ==
  /\ Alive(g) /\ child' = [child EXCEPT ![g] = "zombie"]
  /\ UNCHANGED <<launched, slot, incumbent, lockOwner, at, watched, reconciles>>

\* 'exit': the drain timer of the exit classification is armed.
ChildReaped(g) ==
  /\ child[g] = "zombie" /\ child' = [child EXCEPT ![g] = "exited"]
  /\ UNCHANGED <<launched, slot, incumbent, lockOwner, at, watched, reconciles>>

\* finalizeGatewayExit() and the 'error' listener release the slot of their own child.
SlotWithout(g) == IF slot = g THEN 0 ELSE slot

\* 'close' or the drain timer, whichever is first; 'error' for one that could not run.
ChildFinalized(g) ==
  /\ child[g] \in {"exited", "failing"}
  /\ child' = [child EXCEPT ![g] = "closed"] /\ slot' = SlotWithout(g)
  /\ UNCHANGED <<launched, incumbent, lockOwner, at, watched, reconciles>>

IncumbentChanges ==
  /\ incumbent \/ ~PortAnswers
  /\ incumbent' = ~incumbent
  /\ UNCHANGED <<child, launched, slot, lockOwner, at, watched, reconciles>>

----------------------------------------------------------------------------
(* The callers and their lock. *)

Goes(c, place) == at' = [at EXCEPT ![c] = place]
Ends(c) == /\ Goes(c, "idle")
           /\ lockOwner' = IF lockOwner = c THEN NoCaller ELSE lockOwner
           /\ watched' = [watched EXCEPT ![c] = 0]

\* The boot asks for the lock once; what is in the slot is not its business yet.
TakesLock(c) ==
  /\ c # "boot" /\ at[c] = "idle" /\ lockOwner = NoCaller /\ lockOwner' = c
  /\ Goes(c, IF c = "restart" THEN "preparing" ELSE "start")
  /\ reconciles' = (reconciles \/ c = "relaunch")
  /\ UNCHANGED <<child, launched, slot, incumbent, watched>>

LeaseEnds(c) ==
  /\ lockOwner = c /\ (c = "boot" => BootOverruns) /\ lockOwner' = NoCaller
  /\ UNCHANGED <<child, launched, slot, incumbent, at, watched, reconciles>>

\* shouldAbort(): the boot has none; a relaunch may also be superseded.
MayGoOn(c) == c = "boot" \/ lockOwner = c
MayBeStopped(c) == c = "relaunch" \/ ~MayGoOn(c)

Fenced(c) == MayBeStopped(c) /\ Ends(c)

\* startGateway(), after its port probe, and runVerifiedRelaunch().
LaunchAsked(c) ==
  /\ at[c] = "start"
  /\ \/ c = "boot" /\ PortAnswers /\ Ends(c)
     \/ c = "boot" /\ ~PortAnswers /\ Goes(c, "guard1") /\ UNCHANGED <<lockOwner, watched>>
     \/ c = "relaunch" /\ MayGoOn(c) /\ Goes(c, "guard1") /\ UNCHANGED <<lockOwner, watched>>
     \/ c = "relaunch" /\ Fenced(c)
  /\ UNCHANGED <<child, launched, slot, incumbent, reconciles>>

\* runLockedGatewayColdStart(), up to the ladder, which names what it is to stop: the
\* managed child if there is one, or else the incumbent (0).  It refuses a stranger.
RestartPrepared ==
  /\ at["restart"] = "preparing"
  /\ \/ Fenced("restart")
     \/ Ends("restart")
     \/ /\ MayGoOn("restart")
        /\ Goes("restart", IF slot # 0 \/ incumbent THEN "stopping" ELSE "stopped")
        /\ watched' = [watched EXCEPT !["restart"] = slot] /\ UNCHANGED lockOwner
  /\ UNCHANGED <<child, launched, slot, incumbent, reconciles>>

\* A poll of the ladder: what is left of its targets is signalled, and dies or not.
LadderSignals ==
  LET g == watched["restart"]
  IN /\ at["restart"] = "stopping" /\ MayGoOn("restart")
     /\ \/ /\ g # 0 /\ Alive(g) /\ child' = [child EXCEPT ![g] = "zombie"]
           /\ UNCHANGED incumbent
        \/ g = 0 /\ incumbent /\ incumbent' = FALSE /\ UNCHANGED child
     /\ UNCHANGED <<launched, slot, lockOwner, at, watched, reconciles>>

\* They are gone; or the ladder fails, or its fence stops it.
LadderEnds ==
  LET g == watched["restart"]
  IN /\ at["restart"] = "stopping"
     /\ \/ /\ (g # 0 => ~Alive(g)) /\ (g = 0 => ~incumbent)
           /\ Goes("restart", "stopped") /\ watched' = [watched EXCEPT !["restart"] = 0]
           /\ UNCHANGED lockOwner
        \/ Ends("restart")
     /\ UNCHANGED <<child, launched, slot, incumbent, reconciles>>

\* The work of afterStop, then the listeners: a stranger on the port ends it.
RestartStopped ==
  /\ at["restart"] = "stopped"
  /\ \/ Fenced("restart")
     \/ Ends("restart")
     \/ /\ MayGoOn("restart") /\ ~PortAnswers
        /\ Goes("restart", "guard1") /\ UNCHANGED <<lockOwner, watched>>
  /\ UNCHANGED <<child, launched, slot, incumbent, reconciles>>

\* Ready, timed out, aborted, or the child is dead.
RestartWaited ==
  /\ at["restart"] = "waiting" /\ Ends("restart")
  /\ UNCHANGED <<child, launched, slot, incumbent, reconciles>>

----------------------------------------------------------------------------
(* requestGatewayLaunch() *)

Reconciles(c) == c = "relaunch" /\ reconciles

\* childStillRunning() says yes: a child Node has not seen die, and that is not a zombie.
Runs(state) == state \in {"failing", "starting", "serving"}

AfterGuard(c, second) ==
  IF second THEN "probe2" ELSE IF c = "restart" THEN "guard2"
  ELSE IF Reconciles(c) THEN "probe1" ELSE "hook"

\* Read before the second probe too, and only there.
GuardGoesOn(c, second) ==
  \/ second /\ Fenced(c)
  \/ /\ (~second \/ MayGoOn(c)) /\ Goes(c, AfterGuard(c, second))
     /\ watched' = [watched EXCEPT ![c] = 0] /\ UNCHANGED lockOwner

Guard(c, second) ==
  /\ at[c] = IF second THEN "guard2" ELSE "guard1"
  /\ \/ Runs(SlotState) /\ Ends(c)
     \/ /\ SlotState = "zombie"
        /\ Goes(c, IF second THEN "reap2" ELSE "reap1")
        /\ watched' = [watched EXCEPT ![c] = slot] /\ UNCHANGED lockOwner
     \/ SlotState \in {"none", "exited", "closed"} /\ GuardGoesOn(c, second)
  /\ UNCHANGED <<child, launched, slot, incumbent, reconciles>>

\* The wait ends with its child's 'exit' or at kGatewayReapWaitMs; the answer is about
\* whatever is in the slot by then.
GuardReaped(c, second) ==
  /\ at[c] = IF second THEN "reap2" ELSE "reap1"
  /\ \/ (Runs(SlotState) \/ SlotState = "zombie") /\ Ends(c)
     \/ SlotState \in {"none", "exited", "closed"} /\ GuardGoesOn(c, second)
  /\ UNCHANGED <<child, launched, slot, incumbent, reconciles>>

\* incumbent_present: adopted, or looked after; or the corpse of the gateway that has
\* just exited, and the launch is asked for again without a look at the port.
IncumbentFound(c) ==
  \/ Ends(c) /\ UNCHANGED reconciles
  \/ MayGoOn(c) /\ Goes(c, "guard1") /\ reconciles' = FALSE /\ UNCHANGED <<lockOwner, watched>>

PortProbed1(c) ==
  /\ at[c] = "probe1"
  /\ \/ PortAnswers /\ IncumbentFound(c)
     \/ ~PortAnswers /\ Goes(c, "hook") /\ UNCHANGED <<lockOwner, watched, reconciles>>
  /\ UNCHANGED <<child, launched, slot, incumbent>>

\* The prelaunch hook and the plugin preflight; refused, failed, or a shutdown has begun.
LaunchPrepared(c) ==
  /\ at[c] = "hook"
  /\ \/ Ends(c)
     \/ Goes(c, "guard2") /\ UNCHANGED <<lockOwner, watched>>
  /\ UNCHANGED <<child, launched, slot, incumbent, reconciles>>

\* The probe of one that does not reconcile only allows the sweep.
PortProbed2(c) ==
  /\ at[c] = "probe2"
  /\ \/ Reconciles(c) /\ PortAnswers /\ IncumbentFound(c)
     \/ /\ ~(Reconciles(c) /\ PortAnswers)
        /\ Goes(c, "spawn") /\ UNCHANGED <<lockOwner, watched, reconciles>>
  /\ UNCHANGED <<child, launched, slot, incumbent>>

Launches(c, state) ==
  /\ launched < MaxLaunch /\ launched' = launched + 1
  /\ child' = [child EXCEPT ![launched + 1] = state] /\ slot' = launched + 1
  /\ IF c = "restart" THEN Goes(c, "waiting") /\ UNCHANGED <<lockOwner, watched>> ELSE Ends(c)

\* Mutant: the fence is not read again after the second probe.
SpawnUnfenced(c) ==
  /\ at[c] = "spawn"
  /\ \E state \in {"starting", "failing"} : Launches(c, state)
  /\ UNCHANGED <<incumbent, reconciles>>

\* spawn("openclaw", ["gateway", "run"]) may throw.
SpawnGateway(c) ==
  /\ at[c] = "spawn"
  /\ \/ (Fenced(c) \/ Ends(c)) /\ UNCHANGED <<child, launched, slot>>
     \/ MayGoOn(c) /\ \E state \in {"starting", "failing"} : Launches(c, state)
  /\ UNCHANGED <<incumbent, reconciles>>

----------------------------------------------------------------------------

LaunchNext ==
  \/ \E g \in Generation : ChildServes(g) \/ ChildDies(g) \/ ChildReaped(g) \/ ChildFinalized(g)
  \/ IncumbentChanges
  \/ \E c \in Caller :
       \/ TakesLock(c) \/ LeaseEnds(c) \/ LaunchAsked(c)
       \/ \E second \in BOOLEAN : Guard(c, second) \/ GuardReaped(c, second)
       \/ PortProbed1(c) \/ LaunchPrepared(c) \/ PortProbed2(c) \/ SpawnGateway(c)
  \/ RestartPrepared \/ LadderSignals \/ LadderEnds \/ RestartStopped \/ RestartWaited

LaunchSpec == LaunchInit /\ [][LaunchNext]_launchVars

----------------------------------------------------------------------------

\* A gateway that runs is the one this server holds as its child, so its exit is
\* classified, its stop reaches it, and a second one is never spawned beside it: not by a
\* caller whose lease ended during the port probe, nor by the late exit of a predecessor.
LiveChildIsHeld == \A g \in Generation : Alive(g) => slot = g
===========================================================================
