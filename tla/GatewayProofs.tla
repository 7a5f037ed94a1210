---------------------------- MODULE GatewayProofs ----------------------------
(***************************************************************************)
(* Proofs about the gateway, for any number of children, of reason codes,  *)
(* and of crashes and generations: its launches, under the premise that    *)
(* the boot ends within its lease on the lock (it is the one caller        *)
(* without a fence), what a restart leaves required, and the watchdog's    *)
(* recovery of a crash.                                                    *)
(***************************************************************************)
EXTENDS GatewayLaunch, RestartRequired, WatchdogRecovery, TLAPS

\* A caller past its last guard that still owns the lock has no gateway beside it.
CheckedFindsNone ==
  \A c \in Caller : at[c] \in {"probe2", "spawn"} /\ lockOwner = c
                      => \A g \in Generation : ~Alive(g)

\* The boot owns the lock from before its first step to its last.
BootIsOwner == at["boot"] # "idle" => lockOwner = "boot"

\* What LiveChildIsHeld rests on.
LaunchInv == LaunchTypeOK /\ LiveChildIsHeld /\ CheckedFindsNone /\ BootIsOwner

\* A gateway that starts to serve was alive before; every other change of a child
\* is towards its end.
LEMMA ChildrenOnlyEnd ==
  ASSUME LaunchTypeOK, NEW g \in Generation,
         ChildServes(g) \/ ChildDies(g) \/ ChildReaped(g) \/ ChildFinalized(g)
  PROVE  /\ \A h \in Generation : Alive(h)' => Alive(h)
         /\ child' \in [Generation -> ChildState]
         /\ slot' \in {slot, 0} /\ (slot' # slot => slot = g /\ ~Alive(g))
         /\ UNCHANGED <<launched, incumbent, lockOwner, at, watched, reconciles>>
  BY DEF ChildServes, ChildDies, ChildReaped, ChildFinalized, SlotWithout, Alive,
         ChildState, LaunchTypeOK

\* A guard that lets a launch go on has seen that no gateway lives.
LEMMA GuardFindsNone ==
  ASSUME LaunchTypeOK, LiveChildIsHeld, SlotState \in {"none", "exited", "closed"}
  PROVE  \A g \in Generation : ~Alive(g)
  BY DEF LaunchTypeOK, LiveChildIsHeld, SlotState, Alive, Generation

\* The steps of the callers that move neither a child nor the slot, seen from the
\* outside: one caller moves, and keeps the lock, or leaves it, or takes it free.
CallerMoves(c) ==
  /\ UNCHANGED <<child, slot, launched>>
  /\ incumbent' \in BOOLEAN /\ reconciles' \in BOOLEAN /\ watched' \in [Caller -> 0..MaxLaunch]
  /\ at' \in [Caller -> Place] /\ \A d \in Caller \ {c} : at'[d] = at[d]
  /\ \/ lockOwner' = lockOwner
     \/ lockOwner = c /\ lockOwner' = NoCaller /\ (c = "boot" => at'[c] = "idle")
     \/ lockOwner = NoCaller /\ lockOwner' = c /\ c # "boot"
  /\ at'["boot"] # "idle" => at["boot"] # "idle"
  /\ at'[c] \in {"probe2", "spawn"} =>
       \/ \A g \in Generation : ~Alive(g)
       \/ at[c] \in {"probe2", "spawn"} /\ (lockOwner' = c => lockOwner = c)

\* A caller that goes to another place moves no one else, nor the boot out of idle.
LEMMA GoesMoves ==
  ASSUME LaunchTypeOK, NEW c \in Caller, NEW p \in Place, Goes(c, p)
  PROVE  /\ at' \in [Caller -> Place] /\ at'[c] = p
         /\ \A d \in Caller \ {c} : at'[d] = at[d]
         /\ (at[c] # "idle" \/ c # "boot") => (at'["boot"] # "idle" => at["boot"] # "idle")
  BY DEF LaunchTypeOK, Goes, Caller

\* Ending leaves the lock to nobody, if it was the caller's.
LEMMA EndsMoves ==
  ASSUME LaunchTypeOK, NEW c \in Caller, Ends(c)
  PROVE  /\ at' \in [Caller -> Place] /\ at'[c] = "idle"
         /\ \A d \in Caller \ {c} : at'[d] = at[d]
         /\ at'["boot"] # "idle" => at["boot"] # "idle"
         /\ watched' \in [Caller -> 0..MaxLaunch]
         /\ lockOwner' = lockOwner \/ (lockOwner = c /\ lockOwner' = NoCaller)
<1>1. "idle" \in Place /\ Goes(c, "idle")
  BY DEF Ends, Place
<1>2. watched' \in [Caller -> 0..MaxLaunch]
  BY LaunchAssumption DEF Ends, LaunchTypeOK
<1>3. at'["boot"] # "idle" => at["boot"] # "idle"
  BY DEF Ends, Goes, LaunchTypeOK, Caller
<1>4. lockOwner' = lockOwner \/ (lockOwner = c /\ lockOwner' = NoCaller)
  BY DEF Ends
<1> QED
  BY <1>1, <1>2, <1>3, <1>4, GoesMoves

LEMMA GuardMoves ==
  ASSUME LaunchTypeOK, LiveChildIsHeld, NEW c \in Caller, NEW second \in BOOLEAN,
         Guard(c, second) \/ GuardReaped(c, second)
  PROVE  CallerMoves(c)
<1> USE LaunchAssumption DEF LaunchTypeOK
<1>1. at[c] # "idle"
  BY DEF Guard, GuardReaped
<1>2. UNCHANGED <<child, launched, slot, incumbent, reconciles>>
  BY DEF Guard, GuardReaped
<1>3. CASE Ends(c)
  <2>1. at'[c] \notin {"probe2", "spawn"} /\ incumbent' \in BOOLEAN /\ reconciles' \in BOOLEAN
    BY <1>2, <1>3, EndsMoves
  <2> QED
    BY <1>2, <1>3, <2>1, EndsMoves DEF CallerMoves
<1>4. CASE SlotState \in {"none", "exited", "closed"} /\ GuardGoesOn(c, second)
  <2>1. CASE Fenced(c)
    BY <1>3, <2>1 DEF Fenced
  <2>2. CASE /\ Goes(c, AfterGuard(c, second)) /\ watched' = [watched EXCEPT ![c] = 0]
             /\ UNCHANGED lockOwner
    <3>1. AfterGuard(c, second) \in Place
      BY DEF AfterGuard, Place
    <3>2. watched' \in [Caller -> 0..MaxLaunch]
      BY <2>2
    <3>3. \A g \in Generation : ~Alive(g)
      BY <1>4, GuardFindsNone
    <3> QED
      BY <1>1, <1>2, <2>2, <3>1, <3>2, <3>3, GoesMoves DEF CallerMoves
  <2> QED
    BY <1>4, <2>1, <2>2 DEF GuardGoesOn
<1>5. CASE /\ Goes(c, IF second THEN "reap2" ELSE "reap1")
           /\ watched' = [watched EXCEPT ![c] = slot] /\ UNCHANGED lockOwner
  <2>1. (IF second THEN "reap2" ELSE "reap1") \in Place \ {"probe2", "spawn"}
    BY DEF Place
  <2>2. watched' \in [Caller -> 0..MaxLaunch]
    BY <1>5
  <2> QED
    BY <1>1, <1>2, <1>5, <2>1, <2>2, GoesMoves DEF CallerMoves
<1> QED
  BY <1>3, <1>4, <1>5 DEF Guard, GuardReaped

\* What any such step keeps.
LEMMA CallerKeeps ==
  ASSUME LaunchInv, NEW c \in Caller, CallerMoves(c)
  PROVE  LaunchInv'
<1> USE LaunchAssumption DEF LaunchInv, LaunchTypeOK, CallerMoves
<1>1. LaunchTypeOK'
  <2>1. lockOwner' \in Caller \cup {NoCaller}
    OBVIOUS
  <2> QED
    BY <2>1 DEF Generation
<1>2. \A g \in Generation : Alive(g)' <=> Alive(g)
  BY DEF Alive
<1>3. LiveChildIsHeld'
  BY <1>2 DEF LiveChildIsHeld
<1>4. CheckedFindsNone'
  <2> SUFFICES ASSUME NEW d \in Caller, at'[d] \in {"probe2", "spawn"}, lockOwner' = d
               PROVE  \A g \in Generation : ~Alive(g)
    BY <1>2 DEF CheckedFindsNone
  <2>1. CASE d = c
    BY <2>1 DEF CheckedFindsNone
  <2>2. CASE d # c
    <3>1. d # NoCaller
      BY DEF Caller
    <3>2. lockOwner = d /\ at[d] \in {"probe2", "spawn"}
      BY <2>2, <3>1
    <3> QED
      BY <3>2 DEF CheckedFindsNone
  <2> QED
    BY <2>1, <2>2
<1>5. BootIsOwner'
  BY DEF BootIsOwner, Caller
<1> QED
  BY <1>1, <1>3, <1>4, <1>5

\* The other steps of the callers are of this kind: taking and losing the lock, and
\* everything between the ask and the spawn, or of the cold restart around them.
LEMMA OtherMoves ==
  ASSUME LaunchTypeOK, ~BootOverruns, NEW c \in Caller,
         \/ TakesLock(c) \/ LeaseEnds(c) \/ LaunchAsked(c)
         \/ PortProbed1(c) \/ LaunchPrepared(c) \/ PortProbed2(c)
         \/ c = "restart" /\ (RestartPrepared \/ LadderEnds \/ RestartStopped \/ RestartWaited)
  PROVE  CallerMoves(c)
<1> USE LaunchAssumption DEF LaunchTypeOK
<1>1. ASSUME UNCHANGED <<child, slot, launched>>, incumbent' \in BOOLEAN,
             reconciles' \in BOOLEAN, Ends(c)
      PROVE  CallerMoves(c)
  BY <1>1, EndsMoves DEF CallerMoves
<1>2. ASSUME UNCHANGED <<child, slot, launched, lockOwner>>, incumbent' \in BOOLEAN,
             reconciles' \in BOOLEAN, watched' \in [Caller -> 0..MaxLaunch],
             at[c] # "idle", NEW p \in Place, Goes(c, p),
             p \in {"probe2", "spawn"} => at[c] \in {"probe2", "spawn"}
      PROVE  CallerMoves(c)
  BY <1>2, GoesMoves DEF CallerMoves
<1>3. CASE TakesLock(c)
  <2>1. (IF c = "restart" THEN "preparing" ELSE "start") \in Place \ {"probe2", "spawn"}
    BY DEF Place
  <2> QED
    BY <1>3, <2>1, GoesMoves DEF TakesLock, CallerMoves
<1>4. CASE LeaseEnds(c)
  BY <1>4 DEF LeaseEnds, CallerMoves
<1>5. CASE LaunchAsked(c)
  BY <1>1, <1>2, <1>5 DEF LaunchAsked, Fenced, Place
<1>6. CASE PortProbed1(c)
  BY <1>1, <1>2, <1>6 DEF PortProbed1, IncumbentFound, Place
<1>7. CASE LaunchPrepared(c)
  BY <1>1, <1>2, <1>7 DEF LaunchPrepared, Place
<1>8. CASE PortProbed2(c)
  BY <1>1, <1>2, <1>8 DEF PortProbed2, IncumbentFound, Place
<1>9. CASE c = "restart" /\ RestartPrepared
  <2>1. watched' \in [Caller -> 0..MaxLaunch] \/ Ends(c)
    BY <1>9 DEF RestartPrepared, Fenced
  <2>2. (IF slot # 0 \/ incumbent THEN "stopping" ELSE "stopped") \in Place \ {"probe2", "spawn"}
    BY DEF Place
  <2> QED
    BY <1>1, <1>2, <1>9, <2>1, <2>2 DEF RestartPrepared, Fenced
<1>10. CASE c = "restart" /\ LadderEnds
  <2>1. watched' \in [Caller -> 0..MaxLaunch] \/ Ends(c)
    BY <1>10 DEF LadderEnds
  <2> QED
    BY <1>1, <1>2, <1>10, <2>1 DEF LadderEnds, Place
<1>11. CASE c = "restart" /\ (RestartStopped \/ RestartWaited)
  BY <1>1, <1>2, <1>11 DEF RestartStopped, RestartWaited, Fenced, Place
<1> QED
  BY <1>3, <1>4, <1>5, <1>6, <1>7, <1>8, <1>9, <1>10, <1>11

\* The processes, and the ladder that signals them, only end what lives, and the
\* slot is left by its own child alone, once that is dead.
LEMMA ProcessKeeps ==
  ASSUME LaunchInv, NEW g \in Generation,
         \/ ChildServes(g) \/ ChildDies(g) \/ ChildReaped(g) \/ ChildFinalized(g)
         \/ IncumbentChanges \/ LadderSignals
  PROVE  LaunchInv'
<1> USE LaunchAssumption DEF LaunchInv
<1>1. CASE ChildServes(g) \/ ChildDies(g) \/ ChildReaped(g) \/ ChildFinalized(g)
  <2>1. LaunchTypeOK'
    BY <1>1, ChildrenOnlyEnd DEF LaunchTypeOK
  <2>2. LiveChildIsHeld'
    BY <1>1, ChildrenOnlyEnd DEF LiveChildIsHeld
  <2>3. CheckedFindsNone' /\ BootIsOwner'
    BY <1>1, ChildrenOnlyEnd DEF CheckedFindsNone, BootIsOwner
  <2> QED
    BY <2>1, <2>2, <2>3
<1>2. CASE IncumbentChanges \/ LadderSignals
  <2>1. /\ child' \in [Generation -> ChildState] /\ incumbent' \in BOOLEAN
        /\ \A h \in Generation : Alive(h)' => Alive(h)
        /\ UNCHANGED <<launched, slot, lockOwner, at, watched, reconciles>>
    BY <1>2 DEF IncumbentChanges, LadderSignals, Alive, ChildState, LaunchTypeOK
  <2>2. LaunchTypeOK'
    BY <2>1 DEF LaunchTypeOK
  <2>3. LiveChildIsHeld' /\ CheckedFindsNone' /\ BootIsOwner'
    BY <2>1 DEF LiveChildIsHeld, CheckedFindsNone, BootIsOwner
  <2> QED
    BY <2>2, <2>3
<1> QED
  BY <1>1, <1>2

\* Only an owner spawns, and it has found no gateway.
LEMMA SpawnKeeps ==
  ASSUME LaunchInv, NEW c \in Caller, SpawnGateway(c)
  PROVE  LaunchInv'
<1> USE LaunchAssumption DEF LaunchInv
<1>1. CASE (Fenced(c) \/ Ends(c)) /\ UNCHANGED <<child, launched, slot>>
  <2>1. Ends(c) /\ UNCHANGED <<incumbent, reconciles>>
    BY <1>1 DEF Fenced, SpawnGateway
  <2>2. CallerMoves(c)
    BY <1>1, <2>1, EndsMoves DEF CallerMoves, LaunchTypeOK
  <2> QED
    BY <2>2, CallerKeeps
<1>2. ASSUME MayGoOn(c), NEW state \in {"starting", "failing"}, Launches(c, state)
      PROVE  LaunchInv'
  <2>1. at[c] = "spawn" /\ lockOwner = c /\ UNCHANGED <<incumbent, reconciles>>
    BY <1>2 DEF SpawnGateway, MayGoOn, BootIsOwner
  <2>2. \A g \in Generation : ~Alive(g)
    BY <2>1 DEF CheckedFindsNone
  <2>3. /\ launched + 1 \in Generation /\ launched' = launched + 1 /\ slot' = launched + 1
        /\ child' = [child EXCEPT ![launched + 1] = state]
    BY <1>2 DEF Launches, Generation, LaunchTypeOK
  <2>4. /\ at' \in [Caller -> Place] /\ at'[c] \in {"idle", "waiting"}
        /\ \A d \in Caller \ {c} : at'[d] = at[d]
        /\ at'["boot"] # "idle" => at["boot"] # "idle"
        /\ watched' \in [Caller -> 0..MaxLaunch] /\ lockOwner' \in {lockOwner, NoCaller}
        /\ c = "boot" => at'["boot"] = "idle"
    <3>1. CASE c = "restart"
      <4>1. "waiting" \in Place /\ Goes(c, "waiting") /\ UNCHANGED <<lockOwner, watched>>
        BY <1>2, <3>1 DEF Launches, Place
      <4> QED
        BY <2>1, <3>1, <4>1, GoesMoves DEF LaunchTypeOK
    <3>2. CASE c # "restart"
      BY <1>2, <2>1, <3>2, EndsMoves DEF Launches
    <3> QED
      BY <3>1, <3>2
  <2>5. LaunchTypeOK'
    BY <2>1, <2>3, <2>4 DEF LaunchTypeOK, Generation, ChildState
  <2>6. LiveChildIsHeld'
    BY <2>2, <2>3 DEF LiveChildIsHeld, Alive, LaunchTypeOK
  <2>7. CheckedFindsNone'
    BY <2>1, <2>4 DEF CheckedFindsNone, Caller
  <2>8. BootIsOwner'
    BY <2>1, <2>4 DEF BootIsOwner
  <2> QED
    BY <2>5, <2>6, <2>7, <2>8
<1> QED
  BY <1>1, <1>2 DEF SpawnGateway

\* The boot starts with the lock, and no gateway of this server is there yet.
LEMMA InitLaunchInv == LaunchInit => LaunchInv
  BY LaunchAssumption
  DEF LaunchInit, LaunchInv, LaunchTypeOK, LiveChildIsHeld, CheckedFindsNone, BootIsOwner,
      Alive, ChildState, Place, Caller, Generation

\* Every action keeps it, if the boot ends within its lease.
LEMMA StepLaunchInv ==
  ASSUME ~BootOverruns
  PROVE  LaunchInv /\ [LaunchNext]_launchVars => LaunchInv'
<1> SUFFICES ASSUME LaunchInv, [LaunchNext]_launchVars PROVE LaunchInv'
  OBVIOUS
<1> "restart" \in Caller /\ 1 \in Generation
  BY LaunchAssumption DEF Caller, Generation
<1>1. CASE UNCHANGED launchVars
  BY <1>1 DEF launchVars, LaunchInv, LaunchTypeOK, LiveChildIsHeld, CheckedFindsNone,
              BootIsOwner, Alive
<1>2. ASSUME NEW g \in Generation,
             ChildServes(g) \/ ChildDies(g) \/ ChildReaped(g) \/ ChildFinalized(g)
      PROVE  LaunchInv'
  BY <1>2, ProcessKeeps
<1>3. CASE IncumbentChanges \/ LadderSignals
  BY <1>3, ProcessKeeps
<1>4. ASSUME NEW c \in Caller, NEW second \in BOOLEAN, Guard(c, second) \/ GuardReaped(c, second)
      PROVE  LaunchInv'
  BY <1>4, GuardMoves, CallerKeeps DEF LaunchInv
<1>5. ASSUME NEW c \in Caller,
             \/ TakesLock(c) \/ LeaseEnds(c) \/ LaunchAsked(c)
             \/ PortProbed1(c) \/ LaunchPrepared(c) \/ PortProbed2(c)
      PROVE  LaunchInv'
  BY <1>5, OtherMoves, CallerKeeps DEF LaunchInv
<1>6. CASE RestartPrepared \/ LadderEnds \/ RestartStopped \/ RestartWaited
  BY <1>6, OtherMoves, CallerKeeps DEF LaunchInv
<1>7. ASSUME NEW c \in Caller, SpawnGateway(c) PROVE LaunchInv'
  BY <1>7, SpawnKeeps
<1> QED
  BY <1>1, <1>2, <1>3, <1>4, <1>5, <1>6, <1>7 DEF LaunchNext

\* The launches keep the strengthened invariant (requestGatewayLaunch and its callers), as
\* long as the boot launches within its lease.
THEOREM LaunchInvariant == ~BootOverruns => (LaunchSpec => []LaunchInv)
<1> SUFFICES ASSUME ~BootOverruns PROVE LaunchSpec => []LaunchInv
  OBVIOUS
<1>1. LaunchInit => LaunchInv
  BY InitLaunchInv
<1>2. LaunchInv /\ [LaunchNext]_launchVars => LaunchInv'
  BY StepLaunchInv
<1> QED
  BY <1>1, <1>2, PTL DEF LaunchSpec

\* A gateway of this server that runs is the one it holds as its child, as long as the boot
\* launches within its lease on the lock: there is never a second one beside it, nor one
\* whose exit nobody would classify.  The premise is the timing of the boot, not a fence of
\* the code: startGateway() is called after an await without asking whether the hold is still
\* owned, so nothing is claimed of a boot that outlives its lease.
THEOREM OneGatewayIsHeld == ~BootOverruns => (LaunchSpec => []LiveChildIsHeld)
<1> SUFFICES ASSUME ~BootOverruns PROVE LaunchSpec => []LiveChildIsHeld
  OBVIOUS
<1>1. LaunchInv => LiveChildIsHeld
  BY DEF LaunchInv
<1> QED
  BY <1>1, LaunchInvariant, PTL

\* A caller that moves, or a lock that changes hands, keeps the types, also when the boot
\* outlives its lease.
LEMMA CallerTypes ==
  ASSUME LaunchTypeOK, at' \in [Caller -> Place], watched' \in [Caller -> 0..MaxLaunch],
         lockOwner' \in Caller \cup {NoCaller}, reconciles' \in BOOLEAN,
         UNCHANGED <<child, launched, slot, incumbent>>
  PROVE  LaunchTypeOK'
  BY DEF LaunchTypeOK

\* What a caller's steps do to its place, its lock and the child it watches.
CallerSteps ==
  /\ at' \in [Caller -> Place] /\ watched' \in [Caller -> 0..MaxLaunch]
  /\ lockOwner' \in Caller \cup {NoCaller}

\* Ending is such a step.
LEMMA EndsTypes ==
  ASSUME LaunchTypeOK, NEW c \in Caller, Ends(c)
  PROVE  CallerSteps
<1>1. "idle" \in Place /\ 0 \in 0..MaxLaunch
  BY LaunchAssumption DEF Place
<1> QED
  BY <1>1 DEF LaunchTypeOK, Ends, Goes, CallerSteps

\* So is going to a place.
LEMMA GoesTypes ==
  ASSUME LaunchTypeOK, NEW c \in Caller, NEW p \in Place, Goes(c, p),
         lockOwner' \in Caller \cup {NoCaller},
         NEW g \in 0..MaxLaunch, watched' \in {watched, [watched EXCEPT ![c] = g]}
  PROVE  CallerSteps
  BY DEF LaunchTypeOK, Goes, CallerSteps

\* The types need no premise on the boot.
LEMMA StepLaunchTypes == LaunchTypeOK /\ [LaunchNext]_launchVars => LaunchTypeOK'
<1> SUFFICES ASSUME LaunchTypeOK, [LaunchNext]_launchVars PROVE LaunchTypeOK'
  OBVIOUS
<1> USE LaunchAssumption
<1>1. /\ "restart" \in Caller /\ slot \in 0..MaxLaunch /\ 0 \in 0..MaxLaunch
      /\ reconciles \in BOOLEAN /\ lockOwner \in Caller \cup {NoCaller}
  BY DEF LaunchTypeOK, Caller
<1>2. ASSUME NEW p \in Place, NEW c \in Caller, Goes(c, p), UNCHANGED <<lockOwner, watched>>
      PROVE  CallerSteps
  BY <1>1, <1>2, GoesTypes
<1>3. ASSUME NEW p \in Place, NEW c \in Caller, NEW g \in 0..MaxLaunch, Goes(c, p),
             watched' = [watched EXCEPT ![c] = g], UNCHANGED lockOwner
      PROVE  CallerSteps
  BY <1>1, <1>3, GoesTypes
<1>4. ASSUME CallerSteps, reconciles' \in BOOLEAN, UNCHANGED <<child, launched, slot, incumbent>>
      PROVE  LaunchTypeOK'
  BY <1>4, CallerTypes DEF CallerSteps
<1>5. ASSUME NEW c \in Caller, NEW second \in BOOLEAN, GuardGoesOn(c, second)
      PROVE  CallerSteps
  <2>1. AfterGuard(c, second) \in Place
    BY DEF AfterGuard, Place
  <2> QED
    BY <1>1, <1>3, <1>5, <2>1, EndsTypes DEF GuardGoesOn, Fenced
<1>6. ASSUME NEW c \in Caller, IncumbentFound(c) PROVE CallerSteps /\ reconciles' \in BOOLEAN
  <2>1. "guard1" \in Place
    BY DEF Place
  <2> QED
    BY <1>1, <1>2, <1>6, <2>1, EndsTypes DEF IncumbentFound
<1>7. CASE UNCHANGED launchVars
  BY <1>7 DEF launchVars, LaunchTypeOK
<1>8. ASSUME NEW g \in Generation,
             ChildServes(g) \/ ChildDies(g) \/ ChildReaped(g) \/ ChildFinalized(g)
      PROVE  LaunchTypeOK'
  <2>1. /\ child' \in [Generation -> ChildState] /\ slot' \in {slot, 0}
        /\ UNCHANGED <<launched, incumbent, lockOwner, at, watched, reconciles>>
    BY <1>8, ChildrenOnlyEnd
  <2> QED
    BY <1>1, <2>1 DEF LaunchTypeOK
<1>9. CASE IncumbentChanges \/ LadderSignals
  <2>1. /\ incumbent' \in BOOLEAN
        /\ child' = child \/ \E g : child' = [child EXCEPT ![g] = "zombie"]
    BY <1>9 DEF IncumbentChanges, LadderSignals, LaunchTypeOK
  <2>2. child' \in [Generation -> ChildState]
    BY <2>1 DEF LaunchTypeOK, ChildState
  <2> QED
    BY <1>9, <2>1, <2>2 DEF IncumbentChanges, LadderSignals, LaunchTypeOK
<1>10. ASSUME NEW c \in Caller, TakesLock(c) PROVE LaunchTypeOK'
  <2>1. PICK p \in Place : Goes(c, p)
    BY <1>10 DEF TakesLock, Place
  <2>2. CallerSteps
    BY <1>1, <1>10, <2>1, GoesTypes DEF TakesLock
  <2> QED
    BY <1>1, <1>4, <1>10, <2>2 DEF TakesLock
<1>11. ASSUME NEW c \in Caller, LeaseEnds(c) PROVE LaunchTypeOK'
  BY <1>11 DEF LeaseEnds, LaunchTypeOK
<1>12. ASSUME NEW c \in Caller, LaunchAsked(c) PROVE LaunchTypeOK'
  <2>1. "guard1" \in Place
    BY DEF Place
  <2>2. CallerSteps
    BY <1>2, <1>12, <2>1, EndsTypes DEF LaunchAsked, Fenced
  <2> QED
    BY <1>1, <1>4, <1>12, <2>2 DEF LaunchAsked
<1>13. ASSUME NEW c \in Caller, NEW second \in BOOLEAN, Guard(c, second) PROVE LaunchTypeOK'
  <2>1. "reap1" \in Place /\ "reap2" \in Place
    BY DEF Place
  <2>2. CallerSteps
    BY <1>1, <1>3, <1>5, <1>13, <2>1, EndsTypes DEF Guard
  <2> QED
    BY <1>1, <1>4, <1>13, <2>2 DEF Guard
<1>14. ASSUME NEW c \in Caller, NEW second \in BOOLEAN, GuardReaped(c, second)
       PROVE  LaunchTypeOK'
  <2>1. CallerSteps
    BY <1>5, <1>14, EndsTypes DEF GuardReaped
  <2> QED
    BY <1>1, <1>4, <1>14, <2>1 DEF GuardReaped
<1>15. ASSUME NEW c \in Caller, PortProbed1(c) PROVE LaunchTypeOK'
  <2>1. "hook" \in Place
    BY DEF Place
  <2>2. CallerSteps /\ reconciles' \in BOOLEAN
    BY <1>1, <1>2, <1>6, <1>15, <2>1 DEF PortProbed1
  <2> QED
    BY <1>4, <1>15, <2>2 DEF PortProbed1
<1>16. ASSUME NEW c \in Caller, LaunchPrepared(c) PROVE LaunchTypeOK'
  <2>1. "guard2" \in Place
    BY DEF Place
  <2>2. CallerSteps
    BY <1>2, <1>16, <2>1, EndsTypes DEF LaunchPrepared
  <2> QED
    BY <1>1, <1>4, <1>16, <2>2 DEF LaunchPrepared
<1>17. ASSUME NEW c \in Caller, PortProbed2(c) PROVE LaunchTypeOK'
  <2>1. "spawn" \in Place
    BY DEF Place
  <2>2. CallerSteps /\ reconciles' \in BOOLEAN
    BY <1>1, <1>2, <1>6, <1>17, <2>1 DEF PortProbed2
  <2> QED
    BY <1>4, <1>17, <2>2 DEF PortProbed2
<1>18. ASSUME NEW c \in Caller, SpawnGateway(c) PROVE LaunchTypeOK'
  <2>1. CASE (Fenced(c) \/ Ends(c)) /\ UNCHANGED <<child, launched, slot>>
    <3>1. CallerSteps
      BY <2>1, EndsTypes DEF Fenced
    <3> QED
      BY <1>1, <1>4, <1>18, <2>1, <3>1 DEF SpawnGateway
  <2>2. ASSUME NEW state \in {"starting", "failing"}, Launches(c, state) PROVE LaunchTypeOK'
    <3>1. "waiting" \in Place
      BY DEF Place
    <3>2. CallerSteps
      BY <1>2, <2>2, <3>1, EndsTypes DEF Launches
    <3>3. launched' \in 0..MaxLaunch /\ slot' \in 0..MaxLaunch
      BY <2>2 DEF Launches, LaunchTypeOK
    <3>4. child' \in [Generation -> ChildState]
      BY <2>2 DEF Launches, LaunchTypeOK, ChildState
    <3> QED
      BY <1>18, <3>2, <3>3, <3>4 DEF SpawnGateway, CallerSteps, LaunchTypeOK
  <2> QED
    BY <1>18, <2>1, <2>2 DEF SpawnGateway
<1>19. CASE RestartPrepared
  <2>1. "stopping" \in Place /\ "stopped" \in Place
    BY DEF Place
  <2>2. CallerSteps
    BY <1>1, <1>3, <1>19, <2>1, EndsTypes DEF RestartPrepared, Fenced
  <2> QED
    BY <1>1, <1>4, <1>19, <2>2 DEF RestartPrepared
<1>20. CASE LadderEnds
  <2>1. "stopped" \in Place
    BY DEF Place
  <2>2. CallerSteps
    BY <1>1, <1>3, <1>20, <2>1, EndsTypes DEF LadderEnds
  <2> QED
    BY <1>1, <1>4, <1>20, <2>2 DEF LadderEnds
<1>21. CASE RestartStopped
  <2>1. "guard1" \in Place
    BY DEF Place
  <2>2. CallerSteps
    BY <1>1, <1>2, <1>21, <2>1, EndsTypes DEF RestartStopped, Fenced
  <2> QED
    BY <1>1, <1>4, <1>21, <2>2 DEF RestartStopped
<1>22. CASE RestartWaited
  <2>1. CallerSteps
    BY <1>1, <1>22, EndsTypes DEF RestartWaited
  <2> QED
    BY <1>1, <1>4, <1>22, <2>1 DEF RestartWaited
<1> QED
  BY <1>7, <1>8, <1>9, <1>10, <1>11, <1>12, <1>13, <1>14, <1>15, <1>16, <1>17, <1>18, <1>19,
     <1>20, <1>21, <1>22 DEF LaunchNext

\* Every variable of the launches keeps its type, also when the boot overruns.
THEOREM LaunchTypes == LaunchSpec => []LaunchTypeOK
<1>1. LaunchInit => LaunchTypeOK
  BY InitLaunchInv DEF LaunchInv
<1> QED
  BY <1>1, StepLaunchTypes, PTL DEF LaunchSpec

-----------------------------------------------------------------------------

\* A value of the restart's record, and of the flag.
RestartRecord ==
  [status : {"none", "running", "succeeded", "failed", "interrupted"}, snapshot : SUBSET Code,
   carried : BOOLEAN, noted : BOOLEAN, held : BOOLEAN]
Flag == [code : Code, age : Age] \cup {NoFlag}

\* The files and the server's list keep their types together.
RequiredTypeOK ==
  /\ reasons \in [Code -> Age \cup {"none"}] /\ flag \in Flag
  /\ seenDown \in BOOLEAN /\ scheduled \in BOOLEAN

\* Adopting the flag marks a code, and makes no mark older.
LEMMA Adopted ==
  ASSUME RequiredTypeOK
  PROVE  /\ AdoptedReasons \in [Code -> Age \cup {"none"}] /\ AdoptedSeenDown \in BOOLEAN
         /\ \A c \in Code : reasons[c] = "new" \/ flag = [code |-> c, age |-> "new"]
                              => AdoptedReasons[c] = "new"
<1> USE RestartAssumption DEF RequiredTypeOK, Flag, Age, AdoptedReasons
<1>1. CASE flag = NoFlag
  BY <1>1 DEF AdoptedSeenDown, NoFlag
<1>2. CASE flag # NoFlag
  <2>1. flag \in [code : Code, age : {"old", "new"}]
    BY <1>2
  <2>2. AdoptedReasons \in [Code -> Age \cup {"none"}]
    BY <1>2, <2>1
  <2> QED
    BY <1>2, <2>1, <2>2 DEF AdoptedSeenDown
<1> QED
  BY <1>1, <1>2

\* What a clear of some codes leaves: the marks of the others, and a flag of another code.
LEMMA ClearedCodes ==
  ASSUME NEW rs \in [Code -> Age \cup {"none"}], NEW seen \in BOOLEAN, NEW S \in SUBSET Code,
         RequiredTypeOK, ClearCodes(rs, seen, S)
  PROVE  /\ RequiredTypeOK'
         /\ \A c \in Code \ S : reasons'[c] = rs[c] /\ (flag.code = c => flag' = flag)
<1> USE DEF ClearCodes, RequiredTypeOK, Flag, ScheduleOf
<1>1. reasons' = [c \in Code |-> IF c \in S THEN "none" ELSE rs[c]]
  OBVIOUS
<1>2. reasons' \in [Code -> Age \cup {"none"}]
  BY <1>1
<1> QED
  BY <1>1, <1>2

\* The restart, the gateway and the poll keep their types.
ProgressTypeOK ==
  /\ gateway \in {"down", "starting", "up"} /\ awaited \in BOOLEAN
  /\ route \in {"idle", "begun", "launched"} /\ record \in RestartRecord
  /\ poll \in {"idle", "asking", "up", "down"} /\ fresh \subseteq Code

\* RestartTypeOK speaks of what is required and of how far a restart is.
LEMMA TypesSplit == RestartTypeOK <=> RequiredTypeOK /\ ProgressTypeOK
  BY DEF RestartTypeOK, RequiredTypeOK, ProgressTypeOK, RestartRecord, Flag

\* The clear of everything keeps the types.
LEMMA ClearedAll == ASSUME ClearRequired PROVE RequiredTypeOK'
  BY DEF ClearRequired, RequiredTypeOK, Flag

\* Every action keeps the types.
LEMMA StepRestartTypes == RestartTypeOK /\ [RestartNext]_restartVars => RestartTypeOK'
<1> SUFFICES ASSUME RequiredTypeOK, ProgressTypeOK, [RestartNext]_restartVars
             PROVE  RequiredTypeOK' /\ ProgressTypeOK'
  BY TypesSplit, PTL
<1>1. /\ AdoptedReasons \in [Code -> Age \cup {"none"}] /\ AdoptedSeenDown \in BOOLEAN
      /\ reasons \in [Code -> Age \cup {"none"}] /\ seenDown \in BOOLEAN
  BY Adopted DEF RequiredTypeOK
<1>2. CASE UNCHANGED restartVars
  BY <1>2 DEF restartVars, RequiredTypeOK, ProgressTypeOK
<1>3. ASSUME NEW c \in Code, MarkRequired(c) \/ WriteFlag(c)
      PROVE  RequiredTypeOK' /\ ProgressTypeOK'
  <2>1. reasons' \in [Code -> Age \cup {"none"}]
    BY <1>1, <1>3 DEF MarkRequired, WriteFlag, Age
  <2>2. flag' \in Flag
    BY <1>3 DEF MarkRequired, WriteFlag, Flag, Age
  <2>3. seenDown' \in BOOLEAN /\ scheduled' \in BOOLEAN
    BY <1>3 DEF MarkRequired, WriteFlag, RequiredTypeOK
  <2> QED
    BY <1>3, <2>1, <2>2, <2>3 DEF MarkRequired, WriteFlag, RequiredTypeOK, ProgressTypeOK
<1>4. CASE Dismiss
  BY <1>4, ClearedAll DEF Dismiss, ProgressTypeOK
<1>5. CASE SetSchedule \/ DropSchedule
  BY <1>1, <1>5 DEF SetSchedule, DropSchedule, AdoptFlag, RequiredTypeOK, ProgressTypeOK
<1>6. CASE RestartBegins
  <2>1. PendingReasons(AdoptedReasons) \in SUBSET Code
    BY DEF PendingReasons
  <2>2. record' \in RestartRecord
    BY <1>6, <2>1 DEF RestartBegins, RestartRecord, NoRestart
  <2> QED
    BY <1>1, <1>6, <2>2 DEF RestartBegins, AdoptFlag, RequiredTypeOK, ProgressTypeOK
<1>7. CASE RecordExpires \/ RestartFails \/ FailureForgotten
  <2>1. record' \in RestartRecord
    BY <1>7 DEF RecordExpires, RestartFails, FailureForgotten, ProgressTypeOK, RestartRecord
  <2> QED
    BY <1>7, <2>1 DEF RecordExpires, RestartFails, FailureForgotten, RequiredTypeOK, ProgressTypeOK
<1>8. CASE RestartSucceeds
  <2>1. record' \in RestartRecord /\ record.snapshot \in SUBSET Code
    BY <1>8 DEF RestartSucceeds, ProgressTypeOK, RestartRecord
  <2>2. RequiredTypeOK'
    BY <1>1, <1>8, <2>1, ClearedCodes DEF RestartSucceeds, RequiredTypeOK
  <2> QED
    BY <1>8, <2>1, <2>2 DEF RestartSucceeds, ProgressTypeOK
<1>9. CASE Recovered
  <2>1. record' \in RestartRecord /\ {c \in record.snapshot : reasons[c] = "old"} \in SUBSET Code
    BY <1>9 DEF Recovered, ProgressTypeOK, RestartRecord
  <2>2. RequiredTypeOK'
    BY <1>1, <1>9, <2>1, ClearedCodes DEF Recovered, RequiredTypeOK
  <2> QED
    BY <1>9, <2>1, <2>2 DEF Recovered, ProgressTypeOK
<1>10. CASE GatewaySpawns
  <2>1. record' \in RestartRecord
    BY <1>10 DEF GatewaySpawns, ProgressTypeOK, RestartRecord
  <2>2. reasons' \in [Code -> Age \cup {"none"}]
    BY <1>1, <1>10 DEF GatewaySpawns, Aged, Age
  <2>3. flag' \in Flag
    BY <1>10 DEF GatewaySpawns, RequiredTypeOK, Flag, NoFlag, Aged, Age
  <2> QED
    BY <1>10, <2>1, <2>2, <2>3 DEF GatewaySpawns, RequiredTypeOK, ProgressTypeOK
<1>11. CASE GatewayReady \/ GatewayGoesDown \/ PollAnswered
  BY <1>11 DEF GatewayReady, GatewayGoesDown, PollAnswered, RequiredTypeOK, ProgressTypeOK
<1>12. CASE LaunchApplied
  <2>1. {c \in Code : AdoptedReasons[c] = "old"} \in SUBSET Code
    OBVIOUS
  <2>2. RequiredTypeOK'
    BY <1>1, <1>12, <2>1, ClearedCodes DEF LaunchApplied, RequiredTypeOK
  <2> QED
    BY <1>12, <2>2 DEF LaunchApplied, ProgressTypeOK
<1>13. CASE PollStarts
  BY <1>1, <1>13 DEF PollStarts, AdoptFlag, RequiredTypeOK, ProgressTypeOK
<1>14. CASE PollEnds
  <2>1. RequiredTypeOK'
    BY <1>14, ClearedAll DEF PollEnds, RequiredTypeOK
  <2> QED
    BY <1>14, <2>1 DEF PollEnds, ProgressTypeOK
<1>15. CASE ServerBoots
  <2>1. record' \in RestartRecord
    BY <1>15 DEF ServerBoots, ProgressTypeOK, RestartRecord
  <2> QED
    BY <1>15, <2>1 DEF ServerBoots, ScheduleOf, RequiredTypeOK, ProgressTypeOK
<1> QED
  BY <1>2, <1>3, <1>4, <1>5, <1>6, <1>7, <1>8, <1>9, <1>10, <1>11, <1>12, <1>13, <1>14, <1>15
  DEF RestartNext

\* The reasons, the flag, the record and the schedule keep their types.
THEOREM RestartTypes == RestartSpec => []RestartTypeOK
<1>1. RestartInit => RestartTypeOK
  <2> SUFFICES ASSUME RestartInit PROVE RestartTypeOK
    OBVIOUS
  <2>1. RequiredTypeOK
    BY DEF RestartInit, RequiredTypeOK, Flag
  <2>2. record \in RestartRecord
    BY DEF RestartInit, NoRestart, RestartRecord
  <2>3. ProgressTypeOK
    BY <2>2 DEF RestartInit, ProgressTypeOK
  <2> QED
    BY <2>1, <2>3, TypesSplit
<1> QED
  BY <1>1, StepRestartTypes, PTL DEF RestartSpec

\* The clear of a launch that became ready leaves every change since the spawn asked for: it
\* adopts a new flag before it clears the old marks.  The clear of a restart's success is only
\* said to leave the codes outside its snapshot alone; a code marked again inside the snapshot
\* is lost (RestartRequiredMidRun.cfg).
LEMMA ClearsLeaveLaterChanges == RestartSpec => ClearsKeepLaterChanges
<1> DEFINE Kept == \A c \in fresh :
             LaunchApplied \/ (RestartSucceeds /\ c \notin record.snapshot)
               => (Asks(c) => Asks(c)')
<1>1. RestartTypeOK => Kept
  <2> SUFFICES ASSUME RequiredTypeOK, ProgressTypeOK, NEW c \in Code, Asks(c),
                      LaunchApplied \/ (RestartSucceeds /\ c \notin record.snapshot)
               PROVE  Asks(c)'
    BY TypesSplit DEF ProgressTypeOK
  <2>1. CASE UNCHANGED <<reasons, flag>>
    BY <2>1 DEF Asks
  <2>2. CASE LaunchApplied /\ ~UNCHANGED <<reasons, flag>>
    <3> DEFINE S == {d \in Code : AdoptedReasons[d] = "old"}
    <3>1. /\ AdoptedReasons \in [Code -> Age \cup {"none"}] /\ AdoptedSeenDown \in BOOLEAN
          /\ AdoptedReasons[c] = "new"
      BY Adopted DEF Asks
    <3>2. S \in SUBSET Code /\ c \notin S /\ ClearCodes(AdoptedReasons, AdoptedSeenDown, S)
      BY <2>2, <3>1 DEF LaunchApplied
    <3>3. reasons'[c] = AdoptedReasons[c]
      BY <3>1, <3>2, ClearedCodes
    <3> QED
      BY <3>1, <3>3 DEF Asks
  <2>3. CASE RestartSucceeds /\ c \notin record.snapshot /\ ~UNCHANGED <<reasons, flag>>
    <3>1. /\ reasons \in [Code -> Age \cup {"none"}] /\ seenDown \in BOOLEAN
          /\ record.snapshot \in SUBSET Code /\ ClearCodes(reasons, seenDown, record.snapshot)
      BY <2>3 DEF RestartSucceeds, RequiredTypeOK, ProgressTypeOK, RestartRecord
    <3>2. reasons'[c] = reasons[c] /\ (flag.code = c => flag' = flag)
      BY <2>3, <3>1, ClearedCodes
    <3> QED
      BY <3>2 DEF Asks
  <2> QED
    BY <2>1, <2>2, <2>3
<1>2. RestartSpec => []RestartTypeOK
  BY RestartTypes
<1>3. RestartTypeOK /\ [RestartNext]_restartVars => [Kept]_restartVars
  BY <1>1
<1> QED
  BY <1>2, <1>3, PTL DEF RestartSpec, ClearsKeepLaterChanges

----------------------------------------------------------------------------
(* The crash-recovery coordinator of the watchdog. *)

\* The generation of a record that is current has not moved since the request
\* (every successor cancels first), and a dispatch has a record.
RecordIsFenced ==
  /\ current # NoRecord => recSeq[current] = servingSeq
  /\ inFlight # NoRecord <=> attempt # "none"

\* What ObligationNeverStranded rests on.
RecoveryInv == TypeOK /\ RecordIsFenced /\ ObligationNeverStranded

\* run() either settles the record, leaves it one armed delay, or dispatches it.
LEMMA RunOutcome ==
  ASSUME NEW r, NEW ts, Run(r, ts)
  PROVE  \/ /\ current' = NoRecord /\ timers' = ts
            /\ inFlight' = inFlight /\ attempt' = attempt
         \/ /\ current' = r /\ timers' = ts \cup {r}
            /\ inFlight' = inFlight /\ attempt' = attempt
         \/ /\ inFlight = NoRecord /\ current' = r /\ timers' = ts
            /\ inFlight' = r /\ attempt' \in {"working", "retry"}
  BY DEF Run

\* run() keeps the dispatch slot, the lock and the flag in their types.
LEMMA RunTypes ==
  ASSUME NEW r, NEW ts, Run(r, ts),
         owner \in Actor \cup {"crash", NoOwner}, operationInProgress \in BOOLEAN
  PROVE  /\ owner' \in Actor \cup {"crash", NoOwner}
         /\ operationInProgress' \in BOOLEAN
  BY DEF Run

\* Before the first crash there is no record, no delay and no dispatch.
LEMMA InitRecoveryInv == Init => RecoveryInv
<1> SUFFICES ASSUME Init PROVE RecoveryInv
  OBVIOUS
<1>1. TypeOK
  <2>1. /\ servingSeq \in 0..MaxSeq /\ made \in 0..MaxRecord
        /\ current \in 0..made /\ inFlight \in 0..made
    BY BoundsAssumption DEF Init, NoRecord
  <2>2. recSeq \in [Record -> 0..MaxSeq]
    BY BoundsAssumption DEF Init
  <2> QED
    BY <2>1, <2>2 DEF Init, TypeOK
<1>2. RecordIsFenced /\ ObligationNeverStranded
  BY DEF Init, RecordIsFenced, ObligationNeverStranded, NoRecord
<1> QED
  BY <1>1, <1>2 DEF RecoveryInv

\* Requests, delays, cancellations, launches, attempts and the operations that
\* share the lock all keep the obligation in one place.
LEMMA StepRecoveryInv == RecoveryInv /\ [Next]_vars => RecoveryInv'
<1> SUFFICES ASSUME RecoveryInv, [Next]_vars PROVE RecoveryInv'
  OBVIOUS
<1> USE BoundsAssumption
        DEF RecoveryInv, TypeOK, RecordIsFenced, ObligationNeverStranded, NoRecord, Record
<1>1. CASE Request
  <2>1. CASE Run(made + 1, timers \ {current})
    <3>1. /\ made' = made + 1 /\ made' \in Record
          /\ recSeq' = [recSeq EXCEPT ![made'] = servingSeq]
          /\ UNCHANGED <<servingSeq, pc>> /\ timers \ {current} = {}
      BY <1>1 DEF Request
    <3>2. recSeq' \in [Record -> 0..MaxSeq] /\ recSeq'[made'] = servingSeq'
      BY <3>1
    <3>3. owner' \in Actor \cup {"crash", NoOwner} /\ operationInProgress' \in BOOLEAN
      BY <2>1, RunTypes
    <3>4. inFlight # made + 1
      OBVIOUS
    <3>5. \/ current' = 0 /\ timers' = {} /\ inFlight' = inFlight /\ attempt' = attempt
          \/ /\ current' = made' /\ timers' = {made'}
             /\ inFlight' = inFlight /\ attempt' = attempt
          \/ /\ current' = made' /\ timers' = {} /\ inFlight' = made'
             /\ attempt' \in {"working", "retry"}
      BY <2>1, <3>1, RunOutcome
    <3>6. TypeOK'
      <4>1. current' \in 0..made' /\ inFlight' \in 0..made' /\ timers' \subseteq Record
        BY <3>1, <3>5
      <4>2. attempt' \in {"none", "working", "retry", "launched"}
        BY <3>5
      <4> QED
        BY <3>1, <3>2, <3>3, <4>1, <4>2
    <3>7. RecordIsFenced'
      BY <3>1, <3>2, <3>5
    <3>8. ObligationNeverStranded'
      BY <3>1, <3>4, <3>5
    <3> QED
      BY <3>6, <3>7, <3>8
  <2>2. CASE ~Run(made + 1, timers \ {current})
    BY <1>1, <2>2 DEF Request
  <2> QED
    BY <2>1, <2>2
<1>2. ASSUME NEW r \in Record, DelayElapses(r) PROVE RecoveryInv'
  <2>1. r = current /\ IsCurrent(r)
    BY <1>2 DEF DelayElapses, IsCurrent
  <2>2. /\ Run(r, {}) /\ timers = {r} /\ inFlight # r
        /\ UNCHANGED <<servingSeq, made, recSeq, pc>>
    BY <1>2, <2>1 DEF DelayElapses
  <2>3. \/ current' = 0 /\ timers' = {} /\ inFlight' = inFlight /\ attempt' = attempt
        \/ /\ current' = r /\ timers' = {r}
           /\ inFlight' = inFlight /\ attempt' = attempt
        \/ /\ current' = r /\ timers' = {} /\ inFlight' = r
           /\ attempt' \in {"working", "retry"}
    BY <2>2, RunOutcome
  <2>4. owner' \in Actor \cup {"crash", NoOwner} /\ operationInProgress' \in BOOLEAN
    BY <2>2, RunTypes
  <2>5. TypeOK'
    BY <2>1, <2>2, <2>3, <2>4
  <2>6. RecordIsFenced' /\ ObligationNeverStranded'
    BY <2>1, <2>2, <2>3
  <2> QED
    BY <2>5, <2>6
<1>3. CASE Cancel
  BY <1>3 DEF Cancel
<1>4. CASE SuccessorObserved
  BY <1>4 DEF SuccessorObserved
<1>5. CASE AttemptReturns
  BY <1>5 DEF AttemptReturns, NoOwner
<1>6. CASE AttemptSettles
  BY <1>6 DEF AttemptSettles, IsCurrent
<1>7. ASSUME NEW a \in Actor,
             Starts(a) \/ Waits(a) \/ Granted(a) \/ Begins(a) \/ Declines(a)
               \/ Finishes(a) \/ Releases(a)
      PROVE  RecoveryInv'
  BY <1>7 DEF Starts, Waits, Granted, Begins, Declines, Finishes, Releases, recoveryVars, NoOwner
<1>8. CASE LeaseFires \/ StructuralEnds
  BY <1>8 DEF LeaseFires, StructuralEnds, recoveryVars, NoOwner
<1>9. CASE UNCHANGED vars
  BY <1>9 DEF vars
<1> QED
  BY <1>1, <1>2, <1>3, <1>4, <1>5, <1>6, <1>7, <1>8, <1>9 DEF Next

\* The recovery invariant holds in every state of the watchdog.
THEOREM RecoveryInvariant == Spec => []RecoveryInv
  BY InitRecoveryInv, StepRecoveryInv, PTL DEF Spec

\* Every variable of crash recovery keeps its type.
THEOREM RecoveryTypes == Spec => []TypeOK
<1>1. RecoveryInv => TypeOK
  BY DEF RecoveryInv
<1> QED
  BY <1>1, RecoveryInvariant, PTL

\* A crash that is pending is always either dispatched or behind its one armed
\* delay, however requests, cancellations, late dispatches and launches mix.
THEOREM CrashIsNeverStranded == Spec => []ObligationNeverStranded
<1>1. RecoveryInv => ObligationNeverStranded
  BY DEF RecoveryInv
<1> QED
  BY <1>1, RecoveryInvariant, PTL

\* The continuation of a superseded dispatch touches nothing but its own slot.
THEOREM StaleDispatchIsInert == Spec => SupersededIsInert
<1>1. RecoveryInv /\ [Next]_vars =>
        [inFlight # NoRecord /\ inFlight' # inFlight /\ current # inFlight
           => UNCHANGED <<current, timers>>]_vars
  <2> SUFFICES ASSUME RecoveryInv, Next, inFlight # NoRecord, inFlight' # inFlight,
                      current # inFlight
               PROVE  UNCHANGED <<current, timers>>
    OBVIOUS
  <2>1. AttemptSettles
    BY DEF Next, Request, Run, DelayElapses, Cancel, SuccessorObserved,
       AttemptReturns, Starts, Waits, Granted, Begins, Declines, Finishes, Releases, LeaseFires,
       StructuralEnds, recoveryVars
  <2> QED
    BY <2>1 DEF AttemptSettles, IsCurrent
<1> QED
  BY <1>1, RecoveryInvariant, PTL DEF Spec, SupersededIsInert
=============================================================================
