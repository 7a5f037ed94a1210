------------------------- MODULE WatchdogRecovery -------------------------
(***************************************************************************)
(* Crash recovery of the watchdog (lib/server/watchdog-crash-recovery.js)  *)
(* with the attempt it makes and the operations it shares the gateway with *)
(* (lib/server/watchdog.js): repair, structural repair, the config medic,  *)
(* and route work such as env_sync that takes only the lifecycle lock.     *)
(*                                                                         *)
(* A crash is an obligation: one current record, one cancellable delay, at *)
(* most one dispatch.  state.operationInProgress is the watchdog's own     *)
(* flag beside the lock.  The lock is LifecycleLock seen through its       *)
(* abstraction FifoMutex: an owner, turns that wait, and a lease that may  *)
(* end a hold while its holder is still at work.                           *)
(***************************************************************************)
EXTENDS Integers

CONSTANTS MaxRecord, \* bound: crashes that make a record
          MaxSeq     \* bound: successors observed (state.servingSeq)

ASSUME BoundsAssumption == MaxRecord \in Nat \ {0} /\ MaxSeq \in Nat

\* Operations other than the crash relaunch.  Medic and env queue for the lock.
Actor == {"repair", "structural", "medic", "env"}
Queues == {"medic", "env"}
NoOwner == "none"
NoRecord == 0
Record == 1..MaxRecord

VARIABLES
  servingSeq,  \* state.servingSeq: generation of the serving gateway
  made,        \* records made so far; the newest has this number
  current,     \* the record that carries the obligation
  recSeq,      \* servingSeq captured by each record
  timers,      \* records whose delay is armed
  inFlight,    \* the record being dispatched
  attempt,     \* the dispatch: none, working, or its result
  owner,       \* owner of the lifecycle lock
  pc,          \* what each other actor is doing
  operationInProgress

recoveryVars == <<servingSeq, made, current, recSeq, timers, inFlight, attempt>>
vars == <<servingSeq, made, current, recSeq, timers, inFlight, attempt,
          owner, pc, operationInProgress>>

TypeOK ==
  /\ servingSeq \in 0..MaxSeq
  /\ made \in 0..MaxRecord
  /\ current \in 0..made
  /\ recSeq \in [Record -> 0..MaxSeq]
  /\ timers \subseteq Record
  /\ inFlight \in 0..made
  /\ attempt \in {"none", "working", "retry", "launched"}
  /\ owner \in Actor \cup {"crash", NoOwner}
  /\ pc \in [Actor -> {"idle", "waiting", "admitting", "working", "releasing"}]
  /\ operationInProgress \in BOOLEAN

Init ==
  /\ servingSeq = 0 /\ made = 0 /\ current = NoRecord
  /\ recSeq = [r \in Record |-> 0]
  /\ timers = {} /\ inFlight = NoRecord /\ attempt = "none"
  /\ owner = NoOwner
  /\ pc = [a \in Actor |-> "idle"]
  /\ operationInProgress = FALSE

IsCurrent(r) == current = r /\ servingSeq = recSeq[r]

\* tryAcquire() succeeds: no owner and no turn pending.
LockFree == owner = NoOwner /\ \A a \in Actor : pc[a] # "waiting"

----------------------------------------------------------------------------
(* The coordinator. *)

\* run(r), one synchronous step: admission is read, and refuses for good
\* (stopped, paused, crash loop), defers, or the attempt starts.  `ts` are the
\* delays left armed by the caller.  The attempt tries the lock at once.
Run(r, ts) ==
  \/ /\ current' = NoRecord /\ timers' = ts
     /\ UNCHANGED <<inFlight, attempt, owner, operationInProgress>>
  \/ /\ current' = r /\ timers' = ts \cup {r}
     /\ UNCHANGED <<inFlight, attempt, owner, operationInProgress>>
  \/ /\ inFlight = NoRecord /\ ~operationInProgress
     /\ current' = r /\ timers' = ts /\ inFlight' = r
     /\ IF LockFree
        THEN attempt' = "working" /\ owner' = "crash" /\ operationInProgress' = TRUE
        ELSE attempt' = "retry" /\ UNCHANGED <<owner, operationInProgress>>

\* Mutant: the generation is captured one launch ahead.
RequestAhead ==
  /\ made < MaxRecord
  /\ made' = made + 1 /\ current' = made + 1
  /\ recSeq' = [recSeq EXCEPT ![made + 1] = servingSeq + 1]
  /\ timers' = (timers \ {current}) \cup {made + 1}
  /\ UNCHANGED <<servingSeq, inFlight, attempt, owner, pc, operationInProgress>>

\* request() that makes a record: what was current is superseded and its delay
\* aborted; the new record is delayed or run at once.
Request ==
  /\ made < MaxRecord
  /\ LET r == made + 1
         ts == timers \ {current}
     IN /\ made' = r
        /\ recSeq' = [recSeq EXCEPT ![r] = servingSeq]
        /\ \/ /\ current' = r /\ timers' = ts \cup {r}
              /\ UNCHANGED <<inFlight, attempt, owner, operationInProgress>>
           \/ Run(r, ts)
  /\ UNCHANGED <<servingSeq, pc>>

\* A delay elapses.
DelayElapses(r) ==
  /\ r \in timers
  /\ IF IsCurrent(r)
     THEN Run(r, timers \ {r})
     ELSE /\ timers' = timers \ {r}
          /\ UNCHANGED <<current, inFlight, attempt, owner, operationInProgress>>
  /\ UNCHANGED <<servingSeq, made, recSeq, pc>>

\* cancel(): stop, pause, configuration error, crash loop, verified recovery.
Cancel ==
  /\ current # NoRecord
  /\ current' = NoRecord /\ timers' = timers \ {current}
  /\ UNCHANGED <<servingSeq, made, recSeq, inFlight, attempt, owner, pc,
                 operationInProgress>>

\* Mutant: the generation moves on and the obligation is not cancelled.
SuccessorObservedSilently ==
  /\ servingSeq < MaxSeq
  /\ servingSeq' = servingSeq + 1
  /\ UNCHANGED <<current, timers, made, recSeq, inFlight, attempt, owner, pc,
                 operationInProgress>>

\* A launch notification for a new gateway: cancel, then the generation moves.
SuccessorObserved ==
  /\ servingSeq < MaxSeq
  /\ servingSeq' = servingSeq + 1
  /\ current' = NoRecord /\ timers' = timers \ {current}
  /\ UNCHANGED <<made, recSeq, inFlight, attempt, owner, pc, operationInProgress>>

\* The relaunch returns its verdict.  `finally`: release the lock if it is still
\* ours; clear the flag unless somebody else owns the lock by then.
AttemptReturns ==
  /\ attempt = "working"
  /\ attempt' \in {"retry", "launched"}
  /\ owner' = IF owner = "crash" THEN NoOwner ELSE owner
  /\ operationInProgress' = (operationInProgress /\ owner \notin {"crash", NoOwner})
  /\ UNCHANGED <<servingSeq, made, current, recSeq, timers, inFlight, pc>>

\* Mutant: the continuation settles whatever record is current by now.
AttemptSettlesAnything ==
  /\ attempt \in {"retry", "launched"}
  /\ inFlight' = NoRecord /\ attempt' = "none"
  /\ IF attempt = "retry"
     THEN timers' = timers \cup {inFlight} /\ UNCHANGED current
     ELSE current' = NoRecord /\ timers' = timers \ {current}
  /\ UNCHANGED <<servingSeq, made, recSeq, owner, pc, operationInProgress>>

\* The continuation of `await attempt(...)`: nothing if the record has been
\* superseded, else retry or settle; the dispatch slot is freed.
AttemptSettles ==
  /\ attempt \in {"retry", "launched"}
  /\ inFlight' = NoRecord /\ attempt' = "none"
  /\ IF ~IsCurrent(inFlight) THEN UNCHANGED <<current, timers>>
     ELSE IF attempt = "retry"
     THEN timers' = timers \cup {inFlight} /\ UNCHANGED current
     ELSE current' = NoRecord /\ UNCHANGED timers
  /\ UNCHANGED <<servingSeq, made, recSeq, owner, pc, operationInProgress>>

----------------------------------------------------------------------------
(* The operations that share the gateway. *)

\* A repair or structural repair tries the lock, unless an operation is in
\* progress.  A repair has more admission to pass before it raises the flag.
Starts(a) ==
  /\ a \notin Queues /\ pc[a] = "idle"
  /\ ~operationInProgress /\ LockFree
  /\ owner' = a
  /\ pc' = [pc EXCEPT ![a] = IF a = "structural" THEN "working" ELSE "admitting"]
  /\ operationInProgress' = (a = "structural")
  /\ UNCHANGED recoveryVars

\* The medic and the routes queue for the lock.
Waits(a) ==
  /\ a \in Queues /\ pc[a] = "idle"
  /\ pc' = [pc EXCEPT ![a] = "waiting"]
  /\ UNCHANGED <<recoveryVars, owner, operationInProgress>>

\* Their turn.  A route never touches the flag.
Granted(a) ==
  /\ pc[a] = "waiting" /\ owner = NoOwner
  /\ owner' = a
  /\ pc' = [pc EXCEPT ![a] = IF a = "env" THEN "working" ELSE "admitting"]
  /\ UNCHANGED <<recoveryVars, operationInProgress>>

\* A repair or a medic passes its admission and raises the flag: the box lock
\* was awaited meanwhile, and nobody looks at the lease.
Begins(a) ==
  /\ pc[a] = "admitting"
  /\ pc' = [pc EXCEPT ![a] = "working"]
  /\ operationInProgress' = TRUE
  /\ UNCHANGED <<recoveryVars, owner>>

\* It does not (refused, superseded, or the wait had been given up).
Declines(a) ==
  /\ pc[a] = "admitting"
  /\ pc' = [pc EXCEPT ![a] = "idle"]
  /\ owner' = IF owner = a THEN NoOwner ELSE owner
  /\ UNCHANGED <<recoveryVars, operationInProgress>>

\* The lease of the owner fires (a repair's once its writers have drained); the
\* holder is still at work and finds out at its next check.
LeaseFires ==
  /\ owner # NoOwner
  /\ owner' = NoOwner
  /\ UNCHANGED <<recoveryVars, pc, operationInProgress>>

\* finishRepairOperation(): the flag is cleared, unless another operation owns
\* the lock, before the release.
Finishes(a) ==
  /\ a \in {"repair", "medic"} /\ pc[a] = "working"
  /\ operationInProgress' = (operationInProgress /\ owner \notin {a, NoOwner})
  /\ pc' = [pc EXCEPT ![a] = "releasing"]
  /\ UNCHANGED <<recoveryVars, owner>>

Releases(a) ==
  /\ pc[a] = "releasing" \/ (a = "env" /\ pc[a] = "working")
  /\ owner' = IF owner = a THEN NoOwner ELSE owner
  /\ pc' = [pc EXCEPT ![a] = "idle"]
  /\ UNCHANGED <<recoveryVars, operationInProgress>>

\* The `finally` of a structural repair clears the flag whoever owns the lock.
StructuralEnds ==
  /\ pc["structural"] = "working"
  /\ owner' = IF owner = "structural" THEN NoOwner ELSE owner
  /\ pc' = [pc EXCEPT !["structural"] = "idle"]
  /\ operationInProgress' = FALSE
  /\ UNCHANGED recoveryVars

----------------------------------------------------------------------------
Next ==
  \/ Request \/ Cancel \/ SuccessorObserved \/ AttemptReturns \/ AttemptSettles
  \/ \E r \in Record : DelayElapses(r)
  \/ \E a \in Actor : Starts(a) \/ Waits(a) \/ Granted(a) \/ Begins(a)
                       \/ Declines(a) \/ Finishes(a) \/ Releases(a)
  \/ LeaseFires \/ StructuralEnds

Spec == Init /\ [][Next]_vars

----------------------------------------------------------------------------
\* A pending crash is never stranded, and never has two continuations: as long
\* as it is current it is either being dispatched or waiting behind the one armed
\* delay, through superseding requests, stale dispatches and moved generations.
ObligationNeverStranded ==
  timers = IF current # NoRecord /\ inFlight # current THEN {current} ELSE {}

\* A dispatch whose record was superseded while it ran frees the slot and does
\* nothing to the obligation that replaced it.
SupersededIsInert ==
  [][inFlight # NoRecord /\ inFlight' # inFlight /\ current # inFlight
       => UNCHANGED <<current, timers>>]_vars

\* The flag names an operation ("a gateway lifecycle operation is in progress",
\* and what recovery and repair defer to): it is not left up, with the gateway
\* idle, by a relaunch whose lock another operation owned when it returned.
FlagNamesAnOperation ==
  operationInProgress =>
    attempt = "working" \/ \E a \in Actor : pc[a] \notin {"idle", "waiting"}

\* A medic run holds operationInProgress for its whole run.
MedicHoldsFlag ==
  pc["medic"] = "working" /\ owner = "medic" => operationInProgress

==========================================================================
