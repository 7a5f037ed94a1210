# AlphaClaw in TLA+

AlphaClaw is a server that supervises an AI agent gateway (OpenClaw): it starts
and restarts the gateway process, watches its health, repairs it, bridges a
browser chat to it, keeps sidecar processes and Gmail watches alive, and updates
itself through a hosting provider. This directory holds TLA+ models of the parts
where the order of events decides correctness, the TLC configurations that check
them on small instances, and TLAPS proofs for every value of the constants.

## 1. Inventory

Paths are under `src/lib/server/` unless they start with `lib/`.

| Part | Source | State | Operations |
|---|---|---|---|
| Lifecycle lock | `gateway-lifecycle-lock.js` | active hold, promise chain of turns, pending count; per hold: lease, settled, releasing, cleanup phase | `acquire`, `tryAcquire`, `release`, lease timer, cleanup timer, `cancelActiveCleanup` |
| Repair operation | `repair-operation.js` | abort signal, sealed flag, deadline, set of writers | `start`, `cancel`, `assertActive`, `runWriter`, `finishWork`, `cleanup.wait` |
| Crash recovery | `watchdog-crash-recovery.js` | the current record, its delay, the record in flight | `request`, `schedule`, `run`, `retry`, `cancel` |
| Watchdog | `watchdog.js` | lifecycle, health, `servingSeq`, `operationInProgress`, latches | probes, exits, launches, repair, structural repair, config medic, relaunch |
| Chat bridge | `chat/*.js` | registry of live records, early-event buffer, gateway socket and its pending requests | message, stop, resume and history frames; gateway events; disconnect; stall sweep |
| Chat run store | `db/chat-runs/` | one SQLite row per message | `claimSend`, `markRunning`, `markTerminal`, boot reconciliation, prune |
| Chat client | `lib/public/js/components/chat/` | outbox in browser storage, run state per session | enqueue, flush, ack, requeue, retry, merge across tabs |
| Managed updates | `managed-update-attempts.js`, `managed-update-request.js` | one durable attempt, pending audit entries, the POST under way | begin, response, recover, resolve, flush of the audit |
| Gmail operations | `gmail-account-operations.js`, `gmail-watch-lifecycle.js`, `gmail-serve.js` | a lane per account: active, pending, generation; the watch on file; the serve child | start, renew, stop, disconnect, restore, retry |
| Notify outbox | `notify-outbox.js`, `upgrade-notifier.js` | events in a file, backoff, tombstones | enqueue, flush, retire, expiry |
| Browser API cache | `lib/public/js/lib/api-cache.js` | entries, requests in flight, generations | fetch, forced fetch, write, invalidate |
| File lock | `utils/safe-file.js` | `<file>.lock`, shared by server and CLI | lock, unlock, break a stale lock |
| Sidecars | `sidecars/supervisor.js`, `sidecars/index.js` | wanted, run number, child, backoff, crash loop; pids on file | start, stop, restart, exit, check, boot cleanup |
| Restart-required state | `restart-required-state.js`, `restart-required-flag.js` and callers | pending reasons, a cross-process flag, a schedule, the restart record | mark, begin, complete, launch clear, recovery poll, boot |
| Gateway process control | `gateway.js` | the child slot, the launch generation | request a launch, guard, spawn, exit, reap |
| Process identity | `box-lock.js`, `server-pidfile.js`, `boot-instance-guard.js` | lock and pid files | acquire, judge a claim, release |
| Others | login throttle, team auth transition, doctor, relay, cron, session list, CLI, user interface | | |

How they interact. Everything that mutates the gateway takes the lifecycle lock: routes
queue with `acquire`, timers skip with `tryAcquire`. A repair's hold carries a repair
operation, whose writers keep the lock past its lease. The watchdog turns a crash into an
obligation (crash recovery) whose dispatch tries the lock; beside the lock it keeps
`operationInProgress`, which admission of recovery and repair reads. Independently, a
browser frame reaches the chat bridge, which claims a row in the store, registers a
record, and sends `chat.send`; the answer, the run's events, timers, stops and the
connection's death race to end the record. In the browser, the outbox keeps each message
until such an answer releases it. A change of configuration marks a restart as required;
the restart takes the lifecycle lock, launches through gateway process control, and its
completion clears the marks. The file lock serializes the small JSON files that the server
and the CLI both write. The notices of all parts go out through the notify outbox.

What is hard, and what correctness means for each:

* **Lifecycle lock.** JavaScript runs one callback at a time, but every `await` and every
  `.then` is a point where others run: between a release and the microtask in which the
  next turn takes the lock, `active` is null. Leases end holds whose holders are still at
  work and release again later. Correct: one owner; a repair is never displaced while it
  writes; queued callers are served, in order; nobody is told it need not wait and waits.
* **Crash recovery.** Records are superseded while their delay is armed or their dispatch
  runs. Correct: a pending crash always has exactly one continuation, and a stale
  continuation changes nothing.
* **Watchdog.** Two records of "something is at work" (flag and lock). Correct: they agree.
* **Chat bridge.** At-most-once sends over a connection that loses answers, with a store
  whose writes may fail, restarts at any point, and a client that retries. Correct: no
  message is sent twice, "not submitted" is true whenever it is said, every record ends,
  and ends once.
* **Chat client.** Acks, timeouts, disconnects, reloads and a storage that may fail, in any
  order. Correct: a typed message is never lost, and what may have been sent is marked as
  such before the frame is written; a send does not block its session for ever.
* **Managed updates.** Crashes between two file writes and a provider that may take a
  request whose answer is lost. Correct: one deployment at a time unless a human looked
  into it, and a complete audit that always has room.
* **Notify outbox.** A flush awaits deliveries between its read and its write. Correct: no
  delivery is forgotten or repeated, losses are reported, closed notices are not sent, and
  every queued notice ends.
* **Gmail, sidecars.** Superseded operations whose late continuations meet their
  successors; requests that nothing serializes; children that outlive the server. Correct:
  nothing that runs is forgotten, nothing that is wanted stays down, nothing runs twice (of
  sidecars the code loses some, see `sidecar_twice`).
* **Restart-required state, gateway launches.** Facts read before an await and used after
  it. Correct: no clear takes a change the new gateway has not read; there is one gateway,
  and the server holds it.
* **Browser cache, file lock.** Answers and processes that come late. Correct: no answer
  older than a write or a forced read; one holder.

`PROJECT.json` lists these hazards at their lines, with the properties that cover them.

## 2. Plan

Done, in this order:

1. `LifecycleLock` (with the repair operation), abstract specification `FifoMutex`.
2. `WatchdogRecovery`: crash recovery composed with the other users of the lock; here the
   lock is its abstraction, which step 1 justifies.
3. `ChatSend`: send path, registry, store and gateway connection; abstract specification
   `SendOnce`.
4. `ChatOutbox`: the browser's half, over frames that are lost with the socket, against the
   bridge at the grain of `ChatSend`.
5. `ManagedUpdate`, `NotifyOutbox`, `FileLock`: durable state across crashes.
6. `GmailWatch`, `SidecarSupervisor`, `ApiCache`: superseded work and late answers; abstract
   specification `ReadYourWrites` of the cache.
7. `RestartRequired`, `GatewayLaunch`: what a restart clears, and who spawns.
8. Proofs of all of these: types, every safety invariant and action property of the passing
   runs, the three refinements, and that what `services` checks holds in the composition
   `MCServices`.
9. Proofs of the safety cores of the liveness properties: what the code would have to leave
   behind to be stuck, it never leaves behind.

Left, most important first:

* The watchdog's probe fences and its pending-replacement obligation (`watchdog.js`): a
  pending replacement resolves exactly once, never on evidence of the old process.
* Row eviction in `ChatSend` together with the outbox's evidence flag; two tabs.
* The server pid file and boot guard, then the box lock.
* Resume and replay of stream frames (cursor arithmetic over bounded inputs).
* Login throttle and team auth transition.

## 3. Modules

### LifecycleLock

One element of `Op` is one call of `acquire` or `tryAcquire` with the hold it makes; hold
ids are never reused and neither is an `Op`. `Repair` are the calls made with `{cleanup}`,
`Writer` the calls of `runWriter`, `RepairOf` the operation each belongs to.

| Model | Code |
|---|---|
| `active`, `pendingTurns` | the variables of that name |
| `chain` | the promises linked behind `queueTail` that have not resolved |
| `hold[o]` | `settled`, `releasing` and `hold.phase` of a hold in one value; `queued` before it exists |
| `expired`, `told` | `isExpired()`; whether `onQueued` fired |
| `aborted`, `sealed`, `draining`, `writer` | `controller.signal.aborted`, `sealed`, a running `cleanup.wait()`, the `writers` set |
| `Acquire` / `TurnRuns` / `LinkResolves` | the synchronous part of `acquire`; the turn's continuation; a link's `released` resolving |
| `TryAcquire` | `tryAcquire` when it returns a hold (when it returns null nothing changes) |
| `Release`, `LeaseFires`, `CleanupBlocks` | `release()`, the two timers |
| `DrainStarts`, `DrainEnds` | the `.then(() => cleanup.wait())` microtask; the drained loop and `finish` |
| `Cancel`, `FinishWork`, `ShutdownCancels` | deadline, signal or completion; sealing; `cancelActiveCleanup` |
| `RegisterWriter`, `StartWriter`, `EndWriter` | `runWriter`: the synchronous half, the microtask that re-checks and starts `work`, its end |

Time is abstracted: an armed timer may fire at any moment. The names `LockInit`, `LockNext`,
`LockSpec`, `LockFairSpec` and `LockTypeOK` leave the plain ones to `ChatSend`, which
`MCCore` extends beside this module.

`FifoMutex` is what the lock promises: an owner, a queue, holds that are done; a grant
serves the queue's head, a direct grant only when nobody waits. `ImplementsFifoMutex`
maps `active` to the owner and the queued part of `chain` to the queue.

### WatchdogRecovery

`current`, `inFlight`, `timers`, `recSeq` are the coordinator's variables (`timers` the
records whose delay is armed); `attempt` is the promise returned by `attempt(...)`;
`owner` and `pc` stand for the lifecycle lock and the other operations that use it.
`Run` is `run(record)` up to its first await: refuse for good, defer with a retry, or
dispatch. What admission answers is left open, except for the parts the model has
(`inFlight`, `operationInProgress`). `AttemptReturns` is the `finally` block of the
relaunch, `AttemptSettles` the continuation after `await attempt`. Repair, structural
repair, medic and a route (`env`) take the lock, raise the flag and lower it each in the
way its own code does: `Starts`, `Waits`, `Granted`, `Begins`, `Declines`, `Finishes`,
`Releases`, `StructuralEnds`. `LeaseFires` ends a hold under its holder.

### ChatSend

A message is a `clientMsgId` sent to `SessionOf[m]`. `rec` is the registry (lost at a
restart), `row` the durable row, `rpc` the pending `chat.send`, `ev` the run's end event,
`told` the last thing a browser heard about the message. `handler` are runs of
`handleMessage` that await the session policy: everything else in that function up to the
request is one synchronous step (`Admit`). `gw`, `accepted` and `aborting` are the gateway,
which is external: it may accept or refuse a written frame at any time, also after the
request timed out.

* A storage failure is a choice: a read that fails answers `unknown`, a claim that fails
  answers `notSent` (or `unknown` for a retry), a terminal that is not written leaves the row.
* `Settle` is `finalizeAndEmit`. `Report` is what it tells the browser, including the rule
  that an unwritten non-submission is not claimed.
* `early` and `late` count overlapping aborts of one record (asked for before and after
  the run id was known), since their answers come in any order.
* `confirmed` is a history variable; no action reads it.
* `Disconnect` performs the rejections and the interruptions in one step: the
  continuations of the rejections run as microtasks of the same turn, before any other frame.

`SendOnce` is the promise: `times[m]` grows at most once, and a message that is `denied`
is not accepted while the denial stands. `ImplementsSendOnce` maps `accepted` and the
messages told `notSent` to it.

### ChatOutbox

One tab and one session; messages are numbered in the order they are typed, copies sent
again included. `tab` is the page: its items, what it last wrote to storage (`disk`), and
the run state that gates flushing; every callback of the page is one step. `upFrames` and
`downFrames` are the socket, in order and lost with it; `bridge` is the durable row and the
live record of each message, `taken` counts what the gateway took. `Type`, `Retry`, `Drop`,
`ConfirmFlush`, `Reload`, `FlushTick` are the user and the timers; `SocketCloses`,
`SocketReady`, `HistoryArrives`, `FrameReceived` what the connection does; `FrameHandled`,
`GatewayTakes`, `GatewayRefuses`, `SendUnanswered`, `RunFinishes`, `BridgeRestarts` the
bridge's answers, those of `ChatSend`.

History confirms an item by a row of its text (`Confirms`). mergeHistory() says that
"identical texts can't cross-confirm" (`transcript-store.js:138-141`); this is so within one
merge, where a row is consumed once. Over two merges, or when the window holds the row of
one message only, a row of the first of two equal messages can confirm the second, within
the skew of the times, which the model leaves open. `TextIsKept` (a message leaves the
outbox only if the gateway took it, the user dropped it, or the storage failed) is therefore
false for equal texts: the run `chat_twins` shows it. What holds for any texts is
`TextIsTaken`, which is checked and proved: the gateway took a message of that text.

### ManagedUpdate

`managedAttempt` and `pendingAudit` are one file, replaced atomically; `audited` is the
watchdog database; `posting` and `updating` belong to the process. `Begin` writes the
attempt before the POST, `ResponseArrives` is the continuation after it, `StatusRead`
recovers an attempt that a dead process left submitting, `OperatorResolves` ends an unknown
one, `ServerRestarts` forgets what is in memory. Every write first flushes what the audit
still owes (`FlushAudit`) and may fail; `provider` is external, and keeps a request whose
answer is lost.

### NotifyOutbox

`noticeFile` is the outbox file, `flush` the snapshot, work and updates of a run of
`flush()`. `Proceed` is its loop from one await to the next: the age-out sweep, the matchers
of `retire()`, the next send, or the merge of the updates onto a fresh read. `DeliveryEnds`
enumerates what `deliver()` resolves to. `Enqueue`, `Retire` and `NotifierDies` may come at
any await. `alarmed`, `overtaken` are histories.

### FileLock

Each system call of `withFileLockSync` and `tryBreakStaleLock` is a step, and a process may
die at any of them. `locking[p]` is where it is, `lockFile` what the path names. `examined`
and `missed` are histories: who found the file of now stale, and whether a waiter's rename
took another file than the one it had found stale.

The comment at `safe-file.js:189-195` promises that two waiters never break one lock and both
acquire it. `LockHasOneHolder` states that, and it does not hold: the rename takes whatever
the path names by then, which may be the lock of a waiter that was faster. TLC reaches two
holders after 13 states, once a live waiter is suspended between its judgement and its
rename; this is recorded here and has no run. What does hold, with locks of dead holders
being broken all the time, is `StaleBreakingExcludes`: until a rename takes a file that its
waiter did not examine (`missed`), there is one holder, and the file under the path is its own.

### ApiCache

One key. `calls` are the requests with the version each read, `currentFetch` the one of the
current generation, `cached` and `error` the entry. `ServerAnswers`, `ResponseArrivesFor` and
`RequestCleanup` are apart, so that answers settle in any order. How old an entry may be is
each caller's to say (`usePolling.js:21` accepts none), so any entry may be too old, and
whoever is given the request in flight waits for it. `required` is the version that the last
write or forced read made due, `joined[r]` what was due when the last caller was given
request `r`; sharing records it as a request of one's own does.

`setCached()` stores what its caller holds: the answer to a mutation, that of an earlier GET
(`use-saved-setting.js:126`), or a change merged into an older document
(`use-managed-update-attempt.js:23`). `SetCached` therefore stores any version the server has
had, and the cache may go back to an older answer by a write of the page; nothing in
`api-cache.js` prevents that, and no property denies it. `CallerSeesWrites` speaks of the
requests, whose answers are what a caller that waits is given.

`ReadYourWrites` is what the cache promises by itself: an answer that it keeps is no older
than the page's last write or forced read, nor than what it replaces; only `Write`, of the
page, may keep something older. `ImplementsReadYourWrites` maps `cached` to what is kept and
`required` to what is due.

### SidecarSupervisor

One sidecar, plain or forking. A launch takes an element of `Copy`, which stands for
`runSeq`, the child and its pid; `thread` is where the asynchronous work of a forking
sidecar is, `commands` the stop, restart and shutdown requests under way, `pids` the pid the
process holds and `pidFile` the one on file. The server may die at any point (`service`), and
what it started stays.

Nothing serializes the requests (`routes/sidecars.js:33-35`), so `StartRequested` and
`StopRequested` are always open, also while another request, a launch or the boot's cleanup
waits; `AutoStart` waits for that cleanup and for nothing else. The spawn and the write of
its record are one synchronous step of `launch()`. With `RecordsFail` the write may fail,
which also stands for a server that dies between the two: in both cases the child runs and
the file keeps the old pid. `lost` is the history of the copies that run without a record:
their write failed, or the end of a stop (`StopEnds`) or of the boot's cleanup
(`BootCleansUp`) that their launch overtook removed it, or they were being stopped when the
server died.

`RunningIsAccounted`: what runs is on record, or a leftover being cleaned up, or being
stopped, or lost in one of these ways. So no order of exits, backoffs, superseded launches
and restarts loses a child in another way. `NeverStranded`: what is to be restarted has a
run or a timer. That nothing runs twice (`sidecars/index.js:23-27`) does not hold: see
`sidecar_twice`. Another effect of an overtaken stop, which no property speaks of: `StopEnds`
shows `stopped` for a sidecar that a later start launched and that is wanted, after which
start() takes it for one that runs.

### GmailWatch

One account. `watch` is what the state file says, `remote` what Google has, `serve` the
child of this process and `orphan` one of an earlier process; `lane` is the account's
operation queue with the snapshot an operation took when it was accepted. Remote calls may
fail or be superseded while awaited.

prepare() of a start or a renewal cancels the restart timer first and may then throw
(`gmail-watch-lifecycle.js:144-147`: no port, no permission, no hook, a failed write).
`StartRefused` is that path: an enabled watch whose child is gone is then neither served nor
due, and nothing tries again. A restore may come to nothing in the same way
(`RestoreFails`: no `WEBHOOK_TOKEN`, no port, a `startServe` that throws), or yield to an
operation that has the lane (`RestoreYields`); a failed renewal leaves a child that exited
down (`FailStart`). The history `unserved` says that this was the last thing that happened
to the serving of the watch, and `LatestIntentWins` has it as the one exception: an enabled
watch is otherwise served or about to be.

### RestartRequired

`reasons` and `flag` are the pending codes and the cross-process flag; of a mark's time only
its order to the latest spawn is kept (`old`, `new`). `record` is the restart record, `route`
the route that runs it, `poll` the recovery check across its await, `awaited` the clear a
launch owes. `fresh` is the history of changes since the latest spawn. Reading the code for
it also showed, without a run here: `markRecovered` clears a code of its snapshot without
adopting a newer CLI flag of that code; `markRequired` overwrites a CLI flag of another code
that was not adopted yet; and a CLI mark of a code already pending does not reset
`sawGatewayDownSincePending`.

### GatewayLaunch

`at[c]` is where each caller (boot, verified relaunch, cold restart) is in
`requestGatewayLaunch` and its guards; `child[g]` is the process of launch generation `g`;
`slot` is `gatewayChild`; `incumbent` a gateway of someone else on the port. A lease that
ends (`LeaseEnds`) leaves the caller running behind its fence, which it reads only where the
code does. `BootOverruns` says whether the boot, which has no fence, may outlive its lease.
It is FALSE in the run and a premise of `OneGatewayIsHeld` (not of `LaunchTypes`), which no
code enforces, since `startGateway()` (startup.js:329) reads no fence: a boot that was
suspended in its port probe past its lease would spawn beside the gateway of its successor.

### MCServices, MCLive and MCCore

The ten modules from `WatchdogRecovery` to `GatewayLaunch` share no state. `MCServices`
extends them all; the variable `component`, chosen in the initial state, says which one
moves, and the others keep their initial values, so that the states are the sum and not the
product of theirs. `MCLive` does the same for the four with liveness properties, whose
fairness is conditional on being the chosen one, and `MCCore` for the lock and the chat
bridge, with and without fairness. `MCChatSend` and `MCChatOutbox` are the instances of the
runs that find a violation in the chat.

## 4. Runs

| Run | Instance | Shows |
|---|---|---|
| `core` | lock: 2 plain operations, 2 repairs, 2 writers of one repair; chat: 2 messages of one session, 2 handlers | mutual exclusion, writers keep the lock, honest notices, a queue that never stalls, authority; at most once, durable evidence, honest "not sent", one active record, final outcomes, refinement of `SendOnce` |
| `core_live` | lock: 3 operations, 2 of them repairs, 1 writer; chat: 2 messages, 1 handler; fairness | queued acquires are granted, expired holds settle, refinement of `FifoMutex`; every record ends |
| `services` | the ten components of `MCServices`, bounds below | their safety, see the next table |
| `live` | file lock, outbox, managed update, chat outbox, fairness | dead locks are broken, queued notices end, submitting ends, pending sends end |
| `watchdog_flag`, `watchdog_medic` | 1 record | counterexamples, below |
| `chat_orphan`, `chat_readonly`, `chat_stop` | 2 messages, 1 or 2 handlers | counterexamples, below |
| `restart_midrun` | 2 codes | counterexample, below |
| `sidecar_twice` | 3 launches, 2 requests | counterexample, below |
| `chat_twins` | 2 messages of one text | counterexample, below |

`services`, by component:

| Component | Bounds | Properties |
|---|---|---|
| crash recovery | 3 records, 2 launches, 4 other actors | `ObligationNeverStranded`, `SupersededIsInert` |
| file lock | 3 processes: a holder and two that judge it | `StaleBreakingExcludes` |
| notify outbox | 2 notices, one an overseer's; cap 2 (cap 1, hence eviction, in `live`) | `LossIsReported`, `RetiredIsNeverSent`, `NoticesAreKept` |
| managed update | 2 attempts; the audit holds 3, the least that `begin()` accepts | `ProviderHoldsOne`, `AuditIsComplete` |
| chat outbox | 1 message, 1 automatic retry, 1 answer behind another frame | `TextIsTaken`, `InflightIsMarked` |
| API cache | 3 requests, 1 change of the data | `ImplementsReadYourWrites`, `CallerSeesWrites` |
| sidecar | 2 copies, 1 stop, restart or shutdown under way, with starts, launches and boots overlapping it; crash loop at 2 exits; writes of the pid file that fail | `RunningIsAccounted`, `NeverStranded` |
| Gmail watch | 1 account | `RemoteIsNotForgotten`, `LatestIntentWins` |
| restart-required | 2 codes | `ClearsKeepLaterChanges` |
| gateway launch | 2 children, all three callers | `LiveChildIsHeld` |

with `ServicesTypeOK` for the types of all.

Bounds. `LifecycleLock` needs a holder, a waiter, a third that may overtake, and a repair
with two writers in different stages; four operations give every pair of kinds in every
order. `WatchdogRecovery` bounds crashes (`MaxRecord`) and launches (`MaxSeq`): three
records are one in flight, one superseded, one current. `ChatSend` has no counter to
bound; two messages of one session are what sessions, aborts and caps can confuse, and two
handlers are what can await together. Messages of one session, handlers and the writers of
the one repair are symmetric in `core`, which has no liveness property; the other passing
runs use no symmetry. Copies, requests and attempts are used again where the code forgets
them (`UnusedCopy`, free calls), so a small number does not end a behaviour. Two copies of a
sidecar are one that is being stopped, or is a leftover, and one that is launched beside it;
the violation run has a third. The outbox of notices evicts in `live` only (`KeepCount` 1):
two notices do not exceed the cap of 2 in `services`, so the clause of `NoticesAreKept`
about the cap is exercised by its proof, for any cap, and not there.

| Run | Distinct states | Time |
|---|---|---|
| `core` | 909,000 | 2.5 minutes |
| `core_live` | 128,000 | 2.5 minutes |
| `services` | 715,000 | 1.7 minutes |
| `live` | 67,000 | 1 minute |

Deadlock is checked in `core` and `core_live`. `services` and `live` turn it off because some
components really stop: all processes that use the file lock may have died, both children
of `GatewayLaunch` and both attempts may be spent.

The eight runs that find a violation each check one statement made by a comment of the code:

* `watchdog_flag`: the relaunch's `finally` (watchdog.js:6659) leaves the flag up when
  another operation owns the lock by then. If that operation never lowers it, recovery
  defers and repair is skipped from then on.
* `watchdog_medic`: a structural repair (watchdog.js:7772) lowers the flag unconditionally.
* `chat_orphan`: the abort of an orphaned answer (send-service.js:499) is session-wide and
  meets a newer run.
* `chat_readonly`: `previouslySubmitted()` is not read again after the policy await, so a
  sent message can be refused as read-only with `notSubmitted: true`.
* `chat_stop`: a stop in the send window makes two overlapping aborts; the failure of the
  first rolls back what the second confirmed.
* `restart_midrun`: a restart that succeeds clears the codes of its snapshot by code alone
  (restart-required-state.js:831); a change under such a code that was marked after the new
  gateway was spawned is cleared with it.
* `sidecar_twice`: the end of the boot's cleanup removes the whole pid file
  (sidecars/index.js:240-242), with the pid that a start requested meanwhile has recorded
  there; the next restart in place finds no pid and starts a fresh copy beside the one that
  runs, which the comment at sidecars/index.js:23-27 excludes. `StopsCompleteSpec` keeps the
  server from dying in the middle of a stop, and `RecordsFail` is FALSE: the run needs
  neither a lost write nor an interrupted stop.
* `chat_twins`: of two messages with one text the gateway took the first; history has its
  row, and confirms the second with it (transcript-store.js:214).

`NotSentIsTrue` therefore speaks of every "not submitted" answer except the read-only
refusal, which has its own property, and `ClearsKeepLaterChanges` of the codes outside the
snapshot.

## 5. Fairness

* Lock: promise continuations run (`TurnRuns`, `LinkResolves`, `DrainStarts`, `DrainEnds`,
  `StartWriter`) and armed timers fire (`LeaseFires`), which the event loop guarantees. A
  writer that started ends (`EndWriter`): its process group is killed after cancellation.
  No fairness for `Release`, so liveness does not rest on holders that behave.
* Chat: the connect attempt, the policy read and the request are timed, and the sweeper
  ends a silent run. `Stall` being fair says that a run ends or falls silent; a run that
  emits for ever is never ended by the code.
* File lock (`FileLockFairness`): system calls return, `fn()` ends, time passes, and the file
  is wanted again; no fairness for dying or giving up.
* Notices (`NotifyFairness`): the heartbeat starts flushes, a send has a timeout, deadlines
  pass. Nothing is assumed of the channels' answers: the deadline ends what they never take.
* Managed updates (`ManagedFairness`): the request has a timeout, and the status is polled.
  `RecoveringRead` is fair as the read that changes the attempt, which says that not every
  write of the file fails.
* Chat outbox (`OutboxFairness`): the tab ticks, an ack is waited for with a timeout
  (`AckTimesOut`), frames are read, requests and runs end. Sockets may close for ever.

## 6. Proofs

TLAPS proves, for any constants satisfying the named assumptions:

* `LifecycleLockProofs`: `LockTypeOK` and, by the invariant `IInv`, mutual exclusion, writer
  retention, honest notices and a queue that never stalls; the action property
  `AuthorityIsRespected` follows from the same invariant. Mutual exclusion and writer
  retention need only the types and each other: only `DrainEnds` settles a repair's hold,
  and no writer is live then. The queue needs more. `CountOK` says that `pendingTurns` is
  the number of queued acquires, so that `tryAcquire` skips exactly when somebody waits.
  `ChainOK` says that the chain holds every queued or owning hold once and nothing settled
  or owning behind a queued one, so that the owner, if any, is ahead of every turn. Hence
  `QueueDoesNotStall`: while somebody waits, the front of the chain is a settled link, a turn
  that finds the lock free, or the owner, whose lease is armed or whose repair drains.
  The refinement `ImplementsFifo` (the safety part of `ImplementsFifoMutex`) maps the waiting
  line to the last `pendingTurns` links of the chain, and needs that these are the queued
  acquires (`QueueIsSuffix`): then a turn that runs is at the head of the line, an acquire
  joins its end, a `tryAcquire` finds it empty, and every other step is a stutter.
  `Inductive` is the invariant, `TypeCorrect`, `LockIsExclusive`, `WritersRetainTheLock`,
  `NoticesAreHonest`, `QueueDoesNotStall` and `AuthorityHolds` its consequences.
* `GatewayProofs`, crash recovery: `ObligationNeverStranded` is inductive with the types and
  `RecordIsFenced`: a current record carries the current generation (every successor
  cancels first), so no delay or continuation finds it current but stale; and the dispatch
  slot is taken exactly while an attempt is under way. `CrashIsNeverStranded`,
  `StaleDispatchIsInert` and `RecoveryTypes` follow from this `RecoveryInv`.
* `ChatSendProofs`: `IInv` says for each record which phase goes with which flags and how
  many aborts may be awaited (`RecordOK`), and for each message (`MessageOK`) that a live
  record has a row that is not terminal, that a pending request has a row that forbids
  another send and has not been answered `notSent`, that a request still waiting for a
  connection has no frame at the gateway, and that only frames at the gateway were
  accepted, once each. At most once follows from the last, since a new frame needs a row
  that allows a send, hence no frame there. `SentAtMostOnce`, `EvidenceIsDurable`,
  `NotSentIsHonest`, `SessionsAreExclusive` and `OutcomesAreFinal` are consequences, and
  `KeepsThePromise` proves that every step is a step of `SendOnce` or a stutter.
  `NoRecordIsStranded`: a live record has an open request exactly while it has not started
  (`Attended`), so before its run something is always due to end it or to start it.
* `BrowserProofs`, the cache: an answer of the current generation was read after the last
  write or forced read (`CurrentIsNotOlder`), as both start a generation, and what was due to
  a caller is never beyond what the server has (`DueIsServed`). `CallersSeeWrites` follows.
  The refinement `KeepsReadYourWrites` needs more (`Monotone`): an answer of the current
  generation was read no earlier than whatever the cache has kept since, what a write of the
  page put there included, so that every step is a step of `ReadYourWrites` or a stutter.
* `BrowserProofs`, the outbox: the stored copy of a send in flight says that it may have been
  sent, and what is stored is settled otherwise (`Held`); every item is stored unless the
  storage failed (`Covered`). `Good(t, K)` says this of a tab `t` that has the items `K`, and
  the lemmas carry it through the updates, writes and ticks of one callback, in the order of
  the code: no step of a tick removes an item, so only a drop, a terminal frame, or a row of
  history does. A terminal frame names a message the gateway took, a row has its text. Hence
  `InflightStaysMarked` and `TextsAreTaken`, for any texts. `PendingSendIsAnswered`: a send
  that blocks the queue has its frame unread on the open socket, or a pending record that the
  socket is attached to, or an answer other than the ack on its way to the tab
  (`SendIsAwaited`). Each step of the bridge turns one of these into the next, and
  `ReceivedRun` says that the tab reads no such answer without ending the wait.
* `ServiceProofs`, the file lock: a lock file is that of a process that is inside or died
  there (`FileIsOfHolder`); who found the file of now stale found it old, and judged that its
  holder is dead (`ExaminedIsStale`). So a rename of an examined file takes the lock from
  nobody who is inside: `StaleBreakersAreAlone`, for any number of breakings.
* `ServiceProofs`, Gmail: while an operation has the lane the record says pending, and when
  none has it does not, unless the service stops (`PendingIsRecorded`); so a watch that
  Google may hold is never on record as off and settled well (`RemoteIsRecorded`). An
  operation that was superseded before it ended finds its successor in the lane
  (`LaneIsOrderly`), which is what makes leaving the record to the successor right.
  `RemoteIsAlwaysRecorded` follows. The child of a watch that is on is this process's
  (`EnabledIsOwn`); a watch that is on under an operation was on when the operation, and the
  one that waits, were accepted, so no start that is undone leaves it on (`OnSinceAccepted`);
  and when the lane is idle it is served, due, or `unserved` (`WatchIsServed`).
  `TheLatestIntentWins` adds that the operation accepted last is what was last asked for
  (`LaneAgrees`), and that no record shows success against it or enables a watch that is
  asked to be off (`Agrees`); an operation that was overtaken leaves the record to the
  latest.
* `ServiceProofs`, sidecars: a copy that runs, is not being stopped, left over or `lost`
  (`OnRecordOnly`) is on record and is the current run, wanted and with no timer armed
  (`OnRecordIsCurrent`), which is why no request launches another over it; a backoff timer
  follows a run that is over (`WakingFollowsEnd`); what the boot cleans up is not what this
  process launched (`LeftoverIsOld`); only a request that waits has a copy to wait for
  (`WaitingIsForCopy`); and processes are of simple sidecars, commands of forking ones
  (`KindsAreApart`). `RunningCopiesAreAccounted` and `WantedIsNeverStranded` follow, for any
  number of copies and of requests that overlap, with no premise.
* `ManagedUpdateProofs`: what the provider may deploy belongs to the blocking attempt or was
  resolved (`HeldBlocksOrIsResolved`), hence `ProviderHoldsOneDeployment`; and an attempt
  goes through each state at most once (`AttemptAdvances`), what is owed is free of
  duplicates and covers what the audit lacks (`Faithful`), and the backlog has room for what
  the attempt may still add (`BacklogHasRoom`), hence `AuditOwesEverything`. The lemmas on
  `FlushAudit` carry these over any failed or replayed delivery to the audit.
  `NoAttemptIsStranded`: an attempt that is submitting is that of the request under way, or
  a leftover of a dead process, which the next read recovers (`SubmittingIsOwned`).
* `GatewayProofs`, launches: a caller past its last guard that owns the lock has no live
  gateway beside it (`CheckedFindsNone`), and the boot owns the lock while it works
  (`BootIsOwner`), hence `OneGatewayIsHeld`, under the premise `~BootOverruns`: the boot is
  the one caller without a fence. `LaunchTypes` has no premise.
* `GatewayProofs`, restart-required: the types (`RestartTypes`), and the lemma
  `ClearsLeaveLaterChanges`. A ready launch adopts the flag of another process before it
  clears the old marks (`Adopted`), so a new mark or flag is among what it keeps; of a restart
  that succeeded it says only that no codes but those of its snapshot are cleared
  (`ClearedCodes`). A code that is marked again inside the snapshot is lost: `restart_midrun`.
* `NotifyOutboxProofs`: what a flush holds is still to do, being sent, or has its verdict,
  and the file knows nothing newer of it than a retire, an eviction or an enqueue after that
  (`FlushIsSound`); verdicts of loss were reported before they are written
  (`VerdictsAreReported`); a retired notice is cut short in the file, and in the flush by its
  record or a matcher (`RetiredIsMarked`). `LossesAreReported`, `RetiredStaysUnsent` and
  `NothingIsLost` follow; the last needs `IsFiniteSet(Notice)`, as the cap counts records.
  `FlushComesToAnEnd`: with every delivery that ends the round has less to do
  (`FlushAdvances`), so a flush writes its verdicts after finitely many deliveries.
* `MCServicesProofs`: a step of the composition is a step of one component, and a stutter of
  each other (`StepOfEach`), so a behaviour of `ServicesSpec` is one of each component's
  specification (`ComponentsAreApart`). What is proved of a component alone therefore holds
  there: `ServicesTypes`, `ServicesAreSafe` (all invariants of `services`) and
  `ServicesStepsAreSafe` (its action properties and the refinement). Two premises remain:
  `~BootOverruns`, of the conjunct `LiveChildIsHeld` alone, and finitely many notices, of the
  second theorem.

Assumptions: `OpAssumption` (repairs are operations; every writer has its repair; `Null` is no
operation), `BoundsAssumption` (the bounds are naturals), `SessionAssumption` (every message
has its session), `FileLockAssumption`, `NotifyAssumption`, `LaunchAssumption` and those of the
other modules (null values are none of the values, caps are positive). Each is evaluated by
TLC in the runs.

Only model-checked: liveness (`QueuedIsGranted`, `ExpiredSettles`, `AdmittedSettles`,
`DeadLockIsBroken`, `QueuedNoticeEnds`, `SubmittingEnds`, `PendingSendEnds`, and the fairness
of `FifoMutex` in `ImplementsFifoMutex`), which is out of the prover's reach. Every invariant
and every action property of the passing runs is stated by a theorem, of the component or of
the composition. Of five liveness properties the safety core is proved, which leaves to TLC
that fair steps are in fact taken: `QueueDoesNotStall` for `QueuedIsGranted`,
`NoRecordIsStranded` for `AdmittedSettles`, `FlushComesToAnEnd` for `QueuedNoticeEnds`,
`NoAttemptIsStranded` for `SubmittingEnds`, `PendingSendIsAnswered` for `PendingSendEnds`.

## 7. Not modelled

* In the chat: stream frames, replay and resume; row eviction and pruning; capability
  negotiation; socket grace timers. An `UnattributedEnd` (an event without a run
  id) may end any started record of the model, the session's or the only one. Two reads of
  one row within one synchronous handler are assumed to agree on whether storage works.
* In the browser: the merge of two tabs' rows over one storage key, eviction by rows and
  bytes, age expiry of rows, the stopping phase, servers without acks.
* In the watchdog: probing and readiness, incidents, latches, backoff lengths, disk-full
  holds. They decide when an operation is requested, which the models leave open.
* In the repair operation: the processes it notes for reports, and `read()`, which writes
  nothing.
* Managed updates: release lookup, and the update of a self-hosted install. Notify outbox:
  the limit on attempts, partial delivery to several channels, and the log of expiries; of a
  notice that was evicted `LossIsReported` says nothing; a retired notice may still raise the
  alarm of an age-out in the model as in the code, which no property speaks of.
* Gmail: ports, push tokens, the hook and message delivery. Sidecars: registry parsing,
  logs, readiness.
* Restart-required state: attaching to a restart under way, a death between two of its file
  writes, retention fields and metrics, a launch without a time. Gateway launches: the
  launcher's worker process, the lengths of the stop ladder, the box lock around a cold
  start, autotune stamps and notices; a shutdown appears only as a refusal of a launch.
* File lock: `writeFileAtomic`, one rename.
* The server's session list guards its cache by an epoch, as `ApiCache` does by a
  generation; `ChatSend` sees it as a policy that may answer anything. The pid file, boot
  guard and box lock decide mostly from `/proc`; they are next in the plan with the login
  throttle. Doctor and overseer exchange text with a model; agents, channels, onboarding and
  the user interface translate forms into files, one write at a time, and much of the
  repository is that, or tests. `PROJECT.json` lists each with its reason.
