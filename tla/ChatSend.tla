----------------------------- MODULE ChatSend -----------------------------
(***************************************************************************)
(* The server half of the chat bridge: how a browser's message frame       *)
(* becomes at most one chat.send at the gateway, and how its outcome is    *)
(* recorded and told (lib/server/chat/send-service.js, run-registry.js,    *)
(* gateway-client.js, lib/server/db/chat-runs/index.js).                   *)
(*                                                                         *)
(* rec is the registry (lost at a restart), row the durable store.  A      *)
(* handler is one run of handleMessage, which yields while it awaits the   *)
(* session policy; everything else in it up to the RPC is one step.  The   *)
(* gateway is external: a frame written to it may be accepted or refused   *)
(* at any time, lost when the connection goes, and its answer and its end  *)
(* event travel on the connection and die with it.                         *)
(***************************************************************************)
EXTENDS Integers, FiniteSets

CONSTANTS Msg,       \* messages, by clientMsgId
          Session,   \* session keys
          SessionOf, \* the session each message is sent to
          Handler,   \* concurrent runs of handleMessage
          Idle       \* a handler that awaits nothing

Waiting == [msg : Msg, retry : BOOLEAN]

ASSUME SessionAssumption == SessionOf \in [Msg -> Session] /\ Idle \notin Waiting

VARIABLES
  handler,  \* the message (and retry flag) each handler awaits a policy for
  rec,      \* the live record of each message
  rpc,      \* its chat.send: connecting, sent, or the answer on its way
  row,      \* its durable outcome
  up,       \* the gateway connection is open
  gw,       \* what became of its frame at the gateway
  accepted, \* how often the gateway accepted it
  aborting, \* sessions with a session-wide abort on its way, for no record
  ev,       \* the run's end event: in flight, or held in the early buffer
  told      \* the last thing a browser was told about it

vars == <<handler, rec, rpc, row, up, gw, accepted, aborting, ev, told>>
gatewayVars == <<up, gw, accepted, aborting>>

Record == [phase : {"none", "pending", "running", "stopping"},
           started : BOOLEAN, stopRequested : BOOLEAN, early : 0..1, late : 0..2,
           timer : BOOLEAN, confirmed : BOOLEAN]

\* early and late count the aborts awaited that were asked for before and after
\* the run was known; confirmed is history: a late one succeeded.
BlankRecord(p) ==
  [phase |-> p, started |-> FALSE, stopRequested |-> FALSE,
   early |-> 0, late |-> 0, timer |-> FALSE, confirmed |-> FALSE]
NoRecord == BlankRecord("none")

\* A row is error + submission_state not_submitted here as "rejected".
TerminalRow == {"done", "stopped", "interrupted", "error", "rejected", "unknown"}
Row == {"none", "pending", "running"} \cup TerminalRow

TypeOK ==
  /\ handler \in [Handler -> Waiting \cup {Idle}]
  /\ rec \in [Msg -> Record]
  /\ rpc \in [Msg -> {"none", "connecting", "sent", "ok", "no"}]
  /\ row \in [Msg -> Row]
  /\ up \in BOOLEAN
  /\ gw \in [Msg -> {"none", "wire", "live", "ended", "refused", "lost"}]
  /\ accepted \in [Msg -> Nat]
  /\ aborting \subseteq Session
  /\ ev \in [Msg -> {"none", "flying", "buffered"}]
  /\ told \in [Msg -> {"nothing", "ack", "notSent", "readOnly", "unknown",
                       "settled"}]

Init ==
  /\ handler = [h \in Handler |-> Idle]
  /\ rec = [m \in Msg |-> NoRecord]
  /\ rpc = [m \in Msg |-> "none"]
  /\ row = [m \in Msg |-> "none"]
  /\ up = FALSE
  /\ gw = [m \in Msg |-> "none"]
  /\ accepted = [m \in Msg |-> 0]
  /\ aborting = {}
  /\ ev = [m \in Msg |-> "none"]
  /\ told = [m \in Msg |-> "nothing"]

----------------------------------------------------------------------------
(* The registry and the store. *)

Live(m) == rec[m].phase # "none"
Started == {m \in Msg : rec[m].started}
InSession(m) == {n \in Msg : SessionOf[n] = SessionOf[m]}
Busy(m) == \E n \in InSession(m) : Live(n)

Tell(m, what) == told' = [told EXCEPT ![m] = what]

\* previouslySubmitted(): anything but no row and a confirmed non-submission.
Submitted(m) == Live(m) \/ row[m] \notin {"none", "rejected"}

\* What finalizeAndEmit tells the browser.  A non-submission whose row could
\* not be written is not claimed: the durable row still says possibly sent.
Report(out, saved, started) ==
  IF out = "unknown" \/ (~saved /\ ~started /\ out \in {"rejected", "error"})
  THEN "unknown"
  ELSE IF out = "rejected" THEN "notSent" ELSE "settled"

\* finalizeAndEmit for the records of S with the outcomes `out`; `saved` are
\* those whose markTerminal succeeds.  The early-event buffer is dropped with
\* the last live record.
Finalize(S, out, saved) ==
  /\ rec' = [m \in Msg |-> IF m \in S THEN NoRecord ELSE rec[m]]
  /\ row' = [m \in Msg |-> IF m \in S \cap saved THEN out[m] ELSE row[m]]
  /\ told' = [m \in Msg |-> IF m \in S
                            THEN Report(out[m], m \in saved, rec[m].started)
                            ELSE told[m]]

BufferAfter(S, e) ==
  IF \E m \in Msg \ S : Live(m) THEN e
  ELSE [m \in Msg |-> IF e[m] = "buffered" THEN "none" ELSE e[m]]

\* One record ends, with its row written or not, the events being e.
SettleWith(m, out, e) ==
  /\ \E saved \in SUBSET {m} : Finalize({m}, [n \in {m} |-> out], saved)
  /\ ev' = BufferAfter({m}, e)

Settle(m, out) == SettleWith(m, out, ev)

----------------------------------------------------------------------------
(* handleMessage. *)

\* Mutant: a claim on a safely rejected row keeps its not_submitted evidence.
ClaimKeepingEvidence(m) ==
  row' = [row EXCEPT ![m] = IF row[m] = "rejected" THEN "rejected" ELSE "pending"]

\* claimSend(): the row says possibly submitted before anything is sent.
Claim(m) == row' = [row EXCEPT ![m] = "pending"]

\* createRecord() and the chat.send request, whose frame is written at once on
\* an open connection and otherwise when one opens.
Dispatch(m) ==
  /\ rec' = [rec EXCEPT ![m] = BlankRecord("pending")]
  /\ rpc' = [rpc EXCEPT ![m] = IF up THEN "sent" ELSE "connecting"]
  /\ gw' = IF up THEN [gw EXCEPT ![m] = "wire"] ELSE gw
  /\ Tell(m, "ack")
  /\ UNCHANGED <<up, accepted, aborting, ev>>

Answer(m, what) == Tell(m, what) /\ UNCHANGED <<rec, rpc, row, ev, gatewayVars>>

\* Mutant: an unreadable store is taken for an unused id.
AdmitBlindly(m, retry) ==
  IF Live(m) THEN Answer(m, "ack")
  ELSE IF Busy(m) THEN Answer(m, "notSent")
  ELSE Claim(m) /\ Dispatch(m)

\* Mutant: the session and the caps are checked before the policy await only.
AdmitUnguarded(m, retry) ==
  IF Live(m) THEN Answer(m, "ack")
  ELSE IF Submitted(m) \/ (row[m] = "none" /\ retry) THEN Answer(m, "unknown")
  ELSE Claim(m) /\ Dispatch(m)

\* From the dedupe on.  A live record is acknowledged again.  A store that
\* cannot be read, a spent id, and a retry whose evidence is gone settle
\* without a send.  Then the session must be free, the caps not full, and the
\* claim must reach the disk (a retry whose claim fails stays ambiguous).
Admit(m, retry) ==
  IF Live(m) THEN Answer(m, "ack")
  ELSE \/ Answer(m, "unknown")
       \/ row[m] \in TerminalRow \ {"rejected", "unknown"} /\ Answer(m, "settled")
       \/ /\ ~Submitted(m) /\ ~(row[m] = "none" /\ retry)
          /\ \/ Answer(m, "notSent")
             \/ ~Busy(m) /\ Claim(m) /\ Dispatch(m)

\* A message frame arrives.  The policy is read unless the message was
\* submitted before, or the store cannot say.
AwaitPolicy(h, m, retry) ==
  /\ handler[h] = Idle /\ ~Submitted(m)
  /\ handler' = [handler EXCEPT ![h] = [msg |-> m, retry |-> retry]]
  /\ UNCHANGED <<rec, rpc, row, ev, told, gatewayVars>>

AdmitAtOnce(h, m, retry) ==
  /\ handler[h] = Idle
  /\ IF Submitted(m) THEN Admit(m, retry) ELSE Answer(m, "unknown")
  /\ UNCHANGED handler

\* The policy read ends: read-only, or not (or unknown, which is not).
PolicyArrives(h) ==
  /\ handler[h] # Idle
  /\ handler' = [handler EXCEPT ![h] = Idle]
  /\ \/ Answer(handler[h].msg, "readOnly")
     \/ Admit(handler[h].msg, handler[h].retry)

----------------------------------------------------------------------------
(* The chat.send request. *)

\* A connection opens: requests that waited for it are written, in order.
Connect ==
  /\ ~up /\ up' = TRUE
  /\ rpc' = [m \in Msg |-> IF rpc[m] = "connecting" THEN "sent" ELSE rpc[m]]
  /\ gw' = [m \in Msg |-> IF rpc[m] = "connecting" THEN "wire" ELSE gw[m]]
  /\ UNCHANGED <<handler, rec, row, accepted, aborting, ev, told>>

\* It cannot be opened: nothing was written, so the record is rejected.
ConnectFails(m) ==
  /\ rpc[m] = "connecting"
  /\ rpc' = [rpc EXCEPT ![m] = "none"]
  /\ IF Live(m) THEN Settle(m, "rejected") ELSE UNCHANGED <<rec, row, told, ev>>
  /\ UNCHANGED <<handler, gatewayVars>>

\* An explicit ok:false is a confirmed failure.
RefusalArrives(m) ==
  /\ rpc[m] = "no"
  /\ rpc' = [rpc EXCEPT ![m] = "none"]
  /\ IF Live(m) THEN Settle(m, "rejected") ELSE UNCHANGED <<rec, row, told, ev>>
  /\ UNCHANGED <<handler, gatewayVars>>

\* Mutant: a timeout after the frame was written counts as not submitted.
TimesOutAsRejected(m) ==
  /\ rpc[m] \in {"sent", "ok", "no"}
  /\ rpc' = [rpc EXCEPT ![m] = "none"]
  /\ IF Live(m) THEN Settle(m, "rejected") ELSE UNCHANGED <<rec, row, told, ev>>
  /\ UNCHANGED <<handler, gatewayVars>>

\* Mutant: the record of a stopping run is left to its stop timer.
TimesOutUnlessStopping(m) ==
  /\ rpc[m] \in {"sent", "ok", "no"}
  /\ rpc' = [rpc EXCEPT ![m] = "none"]
  /\ IF rec[m].phase = "pending" THEN Settle(m, "unknown")
     ELSE UNCHANGED <<rec, row, told, ev>>
  /\ UNCHANGED <<handler, gatewayVars>>

\* No answer in kGatewayReqTimeoutMs: the gateway may have accepted.
RequestTimesOut(m) ==
  /\ rpc[m] \in {"sent", "ok", "no"}
  /\ rpc' = [rpc EXCEPT ![m] = "none"]
  /\ IF Live(m) THEN Settle(m, "unknown") ELSE UNCHANGED <<rec, row, told, ev>>
  /\ UNCHANGED <<handler, gatewayVars>>

\* The answer of a record finalized meanwhile: its run is an orphan, and the
\* whole session is aborted to end it.
AbortOrphan(m) ==
  /\ rpc[m] = "ok" /\ ~Live(m)
  /\ rpc' = [rpc EXCEPT ![m] = "none"]
  /\ aborting' = aborting \cup {SessionOf[m]}
  /\ UNCHANGED <<handler, rec, row, up, gw, accepted, ev, told>>

\* ok without a run id.
RunIdMissing(m) ==
  /\ rpc[m] = "ok" /\ Live(m)
  /\ rpc' = [rpc EXCEPT ![m] = "none"]
  /\ Settle(m, "error")
  /\ UNCHANGED <<handler, gatewayVars>>

\* How a run that ended is recorded.
EndOutcome(m) == IF rec[m].phase = "stopping" THEN "stopped" ELSE "done"

\* Mutant: the answer is taken without looking at whether the record ended.
RunStartsAnyway(m) ==
  /\ rpc[m] = "ok"
  /\ rpc' = [rpc EXCEPT ![m] = "none"]
  /\ rec' = [rec EXCEPT ![m].started = TRUE, ![m].phase = "running"]
  /\ row' = [row EXCEPT ![m] = "running"]
  /\ UNCHANGED <<handler, ev, told, gatewayVars>>

\* ok with a run id: promote() and markRunning(), whose write may fail.  A stop
\* requested in the send window is carried out now that the run is known.
RunStarts(m) ==
  /\ rpc[m] = "ok" /\ Live(m) /\ ev[m] # "buffered"
  /\ rpc' = [rpc EXCEPT ![m] = "none"]
  /\ rec' = [rec EXCEPT ![m].started = TRUE,
               ![m].phase = IF @ = "stopping" THEN @ ELSE "running",
               ![m].late = IF rec[m].stopRequested THEN @ + 1 ELSE @]
  /\ \E r \in {"running", row[m]} : row' = [row EXCEPT ![m] = r]
  /\ UNCHANGED <<handler, ev, told, gatewayVars>>

\* The same with the run's end already buffered: draining it ends the record,
\* and the write of the outcome may fail too.
RunStartsAndEnds(m) ==
  /\ rpc[m] = "ok" /\ Live(m) /\ ev[m] = "buffered"
  /\ rpc' = [rpc EXCEPT ![m] = "none"]
  /\ rec' = [rec EXCEPT ![m] = NoRecord]
  /\ \E r \in {EndOutcome(m), "error", "running", row[m]} :
       row' = [row EXCEPT ![m] = r]
  /\ ev' = BufferAfter({m}, [ev EXCEPT ![m] = "none"])
  /\ Tell(m, "settled")
  /\ UNCHANGED <<handler, gatewayVars>>

----------------------------------------------------------------------------
(* Stop. *)

\* Mutant: a stop repeated while one is in flight aborts once more.
StopAgain(m) ==
  /\ Live(m)
  /\ rec' = [rec EXCEPT ![m].phase = "stopping", ![m].stopRequested = TRUE,
                        ![m].early = IF rec[m].started THEN @ ELSE @ + 1,
                        ![m].late = IF rec[m].started THEN @ + 1 ELSE @]
  /\ UNCHANGED <<handler, rpc, row, ev, told, gatewayVars>>

\* handleStop() that finds a record, by run id or as the session's active one:
\* it is marked and its session aborted.  A stop already in flight is only
\* acknowledged, and a stop for a run that is gone touches no record.
Stop(m) ==
  /\ rec[m].phase \in {"pending", "running"}
  /\ rec' = [rec EXCEPT ![m].phase = "stopping", ![m].stopRequested = TRUE,
                        ![m].early = IF rec[m].started THEN @ ELSE @ + 1,
                        ![m].late = IF rec[m].started THEN @ + 1 ELSE @]
  /\ UNCHANGED <<handler, rpc, row, ev, told, gatewayVars>>

\* handleStop() that finds none: the session is aborted all the same.
StopUntracked(s) ==
  /\ \A m \in Msg : SessionOf[m] = s => ~Live(m)
  /\ aborting' = aborting \cup {s}
  /\ UNCHANGED <<handler, rec, rpc, row, up, gw, accepted, ev, told>>

\* performAbort(): the abort succeeds and the confirmation timer is armed.
AbortSucceeds(m) ==
  /\ up
  /\ \/ /\ rec[m].early > 0
        /\ rec' = [rec EXCEPT ![m].early = @ - 1, ![m].timer = TRUE]
     \/ /\ rec[m].late > 0
        /\ rec' = [rec EXCEPT ![m].late = @ - 1, ![m].timer = TRUE,
                              ![m].confirmed = TRUE]
  /\ UNCHANGED <<handler, rpc, row, ev, told, gatewayVars>>

\* performAbort(): the abort fails and the stop is rolled back.
PhaseBeforeStop(m) == IF rec[m].started THEN "running" ELSE "pending"

AbortFails(m) ==
  /\ \/ /\ rec[m].early > 0
        /\ rec' = [rec EXCEPT ![m].early = @ - 1, ![m].stopRequested = FALSE,
                              ![m].phase = PhaseBeforeStop(m)]
     \/ /\ rec[m].late > 0
        /\ rec' = [rec EXCEPT ![m].late = @ - 1, ![m].stopRequested = FALSE,
                              ![m].phase = PhaseBeforeStop(m)]
  /\ UNCHANGED <<handler, rpc, row, ev, told, gatewayVars>>

\* No end event within kStopConfirmTimeoutMs of the abort.
StopTimerFires(m) ==
  /\ rec[m].timer
  /\ Settle(m, "stopped")
  /\ UNCHANGED <<handler, rpc, gatewayVars>>

----------------------------------------------------------------------------
(* Events, disconnects, the sweeper, restarts. *)

\* The end (or error) event of a run arrives: it ends its started record; for
\* a run id not known yet it is buffered, unless the buffer is at a cap.
EndArrives(m) ==
  /\ ev[m] = "flying"
  /\ IF rec[m].started
     THEN \E out \in {EndOutcome(m), "error"} :
            SettleWith(m, out, [ev EXCEPT ![m] = "none"])
     ELSE /\ \E e \in {"none", "buffered"} : ev' = [ev EXCEPT ![m] = e]
          /\ UNCHANGED <<rec, row, told>>
  /\ UNCHANGED <<handler, rpc, gatewayVars>>

\* An event without a run id is routed by its session, or to the only started
\* record: it may end a record whose own run goes on.
UnattributedEnd(m) ==
  /\ up /\ rec[m].started
  /\ Settle(m, EndOutcome(m))
  /\ UNCHANGED <<handler, rpc, gatewayVars>>

\* sweepStalledRuns(): a started run was silent for stallMs.
Stall(m) ==
  /\ rec[m].started
  /\ Settle(m, "interrupted")
  /\ UNCHANGED <<handler, rpc, gatewayVars>>

\* markGatewayDisconnected(): pending requests reject, so pending records end
\* unknown, and every started record is interrupted.
Disconnect ==
  /\ up /\ up' = FALSE
  /\ rpc' = [m \in Msg |-> "none"]
  /\ LET cut == Started \cup {m \in Msg : Live(m) /\ rpc[m] # "none"}
         out == [m \in cut |-> IF rec[m].started THEN "interrupted" ELSE "unknown"]
     IN \E saved \in SUBSET cut : Finalize(cut, out, saved)
  /\ ev' = [m \in Msg |-> "none"]
  /\ UNCHANGED <<handler, gw, accepted, aborting>>

\* What boot makes of a row: reconcileInterruptedRuns().
Reconciled(r) ==
  CASE r = "pending" -> "unknown"
    [] r = "running" -> "interrupted"
    [] OTHER -> r

\* The process dies at any point and the next one reconciles the store.
Restart ==
  /\ row' = [m \in Msg |-> Reconciled(row[m])]
  /\ rec' = [m \in Msg |-> NoRecord]
  /\ rpc' = [m \in Msg |-> "none"]
  /\ handler' = [h \in Handler |-> Idle]
  /\ ev' = [m \in Msg |-> "none"]
  /\ up' = FALSE
  /\ UNCHANGED <<gw, accepted, aborting, told>>

----------------------------------------------------------------------------
(* The gateway (external). *)

Accept(m) ==
  /\ gw[m] = "wire"
  /\ gw' = [gw EXCEPT ![m] = "live"]
  /\ accepted' = [accepted EXCEPT ![m] = @ + 1]
  /\ rpc' = [rpc EXCEPT ![m] = IF @ = "sent" THEN "ok" ELSE @]
  /\ UNCHANGED <<handler, rec, row, up, aborting, ev, told>>

Refuse(m) ==
  /\ gw[m] = "wire"
  /\ gw' = [gw EXCEPT ![m] = "refused"]
  /\ rpc' = [rpc EXCEPT ![m] = IF @ = "sent" THEN "no" ELSE @]
  /\ UNCHANGED <<handler, rec, row, up, accepted, aborting, ev, told>>

\* A frame the closed connection never delivered.
Lose(m) ==
  /\ gw[m] = "wire" /\ rpc[m] # "sent"
  /\ gw' = [gw EXCEPT ![m] = "lost"]
  /\ UNCHANGED <<handler, rec, rpc, row, up, accepted, aborting, ev, told>>

\* A run ends, by itself or aborted; its event flies if the connection is open.
RunEnds(m) ==
  /\ gw[m] = "live"
  /\ gw' = [gw EXCEPT ![m] = "ended"]
  /\ ev' = IF up THEN [ev EXCEPT ![m] = "flying"] ELSE ev
  /\ UNCHANGED <<handler, rec, rpc, row, up, accepted, aborting, told>>

\* The gateway takes a session-wide abort: it fails, or ends every live run of
\* the session.
GatewayAborts(s) ==
  /\ s \in aborting /\ aborting' = aborting \ {s}
  /\ \E hit \in {{}, {m \in Msg : SessionOf[m] = s /\ gw[m] = "live"}} :
       /\ gw' = [m \in Msg |-> IF m \in hit THEN "ended" ELSE gw[m]]
       /\ ev' = [m \in Msg |-> IF m \in hit /\ up THEN "flying" ELSE ev[m]]
  /\ UNCHANGED <<handler, rec, rpc, row, up, accepted, told>>

----------------------------------------------------------------------------
FrameArrives ==
  \E h \in Handler, m \in Msg, retry \in BOOLEAN :
    AwaitPolicy(h, m, retry) \/ AdmitAtOnce(h, m, retry)

RequestStep(m) ==
  \/ ConnectFails(m) \/ RefusalArrives(m) \/ RequestTimesOut(m)
  \/ AbortOrphan(m) \/ RunIdMissing(m) \/ RunStarts(m)
  \/ RunStartsAndEnds(m)

StopStep(m) == Stop(m) \/ AbortSucceeds(m) \/ AbortFails(m) \/ StopTimerFires(m)
EventStep(m) == EndArrives(m) \/ UnattributedEnd(m) \/ Stall(m)
GatewayStep(m) == Accept(m) \/ Refuse(m) \/ Lose(m) \/ RunEnds(m)

Next ==
  \/ FrameArrives
  \/ \E h \in Handler : PolicyArrives(h)
  \/ Connect \/ Disconnect \/ Restart
  \/ \E s \in Session : StopUntracked(s) \/ GatewayAborts(s)
  \/ \E m \in Msg : RequestStep(m) \/ StopStep(m) \/ EventStep(m) \/ GatewayStep(m)

Spec == Init /\ [][Next]_vars

\* Timeouts fire: the connect attempt, the policy read and the request are
\* timed, and the sweeper ends a run that fell silent; so it is assumed that
\* every run ends or falls silent.
FairSpec ==
  /\ Spec
  /\ \A m \in Msg : WF_vars(Connect \/ ConnectFails(m))
  /\ \A h \in Handler : WF_vars(PolicyArrives(h))
  /\ \A m \in Msg : WF_vars(RequestTimesOut(m)) /\ WF_vars(Stall(m))

----------------------------------------------------------------------------
(* Properties. *)

\* A message is never accepted twice by the gateway, whatever frames, retries,
\* storage failures, timeouts, disconnects and restarts happen: claimSend's
\* row is the only admission ticket.
AtMostOnce == \A m \in Msg : accepted[m] <= 1

\* While a frame is, or may turn into, a run, the durable row forbids another
\* send of the same id: it is neither absent nor not_submitted.
EvidenceCoversSend ==
  \A m \in Msg : gw[m] \in {"wire", "live", "ended"} =>
                 row[m] \notin {"none", "rejected"}

\* A browser told notSubmitted:true (a safe retry) is told the truth: nothing
\* of that message is at the gateway.  The read-only refusal is a case apart.
NotSentIsTrue ==
  \A m \in Msg : told[m] = "notSent" => gw[m] \notin {"wire", "live", "ended"}

\* The same of the read-only refusal: handleMessage's comment says a message
\* already submitted is never refused as read-only, "which would claim it was
\* not sent".
ReadOnlyIsTrue ==
  \A m \in Msg : told[m] = "readOnly" => gw[m] \notin {"wire", "live", "ended"}

\* One active record per session, across handlers that awaited their policy
\* together.
OneActivePerSession ==
  \A m, n \in Msg : m # n /\ SessionOf[m] = SessionOf[n] => ~(Live(m) /\ Live(n))

\* A durable outcome is final: no late answer, event, timer or reconciliation
\* rewrites it.  Only a confirmed non-submission is ever claimed again.
OutcomeIsFinal ==
  [][\A m \in Msg : row[m] \in TerminalRow \ {"rejected"} => row'[m] = row[m]]_vars

\* A session-wide abort issued for no record (an orphaned run, or a stop that
\* found none) is meant to be run-scoped by "one active run per session": it
\* must find no active record it would end.
UntrackedAbortIsScoped ==
  [][\A m \in Msg : SessionOf[m] \in aborting' \ aborting => ~Live(m)]_vars

\* Once the gateway confirmed the abort of a known run, that run's end is not
\* recorded as a natural completion.
ConfirmedStopIsRecorded ==
  [][\A m \in Msg : rec[m].confirmed /\ row'[m] = "done" => row[m] = "done"]_vars

\* The bridge implements SendOnce, seen at the gateway's acceptances and at the
\* standing notSubmitted answers of handleMessage and finalizeAndEmit.
Denied == {m \in Msg : told[m] = "notSent"}
Promise == INSTANCE SendOnce WITH times <- accepted, denied <- Denied
ImplementsSendOnce == Promise!Spec

\* Every admitted record reaches its terminal: a pending one by its request,
\* a started one at the latest by the sweeper.
AdmittedSettles == \A m \in Msg : Live(m) ~> ~Live(m)
==========================================================================
