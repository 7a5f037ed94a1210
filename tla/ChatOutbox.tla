---------------------------- MODULE ChatOutbox ----------------------------
(***************************************************************************)
(* The browser half of the chat bridge: the send outbox of one tab         *)
(* (lib/public/js/components/chat/send-outbox.js) with the run state that  *)
(* lets it flush (run-state.js), the store that drives both                *)
(* (use-chat-store.js), its socket, and at the other end the bridge at the *)
(* grain of what ChatSend shows of it: a durable row per message, written  *)
(* before the gateway is asked.                                            *)
(*                                                                         *)
(* Every callback of the page is one step.  Messages are of one session    *)
(* and are typed in the order of their numbers.                            *)
(***************************************************************************)
EXTENDS Integers, Sequences

CONSTANTS Typed,          \* how many messages are made, copies sent again included
          TextOf,         \* what each says
          MaxAutoAttempts, \* kMaxAutoAttempts
          MaxReplies      \* bound: answers on their way while another frame is handled

Message == 1..Typed
NoMessage == 0

ASSUME OutboxAssumption == Typed \in Nat /\ MaxAutoAttempts \in Nat /\ MaxReplies \in Nat
                           /\ DOMAIN TextOf = Message

\* maybe: possiblySubmitted.  sent: sentAt or ackedAt is set.  awaiting:
\* awaitingHistoryAt is set.  waived: resentAs or followupsConfirmed.  backoff:
\* nextAttemptAt may be ahead.
OutboxItem == [status : {"absent", "queued", "inflight", "acked", "failed", "unknown"},
               maybe : BOOLEAN, sent : BOOLEAN, awaiting : BOOLEAN, waived : BOOLEAN,
               backoff : BOOLEAN, tries : 0..MaxAutoAttempts]
NoItem == [status |-> "absent", maybe |-> FALSE, sent |-> FALSE, awaiting |-> FALSE,
           waived |-> FALSE, backoff |-> FALSE, tries |-> 0]
NewItem == [NoItem EXCEPT !.status = "queued"]

VARIABLES
  typedSoFar,    \* how many of them were
  tab,     \* the page: its items, the stored copy, the session's run state
  socket,  \* the tab's connection has said hello
  upFrames, \* message frames written and not handled yet
  downFrames, \* what the bridge wrote to the current socket, in order
  bridge,  \* the durable outcome and the live record of each message
  watching, \* messages whose live record has the current socket attached
  taken,   \* how often the gateway took each message
  dropped, \* messages the user discarded or cancelled
  restored \* history: messages a reload found, which the user did not retry since

bridgeVars == <<bridge, watching, taken>>
userVars == <<typedSoFar, dropped, restored>>
outboxVars == <<tab, socket, upFrames, downFrames, bridgeVars, userVars>>

Frame == [msg : Message, retry : BOOLEAN, here : BOOLEAN]
Reply == {"ack", "started", "busy", "refused", "final", "unknown", "complete", "interrupted"}

IdleRun == [phase |-> "idle", active |-> NoMessage, runOf |-> NoMessage, hold |-> FALSE]
EmptyBox == [m \in Message |-> NoItem]

OutboxTypeOK ==
  /\ typedSoFar \in 0..Typed
  /\ tab \in [item : [Message -> OutboxItem], disk : [Message -> OutboxItem],
              memoryOnly : BOOLEAN,
              run : [phase : {"idle", "pendingSend", "running", "interruptedLocal"},
                     active : Message \cup {NoMessage}, runOf : Message \cup {NoMessage},
                     hold : BOOLEAN]]
  /\ socket \in BOOLEAN
  /\ upFrames \subseteq Frame
  /\ downFrames \in Seq([msg : Message, what : Reply])
  /\ bridge \in [Message -> {"none", "pending", "running", "done", "interrupted",
                             "rejected", "unknown"}]
  /\ watching \subseteq Message
  /\ taken \in [Message -> Nat]
  /\ dropped \subseteq Message /\ restored \subseteq Message

OutboxInit ==
  /\ typedSoFar = 0
  /\ tab = [item |-> EmptyBox, disk |-> EmptyBox, memoryOnly |-> FALSE, run |-> IdleRun]
  /\ socket = FALSE /\ upFrames = {} /\ downFrames = <<>>
  /\ bridge = [m \in Message |-> "none"] /\ watching = {}
  /\ taken = [m \in Message |-> 0] /\ dropped = {} /\ restored = {}

----------------------------------------------------------------------------
(* The outbox.  t is a state of the tab. *)

Has(t, m) == t.item[m].status # "absent"
WithStatus(t, s) == {m \in Message : t.item[m].status = s}

\* Mutant: only what may have been sent is worth restoring.
RestoredIfSubmitted(i) ==
  IF i.status \in {"queued", "inflight", "acked"}
  THEN IF i.maybe THEN [i EXCEPT !.status = "unknown"] ELSE NoItem ELSE i

\* restoreOnLoad(): what the page left unsettled is for the user to decide.
Restored(i) ==
  IF i.status \in {"queued", "inflight", "acked"}
  THEN [i EXCEPT !.status = IF i.maybe THEN "unknown" ELSE "failed"] ELSE i

\* persist(): the items replace the stored copy (kept here as a reload would
\* read it), or storage fails and the tab keeps to memory.
Persist(t) ==
  IF t.memoryOnly THEN {t}
  ELSE {[t EXCEPT !.disk = [m \in Message |-> Restored(t.item[m])]],
        [t EXCEPT !.memoryOnly = TRUE]}

\* The set of states S after each of them persisted.
Persisted(S) == UNION {Persist(t) : t \in S}

\* releaseAwaitingHistory(), with what history has not confirmed going to s.
ReleaseAwaiting(t, s) ==
  [t EXCEPT !.item = [m \in Message |->
     IF t.item[m].status = "acked" /\ t.item[m].awaiting
     THEN [t.item[m] EXCEPT !.status = s, !.awaiting = FALSE, !.backoff = FALSE]
     ELSE t.item[m]]]

\* markFailed().  Each of "busy", "refused" (retryable) and "final" carries
\* notSubmitted.
MarkFailed(t, m, why) ==
  LET i == [t.item[m] EXCEPT !.maybe = @ /\ why = "unknown"]
  IN [t EXCEPT !.item[m] =
        CASE why = "unknown" -> [i EXCEPT !.status = "unknown"]
          [] why = "busy" -> [i EXCEPT !.status = "queued", !.backoff = TRUE,
                                                 !.tries = IF @ = 0 THEN 0 ELSE @ - 1]
          [] why = "refused" /\ i.tries < MaxAutoAttempts ->
               [i EXCEPT !.status = "queued", !.backoff = TRUE]
          [] OTHER -> [i EXCEPT !.status = "failed"]]

\* The reducer: ACK_TIMEOUT, SEND_FAILED, STARTED, DONE, SOCKET_CLOSED.
ToIdle(r) == [IdleRun EXCEPT !.hold = r.hold]
AckTimeout(r, m) ==
  IF r.phase = "pendingSend" /\ r.active \in {NoMessage, m} THEN ToIdle(r) ELSE r
SendFailed(r, m, unknown) ==
  IF r.active \notin {NoMessage, m} THEN r
  ELSE [(IF r.phase = "idle" THEN r ELSE ToIdle(r)) EXCEPT !.hold = @ \/ unknown]
RunStarted(r, m) == [r EXCEPT !.phase = "running", !.active = m, !.runOf = m]
RunDone(r, m, why) ==
  IF r.runOf \notin {NoMessage, m} THEN r
  ELSE [IdleRun EXCEPT !.hold = (why = "interrupted")]

\* Mutant: a send that had no answer when the socket closed is still waited for.
SocketLostKeepingSend(r) ==
  IF r.phase = "running" THEN [r EXCEPT !.phase = "interruptedLocal", !.hold = TRUE] ELSE r

SocketLost(r) ==
  CASE r.phase = "pendingSend" -> ToIdle(r)
    [] r.phase = "running" -> [r EXCEPT !.phase = "interruptedLocal", !.hold = TRUE]
    [] OTHER -> r

CanAutoFlush(t) == t.run.phase = "idle" /\ ~t.run.hold

\* nextEligible(): the first queued item whose backoff is over (it is for those
\* of `elapsed`), unless one is unknown and not waived.
Eligible(t, elapsed) ==
  LET due == {m \in WithStatus(t, "queued") : ~t.item[m].backoff \/ m \in elapsed}
  IN IF \E m \in WithStatus(t, "unknown") : ~t.item[m].waived THEN {}
     ELSE {m \in due : \A n \in due : m <= n}

\* Mutant: an item whose marker did not reach the disk is sent all the same.
AuthorizedAnyway(t, m) == TRUE

\* persist({requiredSubmittedId}) is a proof that a reload will know of the send.
Authorized(t, m) == ~t.memoryOnly /\ t.disk[m].maybe

\* flushItem() marks the item, parks it, or gives the attempt and the marker back.
InflightItem(i) ==
  [i EXCEPT !.status = "inflight", !.maybe = TRUE, !.backoff = FALSE, !.sent = TRUE,
            !.tries = IF @ = MaxAutoAttempts THEN @ ELSE @ + 1]
ParkedItem(i) == [i EXCEPT !.status = IF i.maybe THEN "unknown" ELSE "failed"]
GivenBackItem(i, old) ==
  [i EXCEPT !.status = "queued", !.maybe = old.maybe, !.backoff = TRUE,
            !.tries = IF @ = 0 THEN 0 ELSE @ - 1]

\* flushItem(): the tab it leaves, and the frames it wrote.  A send that fails at
\* once gives back; sentAt is part of what is parked again, not of what is given back.
FlushItem(t, m) ==
  LET old == t.item[m]
      tried == Persist([t EXCEPT !.item[m] = InflightItem(old)])
      sending == {u \in tried : Authorized(u, m)}
  IN {[tab |-> [u EXCEPT !.item[m] = ParkedItem(old)], frames |-> {}] : u \in tried \ sending}
     \cup {[tab |-> [u EXCEPT !.run.phase = "pendingSend", !.run.active = m,
                              !.run.runOf = NoMessage],
            frames |-> {[msg |-> m, retry |-> old.maybe, here |-> TRUE]}] : u \in sending}
     \cup {[tab |-> u, frames |-> {}] :
             u \in Persisted({[v EXCEPT !.item[m] = GivenBackItem(@, old)] : v \in sending})}

\* The flush that ends a step which left the tab in one of S: of the eligible
\* item, if it is one of `only` and the socket is ready.
FlushOn(S, only) ==
  \E t \in S : \E elapsed \in SUBSET {m \in WithStatus(t, "queued") : t.item[m].backoff} :
    LET due == IF CanAutoFlush(t) /\ socket' THEN Eligible(t, elapsed) \cap only ELSE {}
    IN \E r \in IF due = {} THEN {[tab |-> t, frames |-> {}]}
                ELSE UNION {FlushItem(t, m) : m \in due} :
         tab' = r.tab /\ upFrames' = upFrames \cup r.frames

\* Ack timeouts requeue an item (the last one parks it), a history that never
\* came parks what waited for it.
Overdue(t) ==
  LET swept(late) ==
        [t EXCEPT !.item = [m \in Message |->
                     IF m \notin late THEN t.item[m]
                     ELSE [t.item[m] EXCEPT !.status = IF t.item[m].tries >= MaxAutoAttempts
                                                       THEN "unknown" ELSE "queued",
                                            !.backoff = TRUE]],
                  !.run = IF \E m \in late : AckTimeout(t.run, m) # t.run
                          THEN ToIdle(t.run) ELSE t.run]
      after == {swept(late) : late \in SUBSET WithStatus(t, "inflight")}
  IN after \cup {ReleaseAwaiting(u, "unknown") : u \in after}

\* What is uncertain and not waived holds the queue.
HoldForUnknown(t) ==
  LET open == {m \in WithStatus(t, "unknown") :
                 ~t.item[m].waived /\ t.run.active \in {NoMessage, m}}
  IN IF open = {} THEN t
     ELSE [t EXCEPT !.run = [(IF @.phase = "idle" THEN @ ELSE ToIdle(@)) EXCEPT !.hold = TRUE]]

\* flushTick() on one of S.
TickOn(S) ==
  \E t \in S : \E u \in Overdue(t) :
    FlushOn({HoldForUnknown(v) : v \in IF u.item = t.item THEN {u} ELSE Persist(u)}, Message)

----------------------------------------------------------------------------
(* The user. *)

\* send(): enqueue, and flush the new item unless one before it is eligible.
Type ==
  /\ typedSoFar < Typed /\ typedSoFar' = typedSoFar + 1 /\ UNCHANGED socket
  /\ FlushOn(Persist([tab EXCEPT !.item[typedSoFar'] = NewItem]), {typedSoFar'})
  /\ UNCHANGED <<downFrames, bridgeVars, dropped, restored>>

\* retry(): an item that may have been sent is copied into a new one, any other
\* starts over.  It waives the hold, and asks the storage again.
Retry(m) ==
  /\ tab.item[m].status \in {"failed", "unknown"} /\ UNCHANGED socket
  /\ LET t == [tab EXCEPT !.memoryOnly = FALSE]
         go(S) == TickOn({[u EXCEPT !.run.hold = FALSE] : u \in S})
     IN IF t.item[m].maybe \/ t.item[m].status = "unknown"
        THEN /\ typedSoFar < Typed /\ typedSoFar' = typedSoFar + 1
             /\ TextOf[typedSoFar'] = TextOf[m]
             /\ go(Persisted({[u EXCEPT !.item[m].waived = TRUE] :
                                u \in Persist([t EXCEPT !.item[typedSoFar'] = NewItem])}))
        ELSE /\ go(Persist([t EXCEPT !.item[m] = [@ EXCEPT !.status = "queued", !.tries = 0,
                                                         !.backoff = FALSE]]))
             /\ UNCHANGED typedSoFar
  /\ restored' = restored \ {m}
  /\ UNCHANGED <<downFrames, bridgeVars, dropped>>

\* discard() of a settled item, cancel() of a queued one.
Drop(m) ==
  /\ tab.item[m].status \in {"failed", "unknown", "queued"}
  /\ tab' \in Persist([tab EXCEPT !.item[m] = NoItem])
  /\ dropped' = dropped \cup {m}
  /\ UNCHANGED <<typedSoFar, socket, upFrames, downFrames, bridgeVars, restored>>

\* confirmFlush(): the follow-ups of what is uncertain may go, at the next tick.
ConfirmFlush ==
  /\ tab' \in Persist([tab EXCEPT !.run.hold = FALSE,
       !.item = [m \in Message |-> IF tab.item[m].status = "unknown"
                                   THEN [tab.item[m] EXCEPT !.waived = TRUE] ELSE tab.item[m]]])
  /\ UNCHANGED <<socket, upFrames, downFrames, bridgeVars, userVars>>

\* What a socket that is gone leaves: frames may still be read, nothing answers.
Unheard == {[f EXCEPT !.here = FALSE] : f \in upFrames}

Reload ==
  /\ tab' \in Persist([tab EXCEPT !.item = tab.disk,
                                  !.memoryOnly = FALSE, !.run = IdleRun])
  /\ socket' = FALSE /\ upFrames' = Unheard /\ downFrames' = <<>> /\ watching' = {}
  /\ restored' = restored \cup {m \in Message : tab'.item[m].status # "absent"}
  /\ UNCHANGED <<bridge, taken, typedSoFar, dropped>>

----------------------------------------------------------------------------
(* Timers, the socket, and what arrives on it. *)

FlushTick == UNCHANGED <<socket, downFrames, bridgeVars, userVars>> /\ TickOn({tab})

\* handleClosed(): inflight items are queued again, acked ones wait for history.
SocketCloses ==
  /\ socket /\ socket' = FALSE
  /\ tab' \in Persist([tab EXCEPT !.run = SocketLost(@),
       !.item = [m \in Message |->
          CASE tab.item[m].status = "inflight" -> [tab.item[m] EXCEPT !.status = "queued",
                                                                     !.backoff = FALSE]
            [] tab.item[m].status = "acked" -> [tab.item[m] EXCEPT !.awaiting = TRUE]
            [] OTHER -> tab.item[m]]])
  /\ upFrames' = Unheard /\ downFrames' = <<>> /\ watching' = {}
  /\ UNCHANGED <<bridge, taken, userVars>>

\* handleReady(): the hello names the runs that are going on, which are
\* resumed; a run it does not name is over.  Then the queue is flushed.
SocketReady ==
  /\ ~socket /\ socket' = TRUE
  /\ LET runs == {m \in Message : bridge[m] = "running"}
         run == IF runs # {}
                THEN [tab.run EXCEPT !.phase = "running", !.runOf = CHOOSE m \in runs : TRUE]
                ELSE IF tab.run.phase = "interruptedLocal" THEN ToIdle(tab.run) ELSE tab.run
     IN TickOn({[tab EXCEPT !.run = run]}) /\ watching' = runs
  /\ UNCHANGED <<downFrames, bridge, taken, userVars>>

\* mergeHistory() confirms an item by a row of its text, which n put there.
Confirms(m, n) == Has(tab, m) /\ tab.item[m].sent /\ taken[n] > 0 /\ TextOf[m] = TextOf[n]

\* A history answer: some of the items it may confirm (its window may miss one,
\* or it was read before the gateway stored the row), each by a row of its own.
\* Acked items that were waiting for it are sent again.
HistoryArrives ==
  /\ \E c \in SUBSET Message :
       \E row \in [c -> Message] :
         /\ \A m \in c : Confirms(m, row[m]) /\ \A n \in c : row[m] = row[n] => m = n
         /\ tab' \in Persist(ReleaseAwaiting([tab EXCEPT !.item = [m \in Message |->
                               IF m \in c THEN NoItem ELSE tab.item[m]]], "queued"))
  /\ UNCHANGED <<socket, upFrames, downFrames, bridgeVars, userVars>>

HistoryFails ==
  /\ tab' \in Persist(ReleaseAwaiting(tab, "unknown"))
  /\ UNCHANGED <<socket, upFrames, downFrames, bridgeVars, userVars>>

\* handleFrame() of ack, started, send-failed and done.
FrameReceived ==
  /\ downFrames # <<>>
  /\ downFrames' = Tail(downFrames)
  /\ LET m == Head(downFrames).msg
         what == Head(downFrames).what
     IN tab' \in CASE what = "ack" ->
                    IF Has(tab, m)
                    THEN Persist([tab EXCEPT !.item[m].status = "acked", !.item[m].sent = TRUE])
                    ELSE {tab}
               [] what = "started" -> {[tab EXCEPT !.run = RunStarted(@, m)]}
               [] what \in {"complete", "interrupted"} ->
                    {[tab EXCEPT !.run = RunDone(@, m, what)]}
               [] OTHER ->
                    IF Has(tab, m)
                    THEN Persist([MarkFailed(tab, m, what) EXCEPT
                                    !.run = SendFailed(@, m, what = "unknown")])
                    ELSE {[tab EXCEPT !.run = SendFailed(@, m, what = "unknown")]}
  /\ UNCHANGED <<socket, upFrames, bridgeVars, userVars>>

----------------------------------------------------------------------------
(* The bridge, at the grain of its durable row. *)

Replies(m, whats) == [k \in 1..Len(whats) |-> [msg |-> m, what |-> whats[k]]]
AnswerFrame(f, whats) ==
  downFrames' = IF f.here THEN downFrames \o Replies(f.msg, whats) ELSE downFrames
TellWatchers(m, what) ==
  downFrames' = IF m \in watching THEN Append(downFrames, [msg |-> m, what |-> what]) ELSE downFrames

\* A retry without a row has no evidence either way: it is not sent.
RetryBlocked(f) == bridge[f.msg] = "none" /\ f.retry

\* What a settled row replays.
Replay(m) ==
  CASE bridge[m] = "done" -> <<"ack", "complete">>
    [] bridge[m] = "interrupted" -> <<"ack", "interrupted">>
    [] bridge[m] = "unknown" -> <<"ack", "unknown">>

\* handleMessage().
FrameHandled(f) ==
  LET m == f.msg
      attach(n) == IF f.here THEN watching \cup {n} ELSE watching
      live == {n \in Message : bridge[n] \in {"pending", "running"}}
  IN /\ f \in upFrames /\ upFrames' = upFrames \ {f}
     /\ Len(downFrames) < MaxReplies
     /\ \/ /\ m \in live /\ watching' = attach(m)
           /\ AnswerFrame(f, IF bridge[m] = "running" THEN <<"ack", "started">> ELSE <<"ack">>)
           /\ UNCHANGED bridge
        \/ /\ m \notin live /\ AnswerFrame(f, <<"unknown">>) /\ UNCHANGED <<bridge, watching>>
        \/ /\ bridge[m] \in {"done", "interrupted", "unknown"}
           /\ AnswerFrame(f, Replay(m)) /\ UNCHANGED <<bridge, watching>>
        \/ /\ bridge[m] \in {"none", "rejected"} /\ ~RetryBlocked(f)
           /\ \/ \E n \in live : /\ AnswerFrame(f, <<"busy">>) /\ watching' = attach(n)
                                 /\ UNCHANGED bridge
              \/ ~f.retry /\ AnswerFrame(f, <<"refused">>) /\ UNCHANGED <<bridge, watching>>
              \/ /\ live = {} /\ AnswerFrame(f, <<"ack">>) /\ watching' = attach(m)
                 /\ bridge' = [bridge EXCEPT ![m] = "pending"]
     /\ UNCHANGED <<tab, socket, taken, userVars>>

\* The frame never reached the server.
FrameLost(f) ==
  /\ f \in upFrames /\ ~f.here /\ upFrames' = upFrames \ {f}
  /\ UNCHANGED <<tab, socket, downFrames, bridgeVars, userVars>>

\* The request to the gateway ends: taken, refused, or nobody knows.
GatewayTakes(m) ==
  /\ bridge[m] = "pending" /\ bridge' = [bridge EXCEPT ![m] = "running"]
  /\ taken' = [taken EXCEPT ![m] = @ + 1]
  /\ TellWatchers(m, "started")
  /\ UNCHANGED <<tab, socket, upFrames, watching, userVars>>

GatewayRefuses(m) ==
  /\ bridge[m] = "pending" /\ bridge' = [bridge EXCEPT ![m] = "rejected"]
  /\ \E what \in {"refused", "final"} : TellWatchers(m, what)
  /\ watching' = watching \ {m}
  /\ UNCHANGED <<tab, socket, upFrames, taken, userVars>>

SendUnanswered(m) ==
  /\ bridge[m] = "pending" /\ bridge' = [bridge EXCEPT ![m] = "unknown"]
  /\ taken' \in {taken, [taken EXCEPT ![m] = @ + 1]}
  /\ TellWatchers(m, "unknown") /\ watching' = watching \ {m}
  /\ UNCHANGED <<tab, socket, upFrames, userVars>>

RunFinishes(m) ==
  /\ bridge[m] = "running"
  /\ \E how \in {"done", "interrupted"} :
       /\ bridge' = [bridge EXCEPT ![m] = how]
       /\ TellWatchers(m, IF how = "done" THEN "complete" ELSE "interrupted")
  /\ watching' = watching \ {m}
  /\ UNCHANGED <<tab, socket, upFrames, taken, userVars>>

\* The server dies; the sockets close with it (SocketCloses), and the boot
\* settles the rows.
BridgeRestarts ==
  /\ ~socket /\ \E m \in Message : bridge[m] \in {"pending", "running"}
  /\ \E got \in SUBSET {m \in Message : bridge[m] = "pending"} :
       taken' = [m \in Message |-> IF m \in got THEN taken[m] + 1 ELSE taken[m]]
  /\ bridge' = [m \in Message |-> CASE bridge[m] = "pending" -> "unknown"
                                    [] bridge[m] = "running" -> "interrupted"
                                    [] OTHER -> bridge[m]]
  /\ UNCHANGED <<tab, socket, upFrames, downFrames, watching, userVars>>

OutboxNext ==
  \/ \E m \in Message :
       \/ Retry(m) \/ Drop(m)
       \/ GatewayTakes(m) \/ GatewayRefuses(m) \/ SendUnanswered(m) \/ RunFinishes(m)
  \/ Type \/ ConfirmFlush \/ Reload \/ FlushTick
  \/ SocketCloses \/ SocketReady
  \/ HistoryArrives \/ HistoryFails \/ FrameReceived
  \/ \E f \in upFrames : FrameHandled(f) \/ FrameLost(f)
  \/ BridgeRestarts

OutboxSpec == OutboxInit /\ [][OutboxNext]_outboxVars

----------------------------------------------------------------------------
(* Properties. *)

\* A message that leaves the outbox is answered for: the gateway took one of its
\* text, the user dropped it, or the storage of the page had failed.
AnsweredFor(m) ==
  \/ \E n \in Message : TextOf[m] = TextOf[n] /\ taken[n] > 0
  \/ m \in dropped' \/ tab.memoryOnly

\* No flush, reload, closed socket, late answer or history removes a typed message
\* unless the gateway took one of its text (restoreOnLoad(), mergeHistory()).
TextIsTaken == [][\A m \in Message : Has(tab, m) /\ ~Has(tab', m) => AnsweredFor(m)]_outboxVars

\* A message that was not dropped leaves the outbox only when the gateway took that
\* very message: "identical texts can't cross-confirm", says mergeHistory().
TextIsKept ==
  [][\A m \in Message :
       Has(tab, m) /\ ~Has(tab', m) =>
         taken[m] > 0 \/ m \in dropped' \/ tab.memoryOnly]_outboxVars

\* A send in flight is marked as such where a reload will look.
InflightIsMarked == \A m \in Message : tab.item[m].status = "inflight" => tab.disk[m].maybe

\* No send blocks the queue of its session for ever, whatever is lost on the way.
PendingSendEnds == tab.run.phase = "pendingSend" ~> tab.run.phase # "pendingSend"

===========================================================================
