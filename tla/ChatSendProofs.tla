-------------------------- MODULE ChatSendProofs --------------------------
(* Proofs about ChatSend, for every set of messages, sessions and handlers. *)
EXTENDS ChatSend, TLAPS

AtGateway == {"wire", "live", "ended"}

\* The registry: which phase goes with which flags, and how many aborts may be
\* awaited in it.
RecordOK(r) ==
  /\ r.phase = "none" => r = NoRecord
  /\ r.phase = "pending" => /\ ~r.started /\ ~r.stopRequested
                            /\ r.early = 0 /\ r.late = 0
  /\ r.phase = "running" => /\ r.started /\ ~r.stopRequested
                            /\ r.early + r.late <= 1
  /\ r.phase = "stopping" => /\ r.stopRequested /\ r.early + r.late <= 2
                             /\ (~r.started => r.late = 0)

\* The claim precedes and outlives the send: a live record has a row that is
\* not terminal, and a request in progress a row that forbids another.
ClaimOK(m) ==
  /\ Live(m) => row[m] \in {"pending", "running"}
  /\ rpc[m] # "none" => /\ row[m] \notin {"none", "rejected"}
                        /\ told[m] # "notSent" /\ ~rec[m].started
  /\ rpc[m] = "connecting" => gw[m] \notin AtGateway
  /\ rpc[m] = "no" => gw[m] = "refused"

\* Only a frame at the gateway was accepted, and each at most once.
CountOK(m) ==
  /\ gw[m] \in {"live", "ended"} => accepted[m] = 1
  /\ gw[m] \notin {"live", "ended"} => accepted[m] = 0

\* The parts of EvidenceCoversSend and NotSentIsTrue about one message.
CoverOK(m) == gw[m] \in AtGateway => row[m] \notin {"none", "rejected"}
ToldOK(m) == told[m] = "notSent" => gw[m] \notin AtGateway

MessageOK(m) == ClaimOK(m) /\ CountOK(m) /\ CoverOK(m) /\ ToldOK(m)

Sound ==
  /\ TypeOK
  /\ \A m \in Msg : RecordOK(rec[m])
  /\ \A m \in Msg : MessageOK(m)

IInv == Sound /\ OneActivePerSession

----------------------------------------------------------------------------
(* What the helpers do. *)

\* An ended record and a fresh one are records.
LEMMA RecordType ==
  NoRecord \in Record /\ BlankRecord("pending") \in Record
  BY DEF NoRecord, BlankRecord, Record

\* The buffer left by a finalization is a buffer.
LEMMA BufferType ==
  ASSUME NEW S, NEW e \in [Msg -> {"none", "flying", "buffered"}]
  PROVE  BufferAfter(S, e) \in [Msg -> {"none", "flying", "buffered"}]
  BY DEF BufferAfter

\* finalizeAndEmit: the records of S end, each row is as before or its outcome,
\* only a rejected record is told notSubmitted, and no other message changes.
LEMMA FinalizeEffect ==
  ASSUME TypeOK, NEW S \in SUBSET Msg, NEW out, NEW saved,
         \A m \in S : out[m] \in TerminalRow, Finalize(S, out, saved)
  PROVE  /\ rec' = [m \in Msg |-> IF m \in S THEN NoRecord ELSE rec[m]]
         /\ row' \in [Msg -> Row]
         /\ told' \in [Msg -> {"nothing", "ack", "notSent", "readOnly", "unknown",
                               "settled"}]
         /\ \A m \in Msg \ S : row'[m] = row[m] /\ told'[m] = told[m]
         /\ \A m \in S : row'[m] \in {row[m], out[m]}
         /\ \A m \in S : told'[m] = "notSent" => out[m] = "rejected"
  <1>1. TerminalRow \subseteq Row
    BY DEF Row
  <1>2. \A m \in S : Report(out[m], m \in saved, rec[m].started)
                       \in {"unknown", "notSent", "settled"}
    BY DEF Report
  <1>3. \A m \in S : Report(out[m], m \in saved, rec[m].started) = "notSent"
                       => out[m] = "rejected"
    BY DEF Report
  <1> QED BY <1>1, <1>2, <1>3 DEF Finalize, TypeOK

\* The same for one record.
LEMMA SettleEffect ==
  ASSUME TypeOK, NEW m \in Msg, NEW out \in TerminalRow,
         NEW e \in [Msg -> {"none", "flying", "buffered"}], SettleWith(m, out, e)
  PROVE  /\ rec' = [rec EXCEPT ![m] = NoRecord]
         /\ row' \in [Msg -> Row]
         /\ told' \in [Msg -> {"nothing", "ack", "notSent", "readOnly", "unknown",
                               "settled"}]
         /\ ev' \in [Msg -> {"none", "flying", "buffered"}]
         /\ \A n \in Msg \ {m} : row'[n] = row[n] /\ told'[n] = told[n]
         /\ row'[m] \in {row[m], out}
         /\ told'[m] = "notSent" => out = "rejected"
  <1> DEFINE o == [n \in {m} |-> out]
  <1>1. PICK saved \in SUBSET {m} : Finalize({m}, o, saved)
    BY DEF SettleWith
  <1>2. {m} \in SUBSET Msg /\ \A n \in {m} : o[n] \in TerminalRow /\ o[n] = out
    OBVIOUS
  <1> HIDE DEF o
  <1>3. /\ rec' = [n \in Msg |-> IF n \in {m} THEN NoRecord ELSE rec[n]]
        /\ row' \in [Msg -> Row]
        /\ told' \in [Msg -> {"nothing", "ack", "notSent", "readOnly", "unknown",
                              "settled"}]
        /\ \A n \in Msg \ {m} : row'[n] = row[n] /\ told'[n] = told[n]
        /\ \A n \in {m} : row'[n] \in {row[n], o[n]}
        /\ \A n \in {m} : told'[n] = "notSent" => o[n] = "rejected"
    BY <1>1, <1>2, FinalizeEffect
  <1>4. ev' \in [Msg -> {"none", "flying", "buffered"}]
    BY BufferType DEF SettleWith
  <1>5. rec' = [rec EXCEPT ![m] = NoRecord]
    BY <1>3 DEF TypeOK
  <1> QED BY <1>2, <1>3, <1>4, <1>5

----------------------------------------------------------------------------
(* Every step keeps the records, rows, requests and tellings sound. *)

\* A record that ends takes nothing from the gateway back; if it ends as not
\* submitted, its request is over and no frame of it is at the gateway.
LEMMA SettleStep ==
  ASSUME Sound, NEW m \in Msg, Live(m), NEW out \in TerminalRow,
         NEW e \in [Msg -> {"none", "flying", "buffered"}], SettleWith(m, out, e),
         UNCHANGED <<handler, gatewayVars>>,
         rpc' = rpc \/ rpc' = [rpc EXCEPT ![m] = "none"],
         out = "rejected" => gw[m] \notin AtGateway /\ rpc'[m] = "none"
  PROVE  Sound'
  <1>1. /\ rec' = [rec EXCEPT ![m] = NoRecord]
        /\ row' \in [Msg -> Row]
        /\ told' \in [Msg -> {"nothing", "ack", "notSent", "readOnly", "unknown",
                              "settled"}]
        /\ ev' \in [Msg -> {"none", "flying", "buffered"}]
        /\ \A n \in Msg \ {m} : row'[n] = row[n] /\ told'[n] = told[n]
        /\ row'[m] \in {row[m], out}
        /\ told'[m] = "notSent" => out = "rejected"
    BY SettleEffect DEF Sound
  <1>2. TypeOK'
    BY <1>1, RecordType DEF Sound, TypeOK, gatewayVars
  <1>3. ASSUME NEW n \in Msg PROVE RecordOK(rec'[n])
    BY <1>1 DEF Sound, TypeOK, RecordOK, NoRecord, BlankRecord, Record
  <1>4. ASSUME NEW n \in Msg PROVE MessageOK(n)'
    <2>1. CASE n # m
      BY <2>1, <1>1 DEF Sound, TypeOK, MessageOK, ClaimOK, CountOK, CoverOK, ToldOK,
                        Live, gatewayVars
    <2>2. CASE n = m
      <3>1. rec'[m] = NoRecord /\ ~Live(m)'
        BY <1>1 DEF Sound, TypeOK, Live, NoRecord, BlankRecord
      <3>2. row[m] \in {"pending", "running"} /\ MessageOK(m)
        BY DEF Sound, MessageOK, ClaimOK
      <3>3. row'[m] \notin {"none", "rejected"} \/ (row'[m] = "rejected" /\ out = "rejected")
        BY <1>1, <3>2 DEF TerminalRow
      <3> QED BY <2>2, <1>1, <3>1, <3>2, <3>3
              DEF Sound, TypeOK, MessageOK, ClaimOK, CountOK, CoverOK, ToldOK,
                  gatewayVars, NoRecord, BlankRecord
    <2> QED BY <2>1, <2>2
  <1> QED BY <1>2, <1>3, <1>4 DEF Sound

\* A message frame: an answer changes what is told only, and tells notSubmitted
\* only of an unclaimed row; a dispatch follows the claim.
LEMMA AnswerStep ==
  ASSUME Sound, NEW m \in Msg,
         NEW what \in {"ack", "notSent", "readOnly", "unknown", "settled"},
         Answer(m, what), what = "notSent" => row[m] \in {"none", "rejected"},
         handler' \in [Handler -> Waiting \cup {Idle}]
  PROVE  Sound' /\ rec' = rec
  BY DEF Sound, TypeOK, Answer, Tell, MessageOK, ClaimOK, CountOK, CoverOK, ToldOK,
         Live, gatewayVars

\* createRecord and the request: the claim precedes the frame, on a free session.
LEMMA DispatchStep ==
  ASSUME Sound, NEW m \in Msg, row[m] \in {"none", "rejected"},
         Claim(m), Dispatch(m), handler' \in [Handler -> Waiting \cup {Idle}]
  PROVE  Sound'
  <1> USE DEF Sound, Claim, Dispatch, Tell
  <1>1. TypeOK'
    BY RecordType DEF TypeOK, Row
  <1>2. \A n \in Msg : RecordOK(rec'[n])
    BY DEF TypeOK, RecordOK, NoRecord, BlankRecord
  <1>3. gw[m] \notin AtGateway
    BY DEF MessageOK, CoverOK
  <1>4. \A n \in Msg : MessageOK(n)'
    BY <1>3 DEF TypeOK, MessageOK, ClaimOK, CountOK, CoverOK, ToldOK, Live, NoRecord, BlankRecord,
                AtGateway
  <1> QED BY <1>1, <1>2, <1>4


\* Admission as a whole.
LEMMA AdmitStep ==
  ASSUME Sound, NEW m \in Msg, NEW retry \in BOOLEAN, Admit(m, retry),
         handler' \in [Handler -> Waiting \cup {Idle}]
  PROVE  Sound'
  <1>1. CASE Answer(m, "ack") \/ Answer(m, "unknown") \/ Answer(m, "settled")
    BY <1>1, AnswerStep
  <1>2. CASE row[m] \in {"none", "rejected"} /\ Answer(m, "notSent")
    BY <1>2, AnswerStep
  <1>3. CASE row[m] \in {"none", "rejected"} /\ Claim(m) /\ Dispatch(m)
    BY <1>3, DispatchStep
  <1> QED BY <1>1, <1>2, <1>3 DEF Admit, Submitted

\* A frame that waits for its policy changes nothing, one that does not is admitted
\* or answered.
LEMMA FrameStep ==
  ASSUME Sound, FrameArrives \/ \E h \in Handler : PolicyArrives(h)
  PROVE  Sound'
  <1>1. CASE \E h \in Handler : PolicyArrives(h)
    <2>1. PICK h \in Handler : PolicyArrives(h)
      BY <1>1
    <2>2. /\ handler[h].msg \in Msg /\ handler[h].retry \in BOOLEAN
          /\ handler' \in [Handler -> Waiting \cup {Idle}]
      BY <2>1 DEF PolicyArrives, Sound, TypeOK, Waiting
    <2>3. CASE Answer(handler[h].msg, "readOnly")
      BY <2>2, <2>3, AnswerStep
    <2>4. CASE Admit(handler[h].msg, handler[h].retry)
      BY <2>2, <2>4, AdmitStep
    <2> QED BY <2>1, <2>3, <2>4 DEF PolicyArrives
  <1>2. CASE FrameArrives
    <2>1. PICK h \in Handler, m \in Msg, retry \in BOOLEAN :
            AwaitPolicy(h, m, retry) \/ AdmitAtOnce(h, m, retry)
      BY <1>2 DEF FrameArrives
    <2>2. CASE AwaitPolicy(h, m, retry)
      <3>1. [msg |-> m, retry |-> retry] \in Waiting
        BY DEF Waiting
      <3>2. handler' \in [Handler -> Waiting \cup {Idle}]
        BY <2>2, <3>1 DEF AwaitPolicy, Sound, TypeOK
      <3> QED BY <2>2, <3>2 DEF AwaitPolicy, Sound, TypeOK, MessageOK, ClaimOK,
                CountOK, CoverOK, ToldOK, Live, gatewayVars
    <2>3. CASE AdmitAtOnce(h, m, retry)
      <3>1. handler' \in [Handler -> Waiting \cup {Idle}]
        BY <2>3 DEF AdmitAtOnce, Sound, TypeOK
      <3> QED BY <2>3, <3>1, AdmitStep, AnswerStep DEF AdmitAtOnce
    <2> QED BY <2>1, <2>2, <2>3
  <1> QED BY <1>1, <1>2

\* The answers, timeouts and refusals of the chat.send request.
LEMMA RequestSound ==
  ASSUME Sound, NEW m \in Msg, RequestStep(m)
  PROVE  Sound'
  <1>1. ASSUME rpc[m] # "none", rpc' = [rpc EXCEPT ![m] = "none"],
               UNCHANGED <<handler, rec, row, told, ev, up, gw, accepted>>,
               aborting' \subseteq Session
        PROVE  Sound'
    BY <1>1 DEF Sound, TypeOK, MessageOK, ClaimOK, CountOK, CoverOK, ToldOK, Live
  <1>2. MessageOK(m) /\ rpc \in [Msg -> {"none", "connecting", "sent", "ok", "no"}]
    BY DEF Sound, TypeOK
  <1>3. CASE ConnectFails(m) \/ RefusalArrives(m)
    <2>1. /\ rpc' = [rpc EXCEPT ![m] = "none"] /\ rpc'[m] = "none"
          /\ gw[m] \notin AtGateway
      BY <1>2, <1>3 DEF ConnectFails, RefusalArrives, MessageOK, ClaimOK, AtGateway
    <2>2. CASE Live(m)
      <3>1. Settle(m, "rejected") /\ UNCHANGED <<handler, gatewayVars>>
        BY <1>3, <2>2 DEF ConnectFails, RefusalArrives
      <3> QED BY <2>1, <2>2, <3>1, SettleStep DEF TerminalRow, Settle, Sound, TypeOK
    <2>3. CASE ~Live(m)
      BY <1>1, <1>3, <2>1, <2>3 DEF ConnectFails, RefusalArrives, gatewayVars, Sound, TypeOK
    <2> QED BY <2>2, <2>3
  <1>4. CASE RequestTimesOut(m)
    <2>1. CASE Live(m)
      BY <1>4, <2>1, SettleStep DEF RequestTimesOut, TerminalRow, Settle, Sound, TypeOK
    <2>2. CASE ~Live(m)
      BY <1>1, <1>4, <2>2 DEF RequestTimesOut, gatewayVars, Sound, TypeOK
    <2> QED BY <2>1, <2>2
  <1>5. CASE AbortOrphan(m)
    BY <1>1, <1>5, SessionAssumption DEF AbortOrphan, Sound, TypeOK
  <1>6. CASE RunIdMissing(m)
    BY <1>6, SettleStep DEF RunIdMissing, TerminalRow, Settle, Sound, TypeOK
  <1>7. CASE RunStartsAndEnds(m)
    <2> USE <1>7 DEF RunStartsAndEnds
    <2>1. row[m] \in {"pending", "running"}
      BY <1>2 DEF MessageOK, ClaimOK
    <2>2. PICK r \in {EndOutcome(m), "error", "running", row[m]} :
            row' = [row EXCEPT ![m] = r]
      OBVIOUS
    <2>3. r \in {"stopped", "done", "error", "running", "pending"}
      BY <2>1, <2>2 DEF EndOutcome
    <2>4. ev' \in [Msg -> {"none", "flying", "buffered"}]
      BY BufferType DEF Sound, TypeOK
    <2>5. TypeOK'
      BY <2>2, <2>3, <2>4, RecordType DEF Sound, TypeOK, Tell, Row, TerminalRow, gatewayVars
    <2>6. \A n \in Msg : RecordOK(rec'[n])
      BY DEF Sound, TypeOK, RecordOK, NoRecord, BlankRecord
    <2>7. \A n \in Msg : MessageOK(n)'
      BY <2>2, <2>3 DEF Sound, TypeOK, Tell, MessageOK, ClaimOK, CountOK, CoverOK, ToldOK,
                        Live, NoRecord, BlankRecord, gatewayVars
    <2> QED BY <2>5, <2>6, <2>7 DEF Sound
  <1>8. CASE RunStarts(m)
    <2>1. /\ rec[m] \in Record /\ RecordOK(rec[m]) /\ ~rec[m].started
          /\ rec[m].phase \in {"pending", "stopping"}
          /\ row[m] \in {"pending", "running"} /\ told[m] # "notSent"
      BY <1>2, <1>8 DEF RunStarts, Sound, TypeOK, MessageOK, ClaimOK, Live, RecordOK, Record
    <2>2. rec'[m] \in Record /\ RecordOK(rec'[m]) /\ rec'[m].phase # "none"
      BY <1>8, <2>1 DEF RunStarts, Sound, TypeOK, Record, RecordOK
    <2>3. /\ \A n \in Msg \ {m} : rec'[n] = rec[n] /\ row'[n] = row[n]
          /\ rec' \in [Msg -> Record] /\ row' \in [Msg -> Row]
          /\ row'[m] \in {"pending", "running"}
          /\ rpc' = [rpc EXCEPT ![m] = "none"]
          /\ UNCHANGED <<handler, ev, told, up, gw, accepted, aborting>>
      BY <1>8, <2>1, <2>2 DEF RunStarts, Sound, TypeOK, Row, Record, gatewayVars
    <2>4. TypeOK' /\ \A n \in Msg : RecordOK(rec'[n])
      BY <2>2, <2>3 DEF Sound, TypeOK
    <2>5. \A n \in Msg : MessageOK(n)'
      BY <2>1, <2>2, <2>3 DEF Sound, TypeOK, MessageOK, ClaimOK, CountOK, CoverOK,
                              ToldOK, Live
    <2> QED BY <2>4, <2>5 DEF Sound
  <1> QED BY <1>3, <1>4, <1>5, <1>6, <1>7, <1>8 DEF RequestStep

\* A record whose stop is rolled back, with e and l aborts still awaited.
RolledBack(r, e, l) ==
  [phase |-> IF r.started THEN "running" ELSE "pending",
   started |-> r.started, stopRequested |-> FALSE, early |-> e, late |-> l,
   timer |-> r.timer, confirmed |-> r.confirmed]

\* Rolling back one of a record's aborts leaves it live and well-formed.
LEMMA RollBackOK ==
  ASSUME NEW r \in Record, RecordOK(r), NEW e \in 0..1, NEW l \in 0..2,
         e <= r.early, l <= r.late, e + l = r.early + r.late - 1
  PROVE  LET q == RolledBack(r, e, l)
         IN /\ q \in Record /\ RecordOK(q) /\ q.phase # "none"
            /\ r.phase # "none" /\ q.started = r.started
  <1> DEFINE q == RolledBack(r, e, l)
  <1>1. /\ q.early = e /\ q.late = l /\ q.stopRequested = FALSE
        /\ q.phase = (IF r.started THEN "running" ELSE "pending")
        /\ q.started = r.started /\ q \in Record
    BY DEF RolledBack, Record
  <1>2. r.early \in 0..1 /\ r.late \in 0..2 /\ r.started \in BOOLEAN
        /\ r.phase \in {"none", "pending", "running", "stopping"}
    BY DEF Record
  <1>3. r.phase \in {"running", "stopping"}
    <2>1. r.early + r.late > 0
      BY <1>2
    <2>2. NoRecord.early = 0 /\ NoRecord.late = 0
      BY DEF NoRecord, BlankRecord
    <2> QED BY <1>2, <2>1, <2>2 DEF RecordOK
  <1>4. e + l <= 1
    <2>1. r.early + r.late <= 1 \/ r.early + r.late <= 2
      BY <1>3, Zenon DEF RecordOK
    <2>2. \A a, b, c, d \in Int :
            (a + b <= 1 \/ a + b <= 2) /\ c + d = a + b - 1 => c + d <= 1
      OBVIOUS
    <2>3. r.early \in Int /\ r.late \in Int /\ e \in Int /\ l \in Int
      BY <1>2
    <2> QED BY <2>1, <2>2, <2>3, Zenon
  <1>5. ~r.started => e = 0 /\ l = 0
    <2>1. ~r.started => r.late = 0
      BY <1>3 DEF RecordOK
    <2> QED BY <1>2, <2>1
  <1>6. RecordOK(q)
    BY <1>1, <1>4, <1>5 DEF RecordOK
  <1> QED BY <1>1, <1>3, <1>6

\* A stop and its aborts change the record only, and a timer ends it.
LEMMA StopSound ==
  ASSUME Sound, NEW m \in Msg, StopStep(m)
  PROVE  Sound'
  <1>1. ASSUME rec[m].phase # "none", rec' \in [Msg -> Record], RecordOK(rec'[m]),
               rec'[m].phase # "none", rec'[m].started = rec[m].started,
               \A n \in Msg \ {m} : rec'[n] = rec[n],
               UNCHANGED <<handler, rpc, row, ev, told, gatewayVars>>
        PROVE  Sound'
    BY <1>1 DEF Sound, TypeOK, MessageOK, ClaimOK, CountOK, CoverOK, ToldOK, Live,
                gatewayVars
  <1>2. rec[m] \in Record /\ RecordOK(rec[m])
    BY DEF Sound, TypeOK
  <1>3. CASE Stop(m)
    <2>1. rec'[m] \in Record /\ RecordOK(rec'[m]) /\ rec'[m].phase # "none"
          /\ rec[m].phase # "none" /\ rec'[m].started = rec[m].started
      BY <1>2, <1>3 DEF Stop, Sound, TypeOK, Record, RecordOK
    <2>2. rec \in [Msg -> Record]
      BY DEF Sound, TypeOK
    <2>3. rec' = [rec EXCEPT ![m] = rec'[m]]
      BY <1>3, <2>2 DEF Stop
    <2>4. rec' \in [Msg -> Record] /\ \A n \in Msg \ {m} : rec'[n] = rec[n]
      BY <2>1, <2>2, <2>3
    <2>5. UNCHANGED <<handler, rpc, row, ev, told, gatewayVars>>
      BY <1>3 DEF Stop
    <2> QED BY <1>1, <2>1, <2>4, <2>5
  <1>4. CASE AbortSucceeds(m)
    <2>1. rec'[m] \in Record /\ RecordOK(rec'[m]) /\ rec'[m].phase # "none"
          /\ rec[m].phase # "none" /\ rec'[m].started = rec[m].started
      <3>1. rec \in [Msg -> Record] /\ rec[m].early \in 0..1 /\ rec[m].late \in 0..2
        BY <1>2 DEF Sound, TypeOK, Record
      <3>2. rec[m].phase # "none"
        BY <1>2, <1>4, <3>1 DEF AbortSucceeds, RecordOK, NoRecord, BlankRecord
      <3>3. CASE /\ rec[m].early > 0
                 /\ rec' = [rec EXCEPT ![m].early = @ - 1, ![m].timer = TRUE]
        <4>1. /\ rec'[m] = [rec[m] EXCEPT !.early = @ - 1, !.timer = TRUE]
              /\ rec[m].early - 1 \in 0..1
          BY <3>1, <3>3
        <4>2. rec'[m] \in Record
          BY <1>2, <4>1 DEF Record
        <4>3. /\ rec'[m].early = rec[m].early - 1
              /\ rec'[m].late = rec[m].late
              /\ rec'[m].phase = rec[m].phase /\ rec'[m].started = rec[m].started
              /\ rec'[m].stopRequested = rec[m].stopRequested
          BY <1>2, <4>1 DEF Record
        <4>4. RecordOK(rec'[m])
          BY <1>2, <3>1, <3>2, <3>3, <4>3 DEF RecordOK
        <4> QED BY <3>2, <4>2, <4>3, <4>4
      <3>4. CASE /\ rec[m].late > 0
                 /\ rec' = [rec EXCEPT ![m].late = @ - 1, ![m].timer = TRUE,
                                       ![m].confirmed = TRUE]
        <4>1. /\ rec'[m] = [rec[m] EXCEPT !.late = @ - 1, !.timer = TRUE,
                                          !.confirmed = TRUE]
              /\ rec[m].late - 1 \in 0..2
          BY <3>1, <3>4
        <4>2. rec'[m] \in Record
          BY <1>2, <4>1 DEF Record
        <4>3. /\ rec'[m].late = rec[m].late - 1
              /\ rec'[m].early = rec[m].early
              /\ rec'[m].phase = rec[m].phase /\ rec'[m].started = rec[m].started
              /\ rec'[m].stopRequested = rec[m].stopRequested
          BY <1>2, <4>1 DEF Record
        <4>4. RecordOK(rec'[m])
          BY <1>2, <3>1, <3>2, <3>4, <4>3 DEF RecordOK
        <4> QED BY <3>2, <4>2, <4>3, <4>4
      <3> QED BY <1>4, <3>3, <3>4 DEF AbortSucceeds
    <2>2. rec \in [Msg -> Record]
      BY DEF Sound, TypeOK
    <2>3. rec' = [rec EXCEPT ![m] = rec'[m]]
      BY <1>4, <2>2 DEF AbortSucceeds
    <2>4. rec' \in [Msg -> Record] /\ \A n \in Msg \ {m} : rec'[n] = rec[n]
      BY <2>1, <2>2, <2>3
    <2>5. UNCHANGED <<handler, rpc, row, ev, told, gatewayVars>>
      BY <1>4 DEF AbortSucceeds
    <2> QED BY <1>1, <2>1, <2>4, <2>5
  <1>5. CASE AbortFails(m)
    <2>1. rec'[m] \in Record /\ RecordOK(rec'[m]) /\ rec'[m].phase # "none"
          /\ rec[m].phase # "none" /\ rec'[m].started = rec[m].started
    <3>1. \E e \in 0..1, l \in 0..2 :
            /\ e <= rec[m].early /\ l <= rec[m].late
            /\ e + l = rec[m].early + rec[m].late - 1
            /\ rec'[m] = RolledBack(rec[m], e, l)
      <4>1. rec \in [Msg -> Record] /\ rec[m].early \in 0..1 /\ rec[m].late \in 0..2
        BY <1>2 DEF Sound, TypeOK, Record
      <4>2. CASE rec[m].early > 0 /\ rec'[m] = RolledBack(rec[m], rec[m].early - 1, rec[m].late)
        BY <4>1, <4>2
      <4>3. CASE rec[m].late > 0 /\ rec'[m] = RolledBack(rec[m], rec[m].early, rec[m].late - 1)
        BY <4>1, <4>3
      <4>4. rec[m] = [phase |-> rec[m].phase, started |-> rec[m].started,
                      stopRequested |-> rec[m].stopRequested,
                      early |-> rec[m].early, late |-> rec[m].late,
                      timer |-> rec[m].timer, confirmed |-> rec[m].confirmed]
        BY <1>2 DEF Record
      <4>5. CASE /\ rec[m].early > 0
                 /\ rec' = [rec EXCEPT ![m].early = @ - 1, ![m].stopRequested = FALSE,
                                       ![m].phase = PhaseBeforeStop(m)]
        <5>1. rec'[m] = [rec[m] EXCEPT !.early = @ - 1, !.stopRequested = FALSE,
                                       !.phase = PhaseBeforeStop(m)]
          BY <4>1, <4>5
        <5>2. rec'[m] = RolledBack(rec[m], rec[m].early - 1, rec[m].late)
          BY <4>4, <5>1 DEF RolledBack, PhaseBeforeStop
        <5> QED BY <4>2, <4>5, <5>2
      <4>6. CASE /\ rec[m].late > 0
                 /\ rec' = [rec EXCEPT ![m].late = @ - 1, ![m].stopRequested = FALSE,
                                       ![m].phase = PhaseBeforeStop(m)]
        <5>1. rec'[m] = [rec[m] EXCEPT !.late = @ - 1, !.stopRequested = FALSE,
                                       !.phase = PhaseBeforeStop(m)]
          BY <4>1, <4>6
        <5>2. rec'[m] = RolledBack(rec[m], rec[m].early, rec[m].late - 1)
          BY <4>4, <5>1 DEF RolledBack, PhaseBeforeStop
        <5> QED BY <4>3, <4>6, <5>2
      <4> QED
        BY <1>5, <4>5, <4>6 DEF AbortFails
    <3> QED BY <1>2, <3>1, RollBackOK
    <2>2. rec \in [Msg -> Record]
      BY DEF Sound, TypeOK
    <2>3. rec' = [rec EXCEPT ![m] = rec'[m]]
      BY <1>5, <2>2 DEF AbortFails
    <2>4. rec' \in [Msg -> Record] /\ \A n \in Msg \ {m} : rec'[n] = rec[n]
      BY <2>1, <2>2, <2>3
    <2>5. UNCHANGED <<handler, rpc, row, ev, told, gatewayVars>>
      BY <1>5 DEF AbortFails
    <2> QED BY <1>1, <2>1, <2>4, <2>5
  <1>6. CASE StopTimerFires(m)
    <2>1. Live(m)
      BY <1>2, <1>6 DEF StopTimerFires, RecordOK, NoRecord, BlankRecord, Live
    <2> QED BY <1>6, <2>1, SettleStep DEF StopTimerFires, TerminalRow, Settle, Sound, TypeOK
  <1> QED BY <1>3, <1>4, <1>5, <1>6 DEF StopStep

\* Events and the sweeper end started records only.
LEMMA EventSound ==
  ASSUME Sound, NEW m \in Msg, EventStep(m)
  PROVE  Sound'
  <1>1. RecordOK(rec[m]) /\ (rec[m].started => Live(m))
    BY DEF Sound, RecordOK, NoRecord, BlankRecord, Live
  <1>2. CASE UnattributedEnd(m) \/ Stall(m)
    BY <1>1, <1>2, SettleStep DEF UnattributedEnd, Stall, EndOutcome, TerminalRow, Settle, Sound, TypeOK
  <1>3. CASE EndArrives(m)
    <2>1. CASE rec[m].started
      <3>1. PICK out \in {EndOutcome(m), "error"} :
              SettleWith(m, out, [ev EXCEPT ![m] = "none"])
        BY <1>3, <2>1 DEF EndArrives
      <3>2. out \in TerminalRow /\ out # "rejected"
        BY DEF EndOutcome, TerminalRow
      <3>3. [ev EXCEPT ![m] = "none"] \in [Msg -> {"none", "flying", "buffered"}]
        BY DEF Sound, TypeOK
      <3>4. UNCHANGED <<handler, rpc, gatewayVars>>
        BY <1>3 DEF EndArrives
      <3> QED BY <1>1, <2>1, <3>1, <3>2, <3>3, <3>4, SettleStep
    <2>2. CASE ~rec[m].started
      BY <1>3, <2>2 DEF EndArrives, Sound, TypeOK, MessageOK, ClaimOK, CountOK,
                        CoverOK, ToldOK, Live, gatewayVars
    <2> QED BY <2>1, <2>2
  <1> QED BY <1>2, <1>3 DEF EventStep

\* The gateway moves a frame on; it accepts only what is on the wire.
LEMMA GatewaySound ==
  ASSUME Sound, NEW m \in Msg, GatewayStep(m)
  PROVE  Sound'
  <1> USE DEF Sound, TypeOK, MessageOK, ClaimOK, CountOK, CoverOK, ToldOK, Live, AtGateway
  <1>1. CASE Accept(m)
    BY <1>1 DEF Accept
  <1>2. CASE Refuse(m)
    BY <1>2 DEF Refuse
  <1>3. CASE Lose(m)
    BY <1>3 DEF Lose
  <1>4. CASE RunEnds(m)
    BY <1>4 DEF RunEnds
  <1> QED BY <1>1, <1>2, <1>3, <1>4 DEF GatewayStep

\* Session-wide aborts touch no record and no row.
LEMMA SessionSound ==
  ASSUME Sound, NEW s \in Session, StopUntracked(s) \/ GatewayAborts(s)
  PROVE  Sound'
  <1> USE DEF Sound, TypeOK, MessageOK, ClaimOK, CountOK, CoverOK, ToldOK, Live, AtGateway
  <1>1. CASE StopUntracked(s)
    BY <1>1 DEF StopUntracked
  <1>2. CASE GatewayAborts(s)
    <2>1. PICK hit \in {{}, {m \in Msg : SessionOf[m] = s /\ gw[m] = "live"}} :
            /\ gw' = [m \in Msg |-> IF m \in hit THEN "ended" ELSE gw[m]]
            /\ ev' = [m \in Msg |-> IF m \in hit /\ up THEN "flying" ELSE ev[m]]
      BY <1>2 DEF GatewayAborts
    <2>2. \A m \in Msg : gw'[m] = gw[m] \/ (gw[m] = "live" /\ gw'[m] = "ended")
      BY <2>1
    <2>3. /\ gw' \in [Msg -> {"none", "wire", "live", "ended", "refused", "lost"}]
          /\ ev' \in [Msg -> {"none", "flying", "buffered"}]
      BY <2>1
    <2> QED BY <1>2, <2>2, <2>3 DEF GatewayAborts
  <1> QED BY <1>1, <1>2

\* The connection and the process come and go.
LEMMA WorldSound ==
  ASSUME Sound, Connect \/ Disconnect \/ Restart
  PROVE  Sound'
  <1>1. CASE Connect
    BY <1>1 DEF Connect, Sound, TypeOK, MessageOK, ClaimOK, CountOK, CoverOK, ToldOK,
                Live, AtGateway
  <1>2. CASE Restart
    <2>1. \A r \in Row : /\ Reconciled(r) \in Row
                         /\ Reconciled(r) \in {"none", "rejected"} => Reconciled(r) = r
      BY DEF Reconciled, Row, TerminalRow
    <2> QED BY <1>2, <2>1, RecordType DEF Restart, Sound, TypeOK, RecordOK, MessageOK,
              ClaimOK, CountOK, CoverOK, ToldOK, Live, NoRecord, BlankRecord
  <1>3. CASE Disconnect
    <2> DEFINE cut == Started \cup {m \in Msg : Live(m) /\ rpc[m] # "none"}
               out == [m \in cut |-> IF rec[m].started THEN "interrupted" ELSE "unknown"]
    <2>1. PICK saved \in SUBSET cut : Finalize(cut, out, saved)
      BY <1>3 DEF Disconnect
    <2>2. cut \in SUBSET Msg /\ \A m \in cut : Live(m)
      BY DEF Started, Sound, RecordOK, NoRecord, BlankRecord, Live
    <2>3. \A m \in cut : out[m] \in {"interrupted", "unknown"}
      OBVIOUS
    <2> HIDE DEF cut, out
    <2>4. \A m \in cut : out[m] \in TerminalRow
      BY <2>3 DEF TerminalRow
    <2>5. /\ rec' = [m \in Msg |-> IF m \in cut THEN NoRecord ELSE rec[m]]
          /\ row' \in [Msg -> Row]
          /\ told' \in [Msg -> {"nothing", "ack", "notSent", "readOnly", "unknown",
                                "settled"}]
          /\ \A m \in Msg \ cut : row'[m] = row[m] /\ told'[m] = told[m]
          /\ \A m \in cut : row'[m] \in {row[m], out[m]}
          /\ \A m \in cut : told'[m] = "notSent" => out[m] = "rejected"
      BY <2>1, <2>2, <2>4, FinalizeEffect DEF Sound
    <2>6. TypeOK'
      BY <1>3, <2>5, RecordType DEF Disconnect, Sound, TypeOK
    <2>7. \A m \in Msg : RecordOK(rec'[m])
      BY <2>5 DEF Sound, TypeOK, RecordOK, NoRecord, BlankRecord
    <2>8. \A m \in cut : row'[m] \notin {"none", "rejected"} /\ told'[m] # "notSent"
      BY <2>2, <2>3, <2>5 DEF Sound, MessageOK, ClaimOK
    <2>9. \A m \in Msg : MessageOK(m)'
      BY <1>3, <2>2, <2>5, <2>8 DEF Disconnect, Sound, TypeOK, MessageOK, ClaimOK,
           CountOK, CoverOK, ToldOK, Live, NoRecord, BlankRecord
    <2> QED BY <2>6, <2>7, <2>9 DEF Sound
  <1> QED BY <1>1, <1>2, <1>3

----------------------------------------------------------------------------
(* The inductive invariant, and what follows from it. *)

\* A durable outcome stays.
RowStays(m) == row[m] \in TerminalRow \ {"rejected"} => row'[m] = row[m]

\* What a step does to records and rows: it makes no record and leaves durable
\* outcomes alone, or it admits one message to a session that is free.
Quiet == \A m \in Msg : (Live(m)' => Live(m)) /\ RowStays(m)
Admits(m) == /\ ~Busy(m) /\ row[m] \in {"none", "rejected"}
             /\ rec' = [rec EXCEPT ![m] = BlankRecord("pending")]
             /\ row' = [row EXCEPT ![m] = "pending"]

\* Rows are written for live records only: by their end, or by markRunning.
LEMMA SettleIsQuiet ==
  ASSUME Sound, NEW m \in Msg, Live(m), NEW out \in TerminalRow,
         NEW e \in [Msg -> {"none", "flying", "buffered"}], SettleWith(m, out, e)
  PROVE  Quiet
  <1>1. rec' = [rec EXCEPT ![m] = NoRecord] /\ \A n \in Msg \ {m} : row'[n] = row[n]
    BY SettleEffect DEF Sound
  <1>2. row[m] \in {"pending", "running"}
    BY DEF Sound, MessageOK, ClaimOK
  <1> QED BY <1>1, <1>2 DEF Quiet, RowStays, Live, TerminalRow, NoRecord, BlankRecord,
                            Sound, TypeOK

\* No step rewrites a final row.
LEMMA StepIsQuiet ==
  ASSUME Sound, Next
  PROVE  Quiet \/ \E m \in Msg : Admits(m)
  <1>1. ASSUME rec' = rec, row' = row PROVE Quiet
    BY <1>1 DEF Quiet, RowStays, Live
  <1>2. ASSUME NEW m \in Msg, NEW what, Answer(m, what) PROVE Quiet
    BY <1>1, <1>2 DEF Answer
  <1>3. ASSUME NEW m \in Msg, NEW retry \in BOOLEAN, Admit(m, retry)
        PROVE  Quiet \/ Admits(m)
    <2>1. CASE ~Busy(m) /\ row[m] \in {"none", "rejected"} /\ Claim(m) /\ Dispatch(m)
      BY <2>1 DEF Claim, Dispatch, Admits
    <2>2. CASE \E what \in {"ack", "unknown", "settled", "notSent"} : Answer(m, what)
      BY <1>2, <2>2
    <2> QED BY <1>3, <2>1, <2>2 DEF Admit, Submitted
  <1>4. CASE FrameArrives
    <2>1. PICK h \in Handler, m \in Msg, retry \in BOOLEAN :
            AwaitPolicy(h, m, retry) \/ AdmitAtOnce(h, m, retry)
      BY <1>4 DEF FrameArrives
    <2>2. CASE AwaitPolicy(h, m, retry)
      BY <1>1, <2>2 DEF AwaitPolicy
    <2>3. CASE AdmitAtOnce(h, m, retry)
      BY <1>2, <1>3, <2>3 DEF AdmitAtOnce
    <2> QED BY <2>1, <2>2, <2>3
  <1>5. CASE \E h \in Handler : PolicyArrives(h)
    <2>1. PICK h \in Handler : PolicyArrives(h)
      BY <1>5
    <2>2. handler[h].msg \in Msg /\ handler[h].retry \in BOOLEAN
      BY <2>1 DEF PolicyArrives, Sound, TypeOK, Waiting
    <2> QED BY <1>2, <1>3, <2>1, <2>2 DEF PolicyArrives
  <1>6. CASE Connect
    BY <1>1, <1>6 DEF Connect
  <1>7. CASE Restart
    BY <1>7 DEF Restart, Reconciled, Quiet, RowStays, Live, TerminalRow, NoRecord,
                BlankRecord, Sound, TypeOK, Row
  <1>8. CASE Disconnect
    <2> DEFINE cut == Started \cup {m \in Msg : Live(m) /\ rpc[m] # "none"}
               out == [m \in cut |-> IF rec[m].started THEN "interrupted" ELSE "unknown"]
    <2>1. PICK saved \in SUBSET cut : Finalize(cut, out, saved)
      BY <1>8 DEF Disconnect
    <2>2. \A m \in cut : m \in Msg /\ Live(m)
      BY DEF Started, Sound, RecordOK, NoRecord, BlankRecord, Live
    <2> HIDE DEF cut, out
    <2>3. \A m \in cut : row[m] \in {"pending", "running"}
      BY <2>2 DEF Sound, MessageOK, ClaimOK
    <2> QED BY <2>1, <2>3 DEF Finalize, Quiet, RowStays, Live, TerminalRow, NoRecord,
                              BlankRecord, Sound, TypeOK
  <1>9. CASE \E s \in Session : StopUntracked(s) \/ GatewayAborts(s)
    BY <1>1, <1>9 DEF StopUntracked, GatewayAborts
  <1>10. ASSUME NEW m \in Msg, RequestStep(m) PROVE Quiet
    <2>1. MessageOK(m) /\ ev \in [Msg -> {"none", "flying", "buffered"}]
      BY DEF Sound, TypeOK
    <2>2. ASSUME NEW out \in {"rejected", "unknown", "error"}, Live(m), Settle(m, out)
          PROVE Quiet
      BY <2>1, <2>2, SettleIsQuiet DEF Settle, TerminalRow
    <2>3. CASE ConnectFails(m) \/ RefusalArrives(m) \/ RequestTimesOut(m) \/ RunIdMissing(m)
      BY <1>1, <2>2, <2>3 DEF ConnectFails, RefusalArrives, RequestTimesOut, RunIdMissing
    <2>4. CASE AbortOrphan(m)
      BY <1>1, <2>4 DEF AbortOrphan
    <2>5. CASE RunStarts(m)
      BY <2>1, <2>5 DEF RunStarts, MessageOK, ClaimOK, Quiet, RowStays, Live, TerminalRow,
                        Sound, TypeOK, Record
    <2>6. CASE RunStartsAndEnds(m)
      BY <2>1, <2>6 DEF RunStartsAndEnds, MessageOK, ClaimOK, Quiet, RowStays, Live,
                        TerminalRow, NoRecord, BlankRecord, Sound, TypeOK
    <2> QED BY <1>10, <2>3, <2>4, <2>5, <2>6 DEF RequestStep
  <1>11. ASSUME NEW m \in Msg, StopStep(m) \/ EventStep(m) PROVE Quiet
    <2>1. /\ RecordOK(rec[m]) /\ (Live(m) \/ rec[m] = NoRecord)
          /\ ev \in [Msg -> {"none", "flying", "buffered"}]
      BY DEF Sound, TypeOK, RecordOK, Live
    <2>2. ASSUME NEW out \in {"stopped", "done", "interrupted", "error"},
                 NEW e \in [Msg -> {"none", "flying", "buffered"}],
                 Live(m), SettleWith(m, out, e)
          PROVE Quiet
      BY <2>2, SettleIsQuiet DEF TerminalRow
    <2>3. CASE Stop(m) \/ AbortSucceeds(m) \/ AbortFails(m)
      <3>1. row' = row /\ \A n \in Msg \ {m} : rec'[n] = rec[n]
        BY <2>3 DEF Stop, AbortSucceeds, AbortFails, Sound, TypeOK, Record
      <3>2. Live(m)
        BY <2>1, <2>3 DEF Stop, AbortSucceeds, AbortFails, Live, NoRecord, BlankRecord
      <3> QED BY <3>1, <3>2 DEF Quiet, RowStays, Live
    <2>4. CASE StopTimerFires(m) \/ UnattributedEnd(m) \/ Stall(m)
      BY <2>1, <2>2, <2>4 DEF StopTimerFires, UnattributedEnd, Stall, EndOutcome, Settle,
                              NoRecord, BlankRecord
    <2>5. CASE EndArrives(m)
      <3>1. CASE ~rec[m].started
        BY <1>1, <2>5, <3>1 DEF EndArrives
      <3>2. CASE rec[m].started
        <4>1. PICK out \in {EndOutcome(m), "error"} :
                SettleWith(m, out, [ev EXCEPT ![m] = "none"])
          BY <2>5, <3>2 DEF EndArrives
        <4>2. out \in {"stopped", "done", "error"} /\ Live(m)
          BY <2>1, <3>2 DEF EndOutcome, NoRecord, BlankRecord
        <4>3. [ev EXCEPT ![m] = "none"] \in [Msg -> {"none", "flying", "buffered"}]
          BY <2>1
        <4> QED BY <2>2, <4>1, <4>2, <4>3
      <3> QED BY <3>1, <3>2
    <2> QED BY <1>11, <2>3, <2>4, <2>5 DEF StopStep, EventStep
  <1>12. ASSUME NEW m \in Msg, GatewayStep(m) PROVE Quiet
    BY <1>1, <1>12 DEF GatewayStep, Accept, Refuse, Lose, RunEnds
  <1> QED BY <1>4, <1>5, <1>6, <1>7, <1>8, <1>9, <1>10, <1>11, <1>12 DEF Next

\* The invariant holds at the start and every step keeps it.
THEOREM Inductive == Spec => []IInv
  <1>1. Init => IInv
    <2> SUFFICES ASSUME Init PROVE IInv
      OBVIOUS
    <2>1. TypeOK
      BY RecordType DEF Init, TypeOK, Row
    <2>2. \A m \in Msg : rec[m] = NoRecord /\ RecordOK(rec[m]) /\ ~Live(m)
      BY DEF Init, RecordOK, Live, NoRecord, BlankRecord
    <2>3. \A m \in Msg : MessageOK(m)
      BY <2>2 DEF Init, MessageOK, ClaimOK, CountOK, CoverOK, ToldOK, AtGateway
    <2> QED BY <2>1, <2>2, <2>3 DEF IInv, Sound, OneActivePerSession
  <1>2. IInv /\ [Next]_vars => IInv'
    <2> SUFFICES ASSUME IInv, [Next]_vars PROVE IInv'
      OBVIOUS
    <2>1. CASE UNCHANGED vars
      BY <2>1 DEF vars, IInv, Sound, TypeOK, RecordOK, MessageOK, ClaimOK, CountOK,
                  CoverOK, ToldOK, OneActivePerSession, Live
    <2>2. CASE Next
      <3>1. Sound'
        BY <2>2, FrameStep, RequestSound, StopSound, EventSound, GatewaySound,
           SessionSound, WorldSound DEF Next, IInv
      <3>2. CASE Quiet
        BY <3>1, <3>2 DEF Quiet, IInv, OneActivePerSession
      <3>3. ASSUME NEW m \in Msg, Admits(m) PROVE OneActivePerSession'
        BY <3>3 DEF Admits, Busy, InSession, IInv, Sound, TypeOK, OneActivePerSession, Live
      <3> QED BY <2>2, <3>1, <3>2, <3>3, StepIsQuiet DEF IInv
    <2> QED BY <2>1, <2>2
  <1> QED BY <1>1, <1>2, PTL DEF Spec

\* Types: the record's flags and counts stay in range.
THEOREM TypeCorrect == Spec => []TypeOK
  <1>1. IInv => TypeOK
    BY DEF IInv, Sound
  <1> QED BY <1>1, Inductive, PTL

\* send-service.js promises that a message is sent once: the gateway accepts no
\* message twice, whatever is retried, lost, timed out or restarted.
THEOREM SentAtMostOnce == Spec => []AtMostOnce
  <1>1. IInv => AtMostOnce
    BY DEF IInv, Sound, TypeOK, MessageOK, CountOK, AtMostOnce
  <1> QED BY <1>1, Inductive, PTL

\* claimSend's row covers the frame from before it is written.
THEOREM EvidenceIsDurable == Spec => []EvidenceCoversSend
  <1>1. IInv => EvidenceCoversSend
    BY DEF IInv, Sound, MessageOK, CoverOK, AtGateway, EvidenceCoversSend
  <1> QED BY <1>1, Inductive, PTL

\* notSubmitted:true, outside the read-only refusal, is true.
THEOREM NotSentIsHonest == Spec => []NotSentIsTrue
  <1>1. IInv => NotSentIsTrue
    BY DEF IInv, Sound, MessageOK, ToldOK, AtGateway, NotSentIsTrue
  <1> QED BY <1>1, Inductive, PTL

\* One active record per session, across concurrent handlers.
THEOREM SessionsAreExclusive == Spec => []OneActivePerSession
  <1>1. IInv => OneActivePerSession
    BY DEF IInv
  <1> QED BY <1>1, Inductive, PTL

\* A durable outcome is never rewritten.
THEOREM OutcomesAreFinal == Spec => OutcomeIsFinal
  <1>1. IInv /\ [Next]_vars
          => [\A m \in Msg : row[m] \in TerminalRow \ {"rejected"} => row'[m] = row[m]]_vars
    <2> SUFFICES ASSUME IInv, Next
                 PROVE \A m \in Msg : row[m] \in TerminalRow \ {"rejected"}
                                        => row'[m] = row[m]
      OBVIOUS
    <2>1. CASE Quiet
      BY <2>1 DEF Quiet, RowStays
    <2>2. ASSUME NEW n \in Msg, Admits(n)
          PROVE \A m \in Msg : row[m] \in TerminalRow \ {"rejected"} => row'[m] = row[m]
      BY <2>2 DEF Admits, IInv, Sound, TypeOK, TerminalRow
    <2> QED BY <2>1, <2>2, StepIsQuiet DEF IInv
  <1> QED BY <1>1, Inductive, PTL DEF Spec, OutcomeIsFinal

\* The bridge keeps the promise of SendOnce: each step takes a message nobody
\* was told is unsent, or changes what is told, or neither.
THEOREM KeepsThePromise == Spec => ImplementsSendOnce
  <1>1. Init => Promise!Init
    BY DEF Init, Promise!Init, Denied
  <1>2. IInv /\ IInv' /\ [Next]_vars => [Promise!Next]_(Promise!vars)
    <2> SUFFICES ASSUME IInv, IInv', [Next]_vars
                 PROVE  [Promise!Next]_(Promise!vars)
      OBVIOUS
    <2>1. \A m \in Denied' : accepted'[m] = 0
      BY DEF IInv, Sound, MessageOK, CountOK, ToldOK, AtGateway, Denied
    <2>2. CASE accepted' = accepted
      <3>1. Denied' \in SUBSET {m \in Msg : accepted[m] = 0}
        BY <2>1, <2>2 DEF Denied
      <3> QED BY <2>2, <3>1 DEF Promise!Next, Promise!Tell
    <2>3. ASSUME NEW m \in Msg, Accept(m) PROVE Promise!Take(m)
      <3>1. accepted[m] = 0 /\ told[m] # "notSent"
        BY <2>3 DEF Accept, IInv, Sound, MessageOK, CountOK, ToldOK, AtGateway
      <3>2. accepted' = [accepted EXCEPT ![m] = 1] /\ Denied' = Denied
        BY <2>3, <3>1 DEF Accept, Denied
      <3> QED BY <3>1, <3>2 DEF Promise!Take, Denied
    <2>4. CASE \E m \in Msg : Accept(m)
      BY <2>3, <2>4 DEF Promise!Next
    <2>5. accepted' = accepted \/ \E m \in Msg : Accept(m)
      <3>1. ASSUME NEW m \in Msg, NEW retry \in BOOLEAN, Admit(m, retry)
            PROVE accepted' = accepted
        BY <3>1 DEF Admit, Answer, Dispatch, gatewayVars
      <3>2. CASE FrameArrives
        BY <3>1, <3>2 DEF FrameArrives, AwaitPolicy, AdmitAtOnce, Answer, gatewayVars
      <3>3. CASE \E h \in Handler : PolicyArrives(h)
        <4>1. PICK h \in Handler : PolicyArrives(h)
          BY <3>3
        <4>2. handler[h].msg \in Msg /\ handler[h].retry \in BOOLEAN
          BY <4>1 DEF PolicyArrives, IInv, Sound, TypeOK, Waiting
        <4> QED BY <3>1, <4>1, <4>2 DEF PolicyArrives, Answer, gatewayVars
      <3>4. CASE UNCHANGED vars \/ Connect \/ Disconnect \/ Restart
        BY <3>4 DEF vars, Connect, Disconnect, Restart
      <3>5. CASE \E s \in Session : StopUntracked(s) \/ GatewayAborts(s)
        BY <3>5 DEF StopUntracked, GatewayAborts
      <3>6. CASE \E m \in Msg : RequestStep(m) \/ StopStep(m) \/ EventStep(m)
        BY <3>6 DEF RequestStep, ConnectFails, RefusalArrives, RequestTimesOut,
           AbortOrphan, RunIdMissing, RunStarts, RunStartsAndEnds, StopStep, Stop,
           AbortSucceeds, AbortFails, StopTimerFires, EventStep, EndArrives,
           UnattributedEnd, Stall, gatewayVars
      <3>7. CASE \E m \in Msg : GatewayStep(m)
        BY <3>7 DEF GatewayStep, Accept, Refuse, Lose, RunEnds
      <3> QED BY <3>2, <3>3, <3>4, <3>5, <3>6, <3>7 DEF Next
    <2> QED BY <2>2, <2>4, <2>5
  <1> QED BY <1>1, <1>2, Inductive, PTL DEF Spec, ImplementsSendOnce, Promise!Spec

----------------------------------------------------------------------------
(* No record is left without somebody who ends it. *)

\* A record that has not started awaits the answer, failure or timeout of its request; a
\* started one awaits none, and is for the events and for the sweeper of stalled runs.
Attended == \A m \in Msg : Live(m) => (rec[m].started <=> rpc[m] = "none")

\* A record that ends leaves the others with the request they have.
LEMMA SettleAttends ==
  ASSUME Sound, Attended, NEW m \in Msg, NEW out \in TerminalRow,
         NEW e \in [Msg -> {"none", "flying", "buffered"}], SettleWith(m, out, e),
         rpc' = rpc \/ rpc' = [rpc EXCEPT ![m] = "none"]
  PROVE  Attended'
  <1>1. rec' = [rec EXCEPT ![m] = NoRecord]
    BY SettleEffect DEF Sound
  <1> QED BY <1>1 DEF Attended, Live, NoRecord, BlankRecord, Sound, TypeOK

\* An admission starts a record together with its request.
LEMMA AdmitAttends ==
  ASSUME Sound, Attended, NEW m \in Msg, NEW retry \in BOOLEAN, Admit(m, retry)
  PROVE  Attended'
  <1>1. CASE UNCHANGED <<rec, rpc>>
    BY <1>1 DEF Attended, Live
  <1>2. CASE Dispatch(m)
    BY <1>2 DEF Dispatch, Attended, Live, BlankRecord, Sound, TypeOK
  <1> QED BY <1>1, <1>2 DEF Admit, Answer

\* An answer ends the record or starts it; a failure and a timeout end it.
LEMMA RequestAttends ==
  ASSUME Sound, Attended, NEW m \in Msg, RequestStep(m)
  PROVE  Attended'
  <1>1. ev \in [Msg -> {"none", "flying", "buffered"}]
    BY DEF Sound, TypeOK
  <1>2. ASSUME NEW out \in {"rejected", "unknown", "error"}, Settle(m, out),
               rpc' = [rpc EXCEPT ![m] = "none"]
        PROVE  Attended'
    BY <1>1, <1>2, SettleAttends DEF Settle, TerminalRow
  <1>3. ASSUME ~Live(m), rec' = rec, rpc' = [rpc EXCEPT ![m] = "none"]
        PROVE  Attended'
    BY <1>3 DEF Attended, Live, Sound, TypeOK
  <1>4. CASE ConnectFails(m) \/ RefusalArrives(m) \/ RequestTimesOut(m)
    BY <1>2, <1>3, <1>4 DEF ConnectFails, RefusalArrives, RequestTimesOut
  <1>5. CASE AbortOrphan(m) \/ RunIdMissing(m)
    BY <1>2, <1>3, <1>5 DEF AbortOrphan, RunIdMissing
  <1>6. CASE RunStarts(m)
    BY <1>6 DEF RunStarts, Attended, Live, Sound, TypeOK, Record
  <1>7. CASE RunStartsAndEnds(m)
    BY <1>7 DEF RunStartsAndEnds, Attended, Live, NoRecord, BlankRecord, Sound, TypeOK
  <1> QED BY <1>4, <1>5, <1>6, <1>7 DEF RequestStep

\* A stop and its abort change neither the request nor whether the run has started.
LEMMA StopAttends ==
  ASSUME Sound, Attended, NEW m \in Msg, StopStep(m) \/ EventStep(m)
  PROVE  Attended'
  <1>1. /\ RecordOK(rec[m]) /\ ev \in [Msg -> {"none", "flying", "buffered"}]
    BY DEF Sound, TypeOK
  <1>2. ASSUME NEW out \in {"stopped", "done", "interrupted", "error"},
               NEW e \in [Msg -> {"none", "flying", "buffered"}],
               SettleWith(m, out, e), rpc' = rpc
        PROVE  Attended'
    BY <1>2, SettleAttends DEF TerminalRow
  <1>3. CASE Stop(m) \/ AbortSucceeds(m) \/ AbortFails(m)
    <2>1. /\ rpc' = rpc /\ \A n \in Msg \ {m} : rec'[n] = rec[n]
          /\ rec'[m].started = rec[m].started
      BY <1>3 DEF Stop, AbortSucceeds, AbortFails, Sound, TypeOK, Record
    <2>2. Live(m)
      BY <1>1, <1>3 DEF Stop, AbortSucceeds, AbortFails, RecordOK, Live, NoRecord, BlankRecord
    <2> QED BY <2>1, <2>2 DEF Attended, Live
  <1>4. CASE StopTimerFires(m) \/ UnattributedEnd(m) \/ Stall(m)
    BY <1>1, <1>2, <1>4 DEF StopTimerFires, UnattributedEnd, Stall, EndOutcome, Settle
  <1>5. CASE EndArrives(m)
    <2>1. rpc' = rpc
      BY <1>5 DEF EndArrives
    <2>2. CASE ~rec[m].started
      BY <1>5, <2>1, <2>2 DEF EndArrives, Attended, Live
    <2>3. CASE rec[m].started
      <3>1. PICK out \in {EndOutcome(m), "error"} :
              SettleWith(m, out, [ev EXCEPT ![m] = "none"])
        BY <1>5, <2>3 DEF EndArrives
      <3>2. out \in {"stopped", "done", "error"}
        BY DEF EndOutcome
      <3>3. [ev EXCEPT ![m] = "none"] \in [Msg -> {"none", "flying", "buffered"}]
        BY <1>1
      <3> QED BY <1>2, <2>1, <3>1, <3>2, <3>3
    <2> QED BY <2>2, <2>3
  <1> QED BY <1>3, <1>4, <1>5 DEF StopStep, EventStep

\* A connection that opens or closes, and a restart, keep requests and records together;
\* the gateway turns one awaited answer into another.
LEMMA WorldAttends ==
  ASSUME Sound, Attended,
         \/ Connect \/ Disconnect \/ Restart
         \/ \E s \in Session : StopUntracked(s) \/ GatewayAborts(s)
         \/ \E m \in Msg : GatewayStep(m)
  PROVE  Attended'
  <1>1. CASE Connect
    BY <1>1 DEF Connect, Attended, Live, Sound, TypeOK
  <1>2. CASE Disconnect
    <2> DEFINE cut == Started \cup {m \in Msg : Live(m) /\ rpc[m] # "none"}
    <2>1. \A m \in Msg : Live(m) => m \in cut
      BY DEF Started, Attended
    <2>2. rec' = [m \in Msg |-> IF m \in cut THEN NoRecord ELSE rec[m]]
      BY <1>2 DEF Disconnect, Finalize
    <2> QED BY <2>1, <2>2 DEF Attended, Live, NoRecord, BlankRecord
  <1>3. CASE Restart
    BY <1>3 DEF Restart, Attended, Live, NoRecord, BlankRecord
  <1>4. CASE \E s \in Session : StopUntracked(s) \/ GatewayAborts(s)
    BY <1>4 DEF StopUntracked, GatewayAborts, Attended, Live
  <1>5. CASE \E m \in Msg : GatewayStep(m)
    <2>1. /\ rec' = rec
          /\ \A n \in Msg : rpc'[n] = "none" <=> rpc[n] = "none"
      BY <1>5 DEF GatewayStep, Accept, Refuse, Lose, RunEnds, Sound, TypeOK
    <2> QED BY <2>1 DEF Attended, Live
  <1> QED BY <1>1, <1>2, <1>3, <1>4, <1>5

\* Whatever the order of answers, refusals, timeouts, stops, disconnects and restarts, no
\* record of the registry is stranded before its run: while it has not started its request
\* is open, and the end of the request ends it or starts it.
THEOREM NoRecordIsStranded == Spec => []Attended
  <1>1. Init => Attended
    BY DEF Init, Attended, Live, NoRecord, BlankRecord
  <1>2. IInv /\ Attended /\ [Next]_vars => Attended'
    <2> SUFFICES ASSUME Sound, Attended, [Next]_vars PROVE Attended'
      BY DEF IInv
    <2>1. CASE UNCHANGED vars
      BY <2>1 DEF vars, Attended, Live
    <2>2. CASE FrameArrives
      <3>1. PICK h \in Handler, m \in Msg, retry \in BOOLEAN :
              AwaitPolicy(h, m, retry) \/ AdmitAtOnce(h, m, retry)
        BY <2>2 DEF FrameArrives
      <3>2. CASE UNCHANGED <<rec, rpc>>
        BY <3>2 DEF Attended, Live
      <3>3. CASE Admit(m, retry)
        BY <3>3, AdmitAttends
      <3> QED BY <3>1, <3>2, <3>3 DEF AwaitPolicy, AdmitAtOnce, Answer
    <2>3. CASE \E h \in Handler : PolicyArrives(h)
      <3>1. PICK h \in Handler : PolicyArrives(h)
        BY <2>3
      <3>2. handler[h].msg \in Msg /\ handler[h].retry \in BOOLEAN
        BY <3>1 DEF PolicyArrives, Sound, TypeOK, Waiting
      <3>3. CASE UNCHANGED <<rec, rpc>>
        BY <3>3 DEF Attended, Live
      <3>4. CASE Admit(handler[h].msg, handler[h].retry)
        BY <3>2, <3>4, AdmitAttends
      <3> QED BY <3>1, <3>3, <3>4 DEF PolicyArrives, Answer
    <2> QED BY <2>1, <2>2, <2>3, RequestAttends, StopAttends, WorldAttends DEF Next
  <1> QED BY <1>1, <1>2, Inductive, PTL DEF Spec
==========================================================================
