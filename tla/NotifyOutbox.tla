--------------------------- MODULE NotifyOutbox ---------------------------
(***************************************************************************)
(* The durable notification outbox (lib/server/notify-outbox.js) and the   *)
(* notifier that delivers from it (lib/server/upgrade-notifier.js).        *)
(*                                                                         *)
(* noticeFile is the outbox file.  flush() reads it once, awaits a         *)
(* delivery per event, and merges what it learned onto a fresh read; an    *)
(* enqueue, a retire or the death of the process may come at any of its    *)
(* awaits.  Everything between two awaits is one step.                     *)
(***************************************************************************)
EXTENDS Integers, FiniteSets

CONSTANTS Notice,    \* event ids
          Overseer,  \* those of type overseer, whose expiry is no loss
          KeepCount, \* the outbox cap
          NoNotice

ASSUME NotifyAssumption ==
  Overseer \subseteq Notice /\ NoNotice \notin Notice /\ KeepCount \in Nat \ {0}

VARIABLES
  noticeFile, \* the durable record of each id
  late,       \* ids whose own deadline has passed
  flush,      \* the run of flush(): its snapshot, what it has still to do, its updates
  retired,    \* ids the notifier's matchers cover, in this process
  overtaken,  \* history: ids that were queued when they were retired
  alarmed     \* ids reported lost (notification_abandoned) and not revived since

notifyVars == <<noticeFile, late, flush, retired, overtaken, alarmed>>

\* cut: retire() brought expiresAt forward.  deferred: nextAttemptAt is ahead.
\* "abandoned" is the age-out, "terminal" the abandonment that may be revived;
\* "suppressed" is the policy's, "expired" the deadline's or retire()'s.
NoticeStatus == {"absent", "pending", "delivered", "abandoned", "terminal",
                 "suppressed", "expired"}
NoticeRecord == [status : NoticeStatus, cut : BOOLEAN, deferred : BOOLEAN]
Absent == [status |-> "absent", cut |-> FALSE, deferred |-> FALSE]
Fresh == [Absent EXCEPT !.status = "pending"]

NotifyTypeOK ==
  /\ noticeFile \in [Notice -> NoticeRecord]
  /\ late \subseteq Notice
  /\ flush \in [sending : Notice \cup {NoNotice}, snapshot : [Notice -> NoticeRecord],
                todo : SUBSET Notice, updates : SUBSET Notice]
  /\ retired \subseteq Notice /\ overtaken \subseteq Notice /\ alarmed \subseteq Notice

\* No flush runs: its snapshot is garbage.
NoFlush == [sending |-> NoNotice, snapshot |-> [e \in Notice |-> Absent],
            todo |-> {}, updates |-> {}]

NotifyInit ==
  /\ noticeFile = [e \in Notice |-> Absent]
  /\ late = {} /\ flush = NoFlush /\ retired = {} /\ overtaken = {} /\ alarmed = {}

Pending(f) == {e \in Notice : f[e].status = "pending"}
Queued(f) == {e \in Notice : f[e].status # "absent"}

\* An undelivered notice of the file ends as status s.
EndAs(r, s) == [r EXCEPT !.status = s, !.deferred = FALSE]
\* How the deadline ends it.
Deadline(e) == IF e \in Overseer THEN "expired" ELSE "abandoned"

----------------------------------------------------------------------------
(* enqueue() and retire(). *)

\* Tombstones a fresh enqueue starts over; the others keep it out.
Revives(r) == r.status \in {"suppressed", "terminal"}

\* The cap: finished records go first, then the oldest undelivered; never the
\* record that was just added.
EvictFor(e, f) ==
  LET others == Queued(f) \ {e}
      done == others \ Pending(f)
  IN IF Cardinality(others) < KeepCount THEN {f}
     ELSE {[f EXCEPT ![x] = Absent] : x \in IF done # {} THEN done ELSE others}

\* Mutant: a duplicate's deadline replaces the one the record has.
DeadlineExtended(e, gone) == gone \cup {e}

\* Ids without a deadline of their own any more: the records that are gone.
DeadlineGone(e, gone) == gone

\* A revived or retained record keeps the earlier deadline; an overseer's that
\* has passed expires it at once.
Enqueue(e) ==
  /\ LET old == noticeFile[e]
         kept == IF Revives(old) THEN [Fresh EXCEPT !.cut = old.cut] ELSE old
         ended == IF e \in Overseer /\ kept.status # "delivered" /\ (e \in late \/ kept.cut)
                  THEN EndAs(kept, "expired") ELSE kept
     IN /\ noticeFile' \in IF old = Absent THEN EvictFor(e, [noticeFile EXCEPT ![e] = Fresh])
                           ELSE {[noticeFile EXCEPT ![e] = ended]}
        /\ alarmed' = IF Revives(old) THEN alarmed \ {e} ELSE alarmed
  /\ LET gone == {x \in Notice : noticeFile'[x] = Absent}
     IN late' = late \ DeadlineGone(e, gone) /\ overtaken' = overtaken \ gone
  /\ UNCHANGED <<flush, retired>>

\* Mutant: only the file is changed, not what a flush in this process holds.
RetireInFileOnly(S) ==
  /\ noticeFile' = [e \in Notice |-> IF e \in S \cap Pending(noticeFile)
                                     THEN EndAs([noticeFile[e] EXCEPT !.cut = TRUE], "expired")
                                     ELSE noticeFile[e]]
  /\ overtaken' = overtaken \cup (S \cap Pending(noticeFile))
  /\ UNCHANGED <<late, flush, retired, alarmed>>

\* The notices of S are overtaken by the news: queued ones are closed as
\* expired, and this process's deliveries check the matcher.
Retire(S) ==
  /\ noticeFile' = [e \in Notice |-> IF e \in S \cap Pending(noticeFile)
                                     THEN EndAs([noticeFile[e] EXCEPT !.cut = TRUE], "expired")
                                     ELSE noticeFile[e]]
  /\ retired' = retired \cup S
  /\ overtaken' = overtaken \cup (S \cap Pending(noticeFile))
  /\ UNCHANGED <<late, flush, alarmed>>

----------------------------------------------------------------------------
(* flush(). *)

Flushing == flush.sending # NoNotice

\* Mutant: the snapshot is written back as it is.
MergedBlindly(f) == f.snapshot

\* The updates are merged onto the file as it is now; a record evicted
\* meanwhile stays gone, and the earlier deadline wins.
Merged(f) ==
  [e \in Notice |->
     IF e \in f.updates /\ noticeFile[e] # Absent
     THEN [f.snapshot[e] EXCEPT !.cut = @ \/ noticeFile[e].cut]
     ELSE noticeFile[e]]

\* Mutant: the sweep abandons without a report.
ProceedSilently(f, alarms) ==
  LET over == {e \in f.todo : e \in late \/ f.snapshot[e].cut}
      g == [sending |-> NoNotice, todo |-> f.todo \ over, updates |-> f.updates \cup over,
            snapshot |-> [e \in Notice |-> IF e \in over THEN EndAs(f.snapshot[e], Deadline(e))
                                           ELSE f.snapshot[e]]]
  IN /\ alarmed' = alarmed \cup alarms
     /\ IF g.todo = {}
        THEN noticeFile' = Merged(g) /\ flush' = NoFlush
        ELSE /\ \E e \in g.todo : flush' = [sending |-> e, todo |-> g.todo \ {e},
                                            updates |-> g.updates, snapshot |-> g.snapshot]
             /\ UNCHANGED noticeFile

\* The events of f.todo whose deadline has passed end, and those the matchers
\* cover expire unsent; then one of the others is sent, or, when none is left,
\* the updates are written.  alarms are the losses to report.
Proceed(f, alarms) ==
  LET over == {e \in f.todo : e \in late \/ f.snapshot[e].cut}
      stale == (f.todo \cap retired) \ over
      g == [sending |-> NoNotice, todo |-> f.todo \ (over \cup stale),
            updates |-> f.updates \cup over \cup stale,
            snapshot |-> [e \in Notice |-> IF e \in over THEN EndAs(f.snapshot[e], Deadline(e))
                                           ELSE IF e \in stale THEN EndAs(f.snapshot[e], "expired")
                                           ELSE f.snapshot[e]]]
  IN /\ alarmed' = alarmed \cup alarms \cup (over \ Overseer)
     /\ IF g.todo = {}
        THEN noticeFile' = Merged(g) /\ flush' = NoFlush
        ELSE /\ \E e \in g.todo : flush' = [sending |-> e, todo |-> g.todo \ {e},
                                            updates |-> g.updates, snapshot |-> g.snapshot]
             /\ UNCHANGED noticeFile

\* The age-out sweep covers every undelivered event, the deferred ones too.
FlushStarts ==
  /\ ~Flushing
  /\ LET due == {e \in Pending(noticeFile) :
                   ~noticeFile[e].deferred \/ e \in late \/ noticeFile[e].cut}
     IN /\ due # {}
        /\ Proceed([sending |-> NoNotice, snapshot |-> noticeFile, todo |-> due, updates |-> {}], {})
  /\ UNCHANGED <<late, retired, overtaken>>

\* What deliver() may resolve to: sent; refused by every target for good, or by
\* the policy; failed or held, and deferred.  Between two targets it stops for a
\* deadline or a retire that came during the send.
Outcomes(e) ==
  LET r == flush.snapshot[e]
      ends == {"delivered", "terminal", "suppressed"}
              \cup (IF e \in late \cup retired THEN {"expired"} ELSE {})
  IN {EndAs(r, s) : s \in ends} \cup {[r EXCEPT !.deferred = TRUE]}

DeliveryEnds ==
  /\ Flushing
  /\ \E r \in Outcomes(flush.sending) :
       Proceed([sending |-> NoNotice, snapshot |-> [flush.snapshot EXCEPT ![flush.sending] = r],
                todo |-> flush.todo, updates |-> flush.updates \cup {flush.sending}],
               IF r.status = "terminal" THEN {flush.sending} ELSE {})
  /\ UNCHANGED <<late, retired, overtaken>>

----------------------------------------------------------------------------
(* Time, and the death of the process. *)

BackoffElapses(e) ==
  /\ noticeFile[e].deferred
  /\ noticeFile' = [noticeFile EXCEPT ![e].deferred = FALSE]
  /\ UNCHANGED <<late, flush, retired, overtaken, alarmed>>

DeadlinePasses(e) ==
  /\ noticeFile[e] # Absent /\ e \notin late
  /\ late' = late \cup {e}
  /\ UNCHANGED <<noticeFile, flush, retired, overtaken, alarmed>>

\* A send in flight may have reached its target; the file does not know.
NotifierDies ==
  /\ flush' = NoFlush /\ retired' = {}
  /\ UNCHANGED <<noticeFile, late, overtaken, alarmed>>

NotifyNext ==
  \/ \E e \in Notice : Enqueue(e) \/ BackoffElapses(e) \/ DeadlinePasses(e)
  \/ \E S \in SUBSET Notice : Retire(S)
  \/ FlushStarts \/ DeliveryEnds \/ NotifierDies

NotifySpec == NotifyInit /\ [][NotifyNext]_notifyVars

----------------------------------------------------------------------------
(* Properties. *)

Sends(e) == flush'.sending = e /\ flush.sending # e

\* A notice that was queued when retire() closed it is never sent afterwards,
\* by this process or by a later one draining the file.
RetiredIsNeverSent == [][\A e \in overtaken : ~Sends(e)]_notifyVars

\* What the file or a flush holds of a notice outlives every await of the flush, the
\* duplicates and the retires that come meanwhile.  A delivery that was learned of is
\* never forgotten or repeated, unless the process dies before it writes it; and an
\* undelivered notice leaves the file only by the cap, when all of it is undelivered.
Acknowledged == {e \in Notice : noticeFile[e].status = "delivered"}
                \cup {e \in flush.updates : flush.snapshot[e].status = "delivered"}
Died == flush' = NoFlush /\ UNCHANGED noticeFile
NoticesAreKept ==
  [][/\ \A e \in Acknowledged :
          /\ ~Sends(e)
          /\ e \in Acknowledged' \/ noticeFile'[e] = Absent \/ Died
     /\ \A e \in Pending(noticeFile) :
          noticeFile'[e] = Absent =>
            /\ Pending(noticeFile) = Queued(noticeFile)
            /\ Cardinality(Queued(noticeFile)) >= KeepCount]_notifyVars

\* "The one outcome this outbox exists to prevent must never be silent": a
\* record the file gives up on was reported, also when another process or an
\* enqueue came between the verdict and the write.
LossIsReported ==
  \A e \in Notice : noticeFile[e].status \in {"abandoned", "terminal"} => e \in alarmed

\* Every queued notice ends.
QueuedNoticeEnds ==
  \A e \in Notice : noticeFile[e].status = "pending" ~> noticeFile[e].status # "pending"
===========================================================================
