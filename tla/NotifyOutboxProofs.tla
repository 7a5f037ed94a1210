------------------------- MODULE NotifyOutboxProofs -------------------------
(***************************************************************************)
(* Proofs about the notice outbox, for any set of notices and any cap.     *)
(***************************************************************************)
EXTENDS NotifyOutbox, TLAPS, FiniteSetTheorems

FlushType == [sending : Notice \cup {NoNotice}, snapshot : [Notice -> NoticeRecord],
              todo : SUBSET Notice, updates : SUBSET Notice]

HeldBy(f) == {e \in Notice : e \in f.todo \/ e \in f.updates \/ e = f.sending}

\* A flush f holds what was pending when it began: each notice of it is still to do,
\* being sent, or has its verdict; and the file knows nothing newer of it than a retire,
\* an eviction, or an enqueue after that.
FlushIsSound(f, file) ==
  /\ f.todo \cap f.updates = {} /\ f.sending \notin f.todo \cup f.updates
  /\ \A e \in Notice : e \in f.todo \/ e = f.sending => f.snapshot[e].status = "pending"
  /\ \A e \in f.updates : f.snapshot[e].status # "absent"
  /\ \A e \in HeldBy(f) : file[e].status \in {"pending", "absent", "expired"}

FileIsSound(file) == \A e \in Notice : file[e].status = "absent" => file[e] = Absent

\* The verdicts f has yet to write were reported, if they are losses.
VerdictsAreReported(f, alarms) ==
  \A e \in f.updates : f.snapshot[e].status \in {"abandoned", "terminal"} => e \in alarms

\* A retired notice is cut short in the file, and in what a flush has to do or by a matcher.
RetiredIsMarked(f, file) ==
  \A e \in overtaken : file[e].cut /\ (e \in f.todo => e \in retired \/ f.snapshot[e].cut)

\* What LossIsReported, RetiredIsNeverSent and NoticesAreKept rest on.
NotifyInv ==
  /\ NotifyTypeOK /\ FileIsSound(noticeFile) /\ FlushIsSound(flush, noticeFile)
  /\ VerdictsAreReported(flush, alarmed) /\ RetiredIsMarked(flush, noticeFile) /\ LossIsReported
  /\ flush.sending = NoNotice => flush = NoFlush

\* Between two flushes nothing is held.
LEMMA NoFlushHoldsNothing ==
  /\ NoFlush \in FlushType /\ HeldBy(NoFlush) = {} /\ NoFlush.sending = NoNotice
  /\ NoFlush.todo = {} /\ NoFlush.updates = {}
  /\ \A file : FlushIsSound(NoFlush, file)
<1>1. Absent \in NoticeRecord
  BY DEF Absent, NoticeRecord, NoticeStatus
<1>2. NoFlush \in FlushType
  BY <1>1 DEF NoFlush, FlushType
<1>3. NoFlush.sending = NoNotice /\ NoFlush.todo = {} /\ NoFlush.updates = {}
  BY DEF NoFlush
<1>4. NoNotice \notin Notice
  BY NotifyAssumption
<1> QED
  BY <1>2, <1>3, <1>4 DEF HeldBy, FlushIsSound

\* What a verdict changes of a record.
LEMMA EndAsRecord ==
  ASSUME NEW r \in NoticeRecord, NEW s \in NoticeStatus
  PROVE  EndAs(r, s) \in NoticeRecord /\ EndAs(r, s).status = s /\ EndAs(r, s).cut = r.cut
  BY DEF EndAs, NoticeRecord

\* The merge keeps the types, writes every verdict that still has its record, and loses none
\* of the rest.
LEMMA MergeEffect ==
  ASSUME noticeFile \in [Notice -> NoticeRecord], NEW f \in FlushType
  PROVE  /\ Merged(f) \in [Notice -> NoticeRecord]
         /\ \A e \in Notice :
              IF e \in f.updates /\ noticeFile[e] # Absent
              THEN /\ Merged(f)[e].status = f.snapshot[e].status
                   /\ Merged(f)[e].cut = (f.snapshot[e].cut \/ noticeFile[e].cut)
              ELSE Merged(f)[e] = noticeFile[e]
<1>1. ASSUME NEW e \in Notice
      PROVE  LET r == [f.snapshot[e] EXCEPT !.cut = @ \/ noticeFile[e].cut]
             IN r \in NoticeRecord /\ r.status = f.snapshot[e].status
                /\ r.cut = (f.snapshot[e].cut \/ noticeFile[e].cut)
  <2>1. f.snapshot[e] \in NoticeRecord /\ noticeFile[e] \in NoticeRecord
    BY <1>1 DEF FlushType
  <2> QED
    BY <2>1 DEF NoticeRecord
<1> QED
  BY <1>1 DEF Merged

----------------------------------------------------------------------------
(* The sweep at the head of each round of flush(). *)

OverOf(f) == {e \in f.todo : e \in late \/ f.snapshot[e].cut}
StaleOf(f) == (f.todo \cap retired) \ OverOf(f)
Swept(f) ==
  [sending |-> NoNotice, todo |-> f.todo \ (OverOf(f) \cup StaleOf(f)),
   updates |-> f.updates \cup OverOf(f) \cup StaleOf(f),
   snapshot |-> [e \in Notice |-> IF e \in OverOf(f) THEN EndAs(f.snapshot[e], Deadline(e))
                                  ELSE IF e \in StaleOf(f) THEN EndAs(f.snapshot[e], "expired")
                                  ELSE f.snapshot[e]]]

\* What the sweep does to what the flush holds.
LEMMA SweepEffect ==
  ASSUME NEW f \in FlushType
  PROVE  /\ Swept(f) \in FlushType
         /\ Swept(f).sending = NoNotice
         /\ Swept(f).todo = f.todo \ (OverOf(f) \cup StaleOf(f))
         /\ Swept(f).updates = f.updates \cup OverOf(f) \cup StaleOf(f)
         /\ \A e \in Notice :
              /\ e \in OverOf(f) => Swept(f).snapshot[e].status = Deadline(e)
              /\ e \in StaleOf(f) => Swept(f).snapshot[e].status = "expired"
              /\ e \notin OverOf(f) \cup StaleOf(f) => Swept(f).snapshot[e] = f.snapshot[e]
              /\ Swept(f).snapshot[e].cut = f.snapshot[e].cut
<1> DEFINE shot(e) == IF e \in OverOf(f) THEN EndAs(f.snapshot[e], Deadline(e))
                      ELSE IF e \in StaleOf(f) THEN EndAs(f.snapshot[e], "expired")
                      ELSE f.snapshot[e]
<1>1. Swept(f) = [sending |-> NoNotice, snapshot |-> [e \in Notice |-> shot(e)],
                  todo |-> f.todo \ (OverOf(f) \cup StaleOf(f)),
                  updates |-> f.updates \cup OverOf(f) \cup StaleOf(f)]
  BY DEF Swept, FlushType
<1>2. OverOf(f) \subseteq Notice /\ StaleOf(f) \subseteq Notice
  BY DEF OverOf, StaleOf, FlushType
<1>3. StaleOf(f) \cap OverOf(f) = {}
  BY DEF StaleOf
<1>4. ASSUME NEW e \in Notice
      PROVE  /\ shot(e) \in NoticeRecord /\ shot(e).cut = f.snapshot[e].cut
             /\ e \in OverOf(f) => shot(e).status = Deadline(e)
             /\ e \in StaleOf(f) => shot(e).status = "expired"
             /\ e \notin OverOf(f) \cup StaleOf(f) => shot(e) = f.snapshot[e]
  <2>1. f.snapshot[e] \in NoticeRecord
    BY DEF FlushType
  <2>2. Deadline(e) \in NoticeStatus /\ "expired" \in NoticeStatus
    BY DEF Deadline, NoticeStatus
  <2>3. /\ EndAs(f.snapshot[e], Deadline(e)) \in NoticeRecord
        /\ EndAs(f.snapshot[e], Deadline(e)).status = Deadline(e)
        /\ EndAs(f.snapshot[e], Deadline(e)).cut = f.snapshot[e].cut
    BY <2>1, <2>2, EndAsRecord
  <2>4. /\ EndAs(f.snapshot[e], "expired") \in NoticeRecord
        /\ EndAs(f.snapshot[e], "expired").status = "expired"
        /\ EndAs(f.snapshot[e], "expired").cut = f.snapshot[e].cut
    BY <2>1, <2>2, EndAsRecord
  <2> QED
    BY <1>3, <2>1, <2>3, <2>4
<1> HIDE DEF shot
<1>5. f.todo \subseteq Notice /\ f.updates \subseteq Notice /\ f.sending \in Notice \cup {NoNotice}
  BY DEF FlushType
<1>6. Swept(f) \in FlushType
  BY <1>1, <1>2, <1>4, <1>5 DEF FlushType
<1>7. \A e \in Notice : Swept(f).snapshot[e] = shot(e)
  BY <1>1
<1> QED
  BY <1>1, <1>4, <1>6, <1>7

\* A round ends the flush and writes its verdicts, or sends a notice that is neither late,
\* cut short nor retired.
LEMMA ProceedOutcome ==
  ASSUME NEW f \in FlushType, NEW alarms, Proceed(f, alarms)
  PROVE  /\ alarmed' = alarmed \cup alarms \cup (OverOf(f) \ Overseer)
         /\ \/ noticeFile' = Merged(Swept(f)) /\ flush' = NoFlush /\ Swept(f).todo = {}
            \/ \E e \in Swept(f).todo :
                 /\ flush' = [sending |-> e, todo |-> Swept(f).todo \ {e},
                              updates |-> Swept(f).updates, snapshot |-> Swept(f).snapshot]
                 /\ noticeFile' = noticeFile
  BY DEF Proceed, OverOf, StaleOf, Swept

\* What a round of flush() starts from: between two deliveries nothing is being sent.
RoundIsSound(f, alarms) ==
  /\ f \in FlushType /\ f.sending = NoNotice /\ FlushIsSound(f, noticeFile)
  /\ alarms \subseteq Notice /\ VerdictsAreReported(f, alarmed \cup alarms)
  /\ RetiredIsMarked(f, noticeFile)

\* After the sweep the same holds, and what is left to do may be sent.
LEMMA SweepKeeps ==
  ASSUME NEW f, NEW alarms, RoundIsSound(f, alarms)
  PROVE  /\ FlushIsSound(Swept(f), noticeFile)
         /\ VerdictsAreReported(Swept(f), alarmed \cup alarms \cup (OverOf(f) \ Overseer))
         /\ Swept(f).todo \cap (overtaken \cup retired) = {}
         /\ HeldBy(Swept(f)) = HeldBy(f)
<1>1. f \in FlushType /\ FlushIsSound(f, noticeFile) /\ RetiredIsMarked(f, noticeFile)
      /\ f.sending = NoNotice /\ VerdictsAreReported(f, alarmed \cup alarms)
  BY DEF RoundIsSound
<1> DEFINE g == Swept(f)
<1>2. /\ g.sending = NoNotice /\ g.todo = f.todo \ (OverOf(f) \cup StaleOf(f))
      /\ g.updates = f.updates \cup OverOf(f) \cup StaleOf(f)
      /\ \A e \in Notice :
           /\ e \in OverOf(f) => g.snapshot[e].status = Deadline(e)
           /\ e \in StaleOf(f) => g.snapshot[e].status = "expired"
           /\ e \notin OverOf(f) \cup StaleOf(f) => g.snapshot[e] = f.snapshot[e]
  BY <1>1, SweepEffect
<1> HIDE DEF g
<1>3. OverOf(f) \subseteq f.todo /\ StaleOf(f) \subseteq f.todo
  BY DEF OverOf, StaleOf
<1>4. f.todo \subseteq Notice /\ f.updates \subseteq Notice /\ NoNotice \notin Notice
  BY <1>1, NotifyAssumption DEF FlushType
<1>5. HeldBy(g) = HeldBy(f)
  BY <1>1, <1>2, <1>3 DEF HeldBy
<1>6. FlushIsSound(g, noticeFile)
  <2>1. g.todo \cap g.updates = {} /\ g.sending \notin g.todo \cup g.updates
    BY <1>1, <1>2, <1>3, <1>4 DEF FlushIsSound
  <2>2. \A e \in Notice : e \in g.todo \/ e = g.sending => g.snapshot[e].status = "pending"
    BY <1>1, <1>2, <1>4 DEF FlushIsSound
  <2>3. \A e \in g.updates : g.snapshot[e].status # "absent"
    BY <1>1, <1>2, <1>3, <1>4 DEF FlushIsSound, Deadline
  <2>4. \A e \in HeldBy(g) : noticeFile[e].status \in {"pending", "absent", "expired"}
    BY <1>1, <1>5 DEF FlushIsSound
  <2> QED
    BY <2>1, <2>2, <2>3, <2>4 DEF FlushIsSound
<1>7. VerdictsAreReported(g, alarmed \cup alarms \cup (OverOf(f) \ Overseer))
  BY <1>1, <1>2, <1>3, <1>4 DEF VerdictsAreReported, Deadline
<1>8. g.todo \cap (overtaken \cup retired) = {}
  <2> SUFFICES ASSUME NEW e \in g.todo PROVE e \notin overtaken \cup retired
    OBVIOUS
  <2>1. e \in f.todo /\ e \notin OverOf(f) /\ e \notin StaleOf(f)
    BY <1>2
  <2>2. ~f.snapshot[e].cut /\ e \notin retired
    BY <2>1 DEF OverOf, StaleOf
  <2> QED
    BY <1>1, <2>1, <2>2 DEF RetiredIsMarked
<1> QED
  BY <1>5, <1>6, <1>7, <1>8 DEF g

\* A round keeps the invariant, and sends nothing that was retired or has its verdict.
LEMMA RoundKeeps ==
  ASSUME NotifyInv, NEW f, NEW alarms, RoundIsSound(f, alarms), Proceed(f, alarms),
         UNCHANGED <<late, retired, overtaken>>
  PROVE  /\ NotifyInv'
         /\ flush' = NoFlush \/ (flush'.sending \in f.todo /\ flush'.sending \notin overtaken)
<1>1. /\ noticeFile \in [Notice -> NoticeRecord] /\ late \subseteq Notice /\ retired \subseteq Notice
      /\ overtaken \subseteq Notice /\ alarmed \subseteq Notice
  BY DEF NotifyInv, NotifyTypeOK
<1>2. f \in FlushType /\ alarms \subseteq Notice /\ RetiredIsMarked(f, noticeFile)
  BY DEF RoundIsSound
<1> DEFINE g == Swept(f)
<1>3. /\ g \in FlushType /\ g.sending = NoNotice /\ g.todo \subseteq f.todo
      /\ \A e \in Notice : g.snapshot[e].cut = f.snapshot[e].cut
  BY <1>2, SweepEffect
<1>4. /\ FlushIsSound(g, noticeFile)
      /\ VerdictsAreReported(g, alarmed \cup alarms \cup (OverOf(f) \ Overseer))
      /\ g.todo \cap (overtaken \cup retired) = {}
  BY SweepKeeps
<1>5. /\ alarmed' = alarmed \cup alarms \cup (OverOf(f) \ Overseer)
      /\ \/ noticeFile' = Merged(g) /\ flush' = NoFlush /\ g.todo = {}
         \/ \E e \in g.todo :
              /\ flush' = [sending |-> e, todo |-> g.todo \ {e},
                           updates |-> g.updates, snapshot |-> g.snapshot]
              /\ noticeFile' = noticeFile
  BY <1>2, ProceedOutcome
<1> HIDE DEF g
<1>6. alarmed' \subseteq Notice
  BY <1>1, <1>2, <1>5 DEF OverOf, FlushType
<1>7. CASE noticeFile' = Merged(g) /\ flush' = NoFlush /\ g.todo = {}
  <2>1. /\ noticeFile' \in [Notice -> NoticeRecord]
        /\ \A e \in Notice :
             IF e \in g.updates /\ noticeFile[e] # Absent
             THEN /\ noticeFile'[e].status = g.snapshot[e].status
                  /\ noticeFile'[e].cut = (g.snapshot[e].cut \/ noticeFile[e].cut)
             ELSE noticeFile'[e] = noticeFile[e]
    BY <1>1, <1>3, <1>7, MergeEffect
  <2>2. NotifyTypeOK'
    BY <1>1, <1>6, <1>7, <2>1, NoFlushHoldsNothing DEF NotifyTypeOK, FlushType
  <2>3. FileIsSound(noticeFile')
    BY <1>4, <2>1 DEF FileIsSound, FlushIsSound, NotifyInv
  <2>4. LossIsReported'
    BY <1>4, <1>5, <2>1 DEF LossIsReported, VerdictsAreReported, NotifyInv
  <2>5. RetiredIsMarked(flush, noticeFile)'
    BY <1>1, <1>2, <1>7, <2>1, NoFlushHoldsNothing DEF RetiredIsMarked
  <2>6. FlushIsSound(flush', noticeFile') /\ VerdictsAreReported(flush', alarmed')
    BY <1>7, NoFlushHoldsNothing DEF VerdictsAreReported
  <2> QED
    BY <1>7, <2>2, <2>3, <2>4, <2>5, <2>6 DEF NotifyInv
<1>8. ASSUME NEW e \in g.todo,
             flush' = [sending |-> e, todo |-> g.todo \ {e},
                       updates |-> g.updates, snapshot |-> g.snapshot],
             noticeFile' = noticeFile
      PROVE  NotifyInv' /\ flush'.sending \in f.todo /\ flush'.sending \notin overtaken
  <2>1. e \in Notice /\ e # NoNotice
    BY <1>3, NotifyAssumption DEF FlushType
  <2>2. /\ flush'.sending = e /\ flush'.todo = g.todo \ {e}
        /\ flush'.updates = g.updates /\ flush'.snapshot = g.snapshot
    BY <1>8
  <2>3. flush' \in FlushType
    BY <1>3, <1>8, <2>1 DEF FlushType
  <2>4. NotifyTypeOK'
    BY <1>1, <1>6, <1>8, <2>3 DEF NotifyTypeOK, FlushType
  <2>5. FlushIsSound(flush', noticeFile')
    <3>1. HeldBy(flush') = HeldBy(g)
      BY <1>3, <2>1, <2>2, NotifyAssumption DEF HeldBy
    <3>2. flush'.todo \cap flush'.updates = {} /\ flush'.sending \notin flush'.todo \cup flush'.updates
      BY <1>4, <2>2 DEF FlushIsSound
    <3>3. \A x \in Notice : x \in flush'.todo \/ x = flush'.sending => flush'.snapshot[x].status = "pending"
      BY <1>4, <2>2 DEF FlushIsSound
    <3> QED
      BY <1>4, <1>8, <2>2, <3>1, <3>2, <3>3 DEF FlushIsSound
  <2>6. VerdictsAreReported(flush', alarmed')
    BY <1>4, <1>5, <2>2 DEF VerdictsAreReported
  <2>7. RetiredIsMarked(flush, noticeFile)'
    BY <1>2, <1>4, <1>8, <2>2 DEF RetiredIsMarked
  <2>8. LossIsReported' /\ FileIsSound(noticeFile')
    BY <1>5, <1>8 DEF LossIsReported, NotifyInv
  <2> QED
    BY <1>3, <1>4, <2>1, <2>2, <2>4, <2>5, <2>6, <2>7, <2>8 DEF NotifyInv
<1> QED
  BY <1>5, <1>7, <1>8

----------------------------------------------------------------------------
(* Every step keeps the invariant. *)

LEMMA InitNotifyInv == NotifyInit => NotifyInv
<1> SUFFICES ASSUME NotifyInit PROVE NotifyInv
  OBVIOUS
<1>1. /\ Absent \in NoticeRecord /\ Absent.status = "absent"
  BY DEF Absent, NoticeRecord, NoticeStatus
<1>2. NotifyTypeOK
  BY <1>1, NoFlushHoldsNothing DEF NotifyInit, NotifyTypeOK, FlushType
<1>3. FileIsSound(noticeFile) /\ LossIsReported
  BY <1>1 DEF NotifyInit, FileIsSound, LossIsReported
<1>4. FlushIsSound(flush, noticeFile) /\ VerdictsAreReported(flush, alarmed)
  BY NoFlushHoldsNothing DEF NotifyInit, VerdictsAreReported
<1> QED
  BY <1>2, <1>3, <1>4 DEF NotifyInit, NotifyInv, RetiredIsMarked

\* The first round has all that is due to do.
LEMMA FirstRound ==
  ASSUME NotifyInv, NEW due \in SUBSET Pending(noticeFile)
  PROVE  LET f == [sending |-> NoNotice, snapshot |-> noticeFile, todo |-> due, updates |-> {}]
         IN RoundIsSound(f, {}) /\ f.todo = due /\ f.updates = {}
<1> DEFINE f == [sending |-> NoNotice, snapshot |-> noticeFile, todo |-> due, updates |-> {}]
<1>1. f = [sending |-> NoNotice, snapshot |-> noticeFile, todo |-> due, updates |-> {}]
  OBVIOUS
<1> HIDE DEF f
<1>2. due \subseteq Notice /\ noticeFile \in [Notice -> NoticeRecord] /\ NoNotice \notin Notice
      /\ \A e \in due : noticeFile[e].status = "pending"
  BY NotifyAssumption DEF Pending, NotifyInv, NotifyTypeOK
<1>3. f \in FlushType
  BY <1>1, <1>2 DEF FlushType
<1>4. FlushIsSound(f, noticeFile)
  BY <1>1, <1>2 DEF FlushIsSound, HeldBy
<1>5. VerdictsAreReported(f, alarmed \cup {})
  BY <1>1 DEF VerdictsAreReported
<1>6. RetiredIsMarked(f, noticeFile)
  BY <1>1 DEF RetiredIsMarked, NotifyInv
<1>7. f.sending = NoNotice /\ f.todo = due /\ f.updates = {}
  BY <1>1
<1> QED
  BY <1>3, <1>4, <1>5, <1>6, <1>7 DEF RoundIsSound, f

\* A later round begins with the outcome of the delivery before it.
LEMMA NextRound ==
  ASSUME NotifyInv, Flushing, NEW r \in Outcomes(flush.sending)
  PROVE  LET f == [sending |-> NoNotice, snapshot |-> [flush.snapshot EXCEPT ![flush.sending] = r],
                   todo |-> flush.todo, updates |-> flush.updates \cup {flush.sending}]
             alarms == IF r.status = "terminal" THEN {flush.sending} ELSE {}
         IN RoundIsSound(f, alarms) /\ f.todo = flush.todo
            /\ f.updates = flush.updates \cup {flush.sending}
            /\ \A e \in flush.updates : f.snapshot[e] = flush.snapshot[e]
<1> DEFINE s == flush.sending
           f == [sending |-> NoNotice, snapshot |-> [flush.snapshot EXCEPT ![s] = r],
                 todo |-> flush.todo, updates |-> flush.updates \cup {s}]
           alarms == IF r.status = "terminal" THEN {s} ELSE {}
<1>1. /\ flush \in FlushType /\ noticeFile \in [Notice -> NoticeRecord] /\ NoNotice \notin Notice
      /\ FlushIsSound(flush, noticeFile) /\ VerdictsAreReported(flush, alarmed)
      /\ RetiredIsMarked(flush, noticeFile)
  BY NotifyAssumption DEF NotifyInv, NotifyTypeOK, FlushType
<1>2. s \in Notice /\ flush.snapshot \in [Notice -> NoticeRecord]
      /\ flush.todo \subseteq Notice /\ flush.updates \subseteq Notice
  BY <1>1 DEF Flushing, FlushType
<1>3. f = [sending |-> NoNotice, snapshot |-> [flush.snapshot EXCEPT ![s] = r],
           todo |-> flush.todo, updates |-> flush.updates \cup {s}]
  OBVIOUS
<1>4. r \in NoticeRecord /\ r.status \notin {"absent", "abandoned"}
  <2>1. flush.snapshot[s] \in NoticeRecord /\ flush.snapshot[s].status = "pending"
    BY <1>1, <1>2 DEF FlushIsSound
  <2>2. CASE r = [flush.snapshot[s] EXCEPT !.deferred = TRUE]
    BY <2>1, <2>2 DEF NoticeRecord
  <2>3. ASSUME NEW v \in {"delivered", "terminal", "suppressed", "expired"},
               r = EndAs(flush.snapshot[s], v)
        PROVE  r \in NoticeRecord /\ r.status \notin {"absent", "abandoned"}
    <3>1. v \in NoticeStatus /\ v \notin {"absent", "abandoned"}
      BY DEF NoticeStatus
    <3> QED
      BY <2>1, <2>3, <3>1, EndAsRecord
  <2> QED
    BY <2>2, <2>3 DEF Outcomes
<1> HIDE DEF f
<1>5. s \notin flush.todo \cup flush.updates
  BY <1>1 DEF FlushIsSound
<1>6. /\ f.sending = NoNotice /\ f.todo = flush.todo /\ f.updates = flush.updates \cup {s}
      /\ f.snapshot[s] = r /\ \A e \in Notice \ {s} : f.snapshot[e] = flush.snapshot[e]
  BY <1>2, <1>3
<1>7. f \in FlushType
  BY <1>2, <1>3, <1>4 DEF FlushType
<1>8. FlushIsSound(f, noticeFile)
  <2>1. HeldBy(f) = HeldBy(flush)
    BY <1>1, <1>2, <1>6 DEF HeldBy
  <2>2. f.todo \cap f.updates = {} /\ f.sending \notin f.todo \cup f.updates
    BY <1>1, <1>2, <1>5, <1>6 DEF FlushIsSound
  <2>3. \A e \in Notice : e \in f.todo \/ e = f.sending => f.snapshot[e].status = "pending"
    BY <1>1, <1>2, <1>5, <1>6 DEF FlushIsSound
  <2>4. \A e \in f.updates : f.snapshot[e].status # "absent"
    BY <1>1, <1>2, <1>4, <1>6 DEF FlushIsSound
  <2> QED
    BY <1>1, <2>1, <2>2, <2>3, <2>4 DEF FlushIsSound
<1>9. VerdictsAreReported(f, alarmed \cup alarms)
  BY <1>1, <1>2, <1>4, <1>5, <1>6 DEF VerdictsAreReported
<1>10. RetiredIsMarked(f, noticeFile)
  BY <1>1, <1>2, <1>5, <1>6 DEF RetiredIsMarked
<1>11. RoundIsSound(f, alarms)
  BY <1>2, <1>6, <1>7, <1>8, <1>9, <1>10 DEF RoundIsSound
<1> QED
  BY <1>2, <1>5, <1>6, <1>11 DEF f

LEMMA FlushStartsKeeps ==
  ASSUME NotifyInv, FlushStarts
  PROVE  /\ NotifyInv'
         /\ flush' = NoFlush \/ (flush'.sending \in Pending(noticeFile) /\ flush'.sending \notin overtaken)
<1> DEFINE due == {e \in Pending(noticeFile) :
                     ~noticeFile[e].deferred \/ e \in late \/ noticeFile[e].cut}
           f == [sending |-> NoNotice, snapshot |-> noticeFile, todo |-> due, updates |-> {}]
<1>1. RoundIsSound(f, {}) /\ f.todo = due
  BY FirstRound
<1>2. Proceed(f, {}) /\ UNCHANGED <<late, retired, overtaken>>
  BY DEF FlushStarts
<1> HIDE DEF f
<1> QED
  BY <1>1, <1>2, RoundKeeps

LEMMA DeliveryEndsKeeps ==
  ASSUME NotifyInv, DeliveryEnds
  PROVE  /\ NotifyInv'
         /\ flush' = NoFlush \/ (flush'.sending \in flush.todo /\ flush'.sending \notin overtaken)
<1> DEFINE f(r) == [sending |-> NoNotice, snapshot |-> [flush.snapshot EXCEPT ![flush.sending] = r],
                    todo |-> flush.todo, updates |-> flush.updates \cup {flush.sending}]
           alarms(r) == IF r.status = "terminal" THEN {flush.sending} ELSE {}
<1>1. PICK r \in Outcomes(flush.sending) : Proceed(f(r), alarms(r))
  BY DEF DeliveryEnds
<1>2. Flushing /\ UNCHANGED <<late, retired, overtaken>>
  BY DEF DeliveryEnds
<1>3. RoundIsSound(f(r), alarms(r)) /\ f(r).todo = flush.todo
  BY <1>2, NextRound
<1> HIDE DEF f, alarms
<1> QED
  BY <1>1, <1>2, <1>3, RoundKeeps

\* What enqueue() does to the file: a new record, which may push another out, or the old one
\* revived or expired.
LEMMA EnqueueEffect ==
  ASSUME NotifyInv, NEW e \in Notice, Enqueue(e)
  PROVE  /\ noticeFile' \in [Notice -> NoticeRecord]
         /\ alarmed' = IF Revives(noticeFile[e]) THEN alarmed \ {e} ELSE alarmed
         /\ overtaken' = {x \in overtaken : noticeFile'[x] # Absent}
         /\ late' \subseteq late /\ flush' = flush /\ retired' = retired
         /\ IF noticeFile[e] = Absent
            THEN /\ noticeFile'[e].status = "pending"
                 /\ \A x \in Notice \ {e} : noticeFile'[x] \in {noticeFile[x], Absent}
                 /\ \A x \in Pending(noticeFile) : noticeFile'[x] = Absent =>
                      /\ Queued(noticeFile) \subseteq Pending(noticeFile)
                      /\ ~(Cardinality(Queued(noticeFile)) < KeepCount)
            ELSE /\ noticeFile'[e].cut = noticeFile[e].cut
                 /\ noticeFile'[e].status \in
                      IF Revives(noticeFile[e]) THEN {"pending", "expired"}
                      ELSE {noticeFile[e].status, "expired"}
                 /\ noticeFile[e].status = "delivered" => noticeFile'[e] = noticeFile[e]
                 /\ \A x \in Notice \ {e} : noticeFile'[x] = noticeFile[x]
<1> DEFINE old == noticeFile[e]
           kept == IF Revives(old) THEN [Fresh EXCEPT !.cut = old.cut] ELSE old
           ended == IF e \in Overseer /\ kept.status # "delivered" /\ (e \in late \/ kept.cut)
                    THEN EndAs(kept, "expired") ELSE kept
           gone == {x \in Notice : noticeFile'[x] = Absent}
           new == [noticeFile EXCEPT ![e] = Fresh]
<1>1. /\ noticeFile \in [Notice -> NoticeRecord] /\ late \subseteq Notice /\ overtaken \subseteq Notice
      /\ FileIsSound(noticeFile)
  BY DEF NotifyInv, NotifyTypeOK
<1>2. /\ noticeFile' \in (IF old = Absent THEN EvictFor(e, new) ELSE {[noticeFile EXCEPT ![e] = ended]})
      /\ alarmed' = IF Revives(old) THEN alarmed \ {e} ELSE alarmed
      /\ late' = late \ gone /\ overtaken' = overtaken \ gone /\ UNCHANGED <<flush, retired>>
  BY DEF Enqueue, DeadlineGone
<1>3. overtaken' = {x \in overtaken : noticeFile'[x] # Absent} /\ late' \subseteq late
  BY <1>1, <1>2
<1>4. /\ Absent \in NoticeRecord /\ Absent.status = "absent" /\ Absent.cut = FALSE
      /\ Fresh \in NoticeRecord /\ Fresh.status = "pending" /\ Fresh # Absent
  BY DEF Absent, Fresh, NoticeRecord, NoticeStatus
<1>5. CASE old = Absent
  <2> DEFINE others == Queued(new) \ {e}
             done == others \ Pending(new)
  <2>1. new \in [Notice -> NoticeRecord] /\ new[e] = Fresh
        /\ \A x \in Notice \ {e} : new[x] = noticeFile[x]
    BY <1>1, <1>4
  <2>2. noticeFile' \in EvictFor(e, new)
    BY <1>2, <1>5
  <2> HIDE DEF new
  <2>3. others = Queued(noticeFile) /\ others \cap Pending(new) = Pending(noticeFile)
    BY <1>1, <1>4, <1>5, <2>1 DEF Queued, Pending
  <2> HIDE DEF others
  <2>4. others \subseteq Notice \ {e}
    BY <1>4, <1>5, <2>3 DEF Queued
  <2>5. CASE Cardinality(others) < KeepCount
    <3>1. noticeFile' = new
      BY <2>2, <2>5 DEF EvictFor, others
    <3>2. \A x \in Pending(noticeFile) : noticeFile'[x] # Absent
      BY <1>4, <1>5, <2>1, <3>1 DEF Pending
    <3> QED
      BY <1>2, <1>3, <1>4, <1>5, <2>1, <3>1, <3>2
  <2>6. CASE ~(Cardinality(others) < KeepCount)
    <3>1. PICK x \in (IF done # {} THEN done ELSE others) : noticeFile' = [new EXCEPT ![x] = Absent]
      BY <2>2, <2>6 DEF EvictFor, others
    <3>2. x \in Notice \ {e}
      BY <2>4, <3>1
    <3>3. /\ noticeFile' \in [Notice -> NoticeRecord] /\ noticeFile'[x] = Absent /\ noticeFile'[e] = Fresh
          /\ \A y \in Notice \ {e, x} : noticeFile'[y] = noticeFile[y]
      BY <1>4, <2>1, <3>1, <3>2
    <3>4. ASSUME NEW y \in Pending(noticeFile), noticeFile'[y] = Absent
          PROVE  Queued(noticeFile) \subseteq Pending(noticeFile)
      <4>1. y = x
        BY <1>4, <1>5, <3>3, <3>4 DEF Pending
      <4>2. x \notin done
        BY <2>3, <3>4, <4>1
      <4>3. done = {}
        BY <3>1, <4>2
      <4> QED
        BY <2>3, <4>3
    <3> QED
      BY <1>2, <1>3, <1>4, <1>5, <2>3, <2>6, <3>3, <3>4
  <2> QED
    BY <2>5, <2>6
<1>6. CASE old # Absent
  <2>1. old \in NoticeRecord
    BY <1>1
  <2>2. kept \in NoticeRecord /\ kept.cut = old.cut
        /\ kept.status = (IF Revives(old) THEN "pending" ELSE old.status)
    <3>1. CASE Revives(old)
      BY <1>4, <2>1, <3>1 DEF NoticeRecord
    <3>2. CASE ~Revives(old)
      BY <2>1, <3>2
    <3> QED
      BY <3>1, <3>2
  <2>3. "expired" \in NoticeStatus
    BY DEF NoticeStatus
  <2>4. old.status = "delivered" => ~Revives(old)
    BY DEF Revives
  <2>5. /\ ended \in NoticeRecord /\ ended.cut = old.cut
        /\ ended.status \in {kept.status, "expired"}
        /\ kept.status = "delivered" => ended = kept
    <3> HIDE DEF kept
    <3>1. EndAs(kept, "expired") \in NoticeRecord /\ EndAs(kept, "expired").status = "expired"
          /\ EndAs(kept, "expired").cut = kept.cut
      BY <2>2, <2>3, EndAsRecord
    <3> QED
      BY <2>2, <3>1
  <2>6. old.status = "delivered" => ended = old
    BY <2>2, <2>4, <2>5
  <2> HIDE DEF ended, kept
  <2>7. /\ noticeFile' \in [Notice -> NoticeRecord] /\ noticeFile'[e] = ended
        /\ \A x \in Notice \ {e} : noticeFile'[x] = noticeFile[x]
    BY <1>1, <1>2, <1>6, <2>5
  <2> QED
    BY <1>2, <1>3, <1>6, <2>2, <2>5, <2>6, <2>7
<1> QED
  BY <1>5, <1>6

LEMMA EnqueueKeeps ==
  ASSUME NotifyInv, NEW e \in Notice, Enqueue(e)
  PROVE  NotifyInv'
<1> DEFINE old == noticeFile[e]
<1>1. /\ NotifyTypeOK /\ FileIsSound(noticeFile) /\ FlushIsSound(flush, noticeFile)
      /\ VerdictsAreReported(flush, alarmed) /\ RetiredIsMarked(flush, noticeFile) /\ LossIsReported
      /\ flush.sending = NoNotice => flush = NoFlush
  BY DEF NotifyInv
<1>2. /\ noticeFile' \in [Notice -> NoticeRecord]
      /\ alarmed' = IF Revives(old) THEN alarmed \ {e} ELSE alarmed
      /\ overtaken' = {x \in overtaken : noticeFile'[x] # Absent}
      /\ late' \subseteq late /\ flush' = flush /\ retired' = retired
  BY EnqueueEffect
<1>3. CASE old = Absent
  <2>1. /\ noticeFile'[e].status = "pending"
        /\ \A x \in Notice \ {e} : noticeFile'[x] \in {noticeFile[x], Absent}
    BY <1>3, EnqueueEffect
  <2>2. ~Revives(old) /\ Absent.status = "absent" /\ Absent.cut = FALSE
    BY <1>3 DEF Revives, Absent
  <2>3. NotifyTypeOK'
    BY <1>1, <1>2, <2>2 DEF NotifyTypeOK
  <2>4. FileIsSound(noticeFile')
    BY <1>1, <2>1 DEF FileIsSound
  <2>5. FlushIsSound(flush', noticeFile')
    BY <1>1, <1>2, <1>3, <2>1, <2>2 DEF FlushIsSound, HeldBy
  <2>6. VerdictsAreReported(flush', alarmed')
    BY <1>1, <1>2, <2>2
  <2>7. RetiredIsMarked(flush, noticeFile)'
    BY <1>1, <1>2, <1>3, <2>1, <2>2 DEF RetiredIsMarked, NotifyTypeOK
  <2>8. LossIsReported'
    BY <1>1, <1>2, <2>1, <2>2 DEF LossIsReported
  <2> QED
    BY <1>1, <1>2, <2>3, <2>4, <2>5, <2>6, <2>7, <2>8 DEF NotifyInv, NoFlush
<1>4. CASE old # Absent
  <2>1. /\ noticeFile'[e].cut = old.cut
        /\ noticeFile'[e].status \in
             IF Revives(old) THEN {"pending", "expired"} ELSE {old.status, "expired"}
        /\ \A x \in Notice \ {e} : noticeFile'[x] = noticeFile[x]
    BY <1>4, EnqueueEffect
  <2>2. NotifyTypeOK'
    BY <1>1, <1>2 DEF NotifyTypeOK
  <2>3. FileIsSound(noticeFile')
    BY <1>1, <1>4, <2>1 DEF FileIsSound
  <2>4. FlushIsSound(flush', noticeFile')
    <3>1. Revives(old) => e \notin HeldBy(flush)
      BY <1>1 DEF FlushIsSound, Revives
    <3> QED
      BY <1>1, <1>2, <2>1, <3>1 DEF FlushIsSound, HeldBy
  <2>5. VerdictsAreReported(flush', alarmed')
    <3>1. Revives(old) => e \notin flush.updates
      BY <1>1 DEF FlushIsSound, Revives, HeldBy
    <3> QED
      BY <1>1, <1>2, <3>1 DEF VerdictsAreReported
  <2>6. RetiredIsMarked(flush, noticeFile)'
    BY <1>1, <1>2, <2>1 DEF RetiredIsMarked, NotifyTypeOK
  <2>7. LossIsReported'
    BY <1>1, <1>2, <2>1 DEF LossIsReported
  <2> QED
    BY <1>1, <1>2, <2>2, <2>3, <2>4, <2>5, <2>6, <2>7 DEF NotifyInv, NoFlush
<1> QED
  BY <1>3, <1>4

\* What retire() does to the file.
LEMMA RetireEffect ==
  ASSUME NotifyInv, NEW S \in SUBSET Notice, Retire(S)
  PROVE  /\ noticeFile' \in [Notice -> NoticeRecord]
         /\ \A e \in Notice : IF e \in S /\ noticeFile[e].status = "pending"
                            THEN noticeFile'[e].status = "expired" /\ noticeFile'[e].cut
                            ELSE noticeFile'[e] = noticeFile[e]
<1>1. noticeFile \in [Notice -> NoticeRecord] /\ "expired" \in NoticeStatus
  BY DEF NotifyInv, NotifyTypeOK, NoticeStatus
<1>2. ASSUME NEW r \in NoticeRecord
      PROVE  LET q == EndAs([r EXCEPT !.cut = TRUE], "expired")
             IN q \in NoticeRecord /\ q.status = "expired" /\ q.cut
  BY <1>1 DEF EndAs, NoticeRecord
<1> QED
  BY <1>1, <1>2 DEF Retire, Pending

LEMMA RetireKeeps ==
  ASSUME NotifyInv, NEW S \in SUBSET Notice, Retire(S)
  PROVE  NotifyInv'
<1>1. /\ NotifyTypeOK /\ FileIsSound(noticeFile) /\ FlushIsSound(flush, noticeFile)
      /\ VerdictsAreReported(flush, alarmed) /\ RetiredIsMarked(flush, noticeFile) /\ LossIsReported
      /\ flush.sending = NoNotice => flush = NoFlush
  BY DEF NotifyInv
<1>2. /\ noticeFile' \in [Notice -> NoticeRecord]
      /\ \A e \in Notice : IF e \in S /\ noticeFile[e].status = "pending"
                         THEN noticeFile'[e].status = "expired" /\ noticeFile'[e].cut
                         ELSE noticeFile'[e] = noticeFile[e]
  BY RetireEffect
<1>3. /\ retired' = retired \cup S
      /\ overtaken' = overtaken \cup {e \in S : noticeFile[e].status = "pending"}
      /\ UNCHANGED <<late, flush, alarmed>>
  BY DEF Retire, Pending
<1>4. NotifyTypeOK'
  BY <1>1, <1>2, <1>3 DEF NotifyTypeOK
<1>5. FileIsSound(noticeFile') /\ LossIsReported'
  BY <1>1, <1>2, <1>3 DEF FileIsSound, LossIsReported
<1>6. FlushIsSound(flush', noticeFile')
  BY <1>1, <1>2, <1>3 DEF FlushIsSound, HeldBy
<1>7. VerdictsAreReported(flush', alarmed')
  BY <1>1, <1>3
<1>8. RetiredIsMarked(flush, noticeFile)'
  BY <1>1, <1>2, <1>3 DEF RetiredIsMarked, NotifyTypeOK
<1> QED
  BY <1>1, <1>3, <1>4, <1>5, <1>6, <1>7, <1>8 DEF NotifyInv, NoFlush

LEMMA BackoffElapsesKeeps ==
  ASSUME NotifyInv, NEW e \in Notice, BackoffElapses(e)
  PROVE  /\ NotifyInv' /\ flush' = flush
         /\ \A x \in Notice : noticeFile'[x].status = noticeFile[x].status
                            /\ noticeFile'[x].cut = noticeFile[x].cut
<1>1. /\ NotifyTypeOK /\ FileIsSound(noticeFile) /\ FlushIsSound(flush, noticeFile)
      /\ VerdictsAreReported(flush, alarmed) /\ RetiredIsMarked(flush, noticeFile) /\ LossIsReported
      /\ flush.sending = NoNotice => flush = NoFlush
      /\ noticeFile \in [Notice -> NoticeRecord] /\ overtaken \subseteq Notice
  BY DEF NotifyInv, NotifyTypeOK
<1>2. noticeFile[e].deferred /\ noticeFile' = [noticeFile EXCEPT ![e].deferred = FALSE]
      /\ UNCHANGED <<late, flush, retired, overtaken, alarmed>>
  BY DEF BackoffElapses
<1>3. /\ [noticeFile[e] EXCEPT !.deferred = FALSE] \in NoticeRecord
      /\ [noticeFile[e] EXCEPT !.deferred = FALSE].status = noticeFile[e].status
      /\ [noticeFile[e] EXCEPT !.deferred = FALSE].cut = noticeFile[e].cut
  <2>1. noticeFile[e] \in NoticeRecord
    BY <1>1
  <2> QED
    BY <2>1 DEF NoticeRecord
<1>4. noticeFile' = [noticeFile EXCEPT ![e] = [noticeFile[e] EXCEPT !.deferred = FALSE]]
  BY <1>1, <1>2
<1>5. /\ noticeFile' \in [Notice -> NoticeRecord]
      /\ \A x \in Notice : noticeFile'[x].status = noticeFile[x].status
                         /\ noticeFile'[x].cut = noticeFile[x].cut
      /\ \A x \in Notice \ {e} : noticeFile'[x] = noticeFile[x]
  BY <1>1, <1>3, <1>4
<1>6. noticeFile[e].status # "absent"
  BY <1>1, <1>2 DEF FileIsSound, Absent
<1>7. NotifyTypeOK' /\ FileIsSound(noticeFile') /\ LossIsReported'
  BY <1>1, <1>2, <1>5, <1>6 DEF NotifyTypeOK, FileIsSound, LossIsReported
<1>8. FlushIsSound(flush', noticeFile')
  BY <1>1, <1>2, <1>5 DEF FlushIsSound, HeldBy
<1>9. VerdictsAreReported(flush', alarmed') /\ RetiredIsMarked(flush, noticeFile)'
  BY <1>1, <1>2, <1>5 DEF RetiredIsMarked
<1> QED
  BY <1>1, <1>2, <1>5, <1>7, <1>8, <1>9 DEF NotifyInv, NoFlush

LEMMA RestKeeps ==
  ASSUME NotifyInv,
         \/ \E e \in Notice : DeadlinePasses(e)
         \/ NotifierDies
         \/ UNCHANGED notifyVars
  PROVE  NotifyInv' /\ noticeFile' = noticeFile /\ flush' \in {flush, NoFlush}
<1>1. /\ NotifyTypeOK /\ FileIsSound(noticeFile) /\ FlushIsSound(flush, noticeFile)
      /\ VerdictsAreReported(flush, alarmed) /\ RetiredIsMarked(flush, noticeFile) /\ LossIsReported
      /\ flush.sending = NoNotice => flush = NoFlush
  BY DEF NotifyInv
<1>2. CASE \E e \in Notice : DeadlinePasses(e)
  <2>1. late' \subseteq Notice /\ UNCHANGED <<noticeFile, flush, retired, overtaken, alarmed>>
    BY <1>1, <1>2 DEF DeadlinePasses, NotifyTypeOK
  <2> QED
    BY <1>1, <2>1 DEF NotifyInv, NotifyTypeOK, FileIsSound, FlushIsSound, VerdictsAreReported,
                      RetiredIsMarked, LossIsReported, HeldBy, NoFlush
<1>3. CASE NotifierDies
  <2>1. flush' = NoFlush /\ retired' = {} /\ UNCHANGED <<noticeFile, late, overtaken, alarmed>>
    BY <1>3 DEF NotifierDies
  <2>2. NoFlush' = NoFlush
    BY DEF NoFlush, Absent
  <2>3. NotifyTypeOK'
    BY <1>1, <2>1, NoFlushHoldsNothing DEF NotifyTypeOK, FlushType
  <2>4. FlushIsSound(flush', noticeFile') /\ VerdictsAreReported(flush', alarmed')
    BY <2>1, NoFlushHoldsNothing DEF VerdictsAreReported
  <2>5. RetiredIsMarked(flush, noticeFile)' /\ FileIsSound(noticeFile') /\ LossIsReported'
    BY <1>1, <2>1, NoFlushHoldsNothing DEF RetiredIsMarked, FileIsSound, LossIsReported
  <2> QED
    BY <2>1, <2>2, <2>3, <2>4, <2>5 DEF NotifyInv
<1>4. CASE UNCHANGED notifyVars
  BY <1>1, <1>4 DEF notifyVars, NotifyInv, NotifyTypeOK, FileIsSound, FlushIsSound,
                    VerdictsAreReported, RetiredIsMarked, LossIsReported, HeldBy, NoFlush
<1> QED
  BY <1>2, <1>3, <1>4

LEMMA StepKeeps == NotifyInv /\ [NotifyNext]_notifyVars => NotifyInv'
  BY EnqueueKeeps, RetireKeeps, FlushStartsKeeps, DeliveryEndsKeeps, BackoffElapsesKeeps,
     RestKeeps DEF NotifyNext

\* The strengthened invariant of the outbox holds throughout.
THEOREM NotifyInvariant == NotifySpec => []NotifyInv
  BY InitNotifyInv, StepKeeps, PTL DEF NotifySpec

\* Every variable of the outbox keeps its type.
THEOREM NotifyTypes == NotifySpec => []NotifyTypeOK
<1>1. NotifyInv => NotifyTypeOK
  BY DEF NotifyInv
<1> QED
  BY <1>1, NotifyInvariant, PTL

\* A record the file gives up on was reported (finding no target, refused by all, aged out),
\* also when an enqueue or a retire came between the verdict and its write.
THEOREM LossesAreReported == NotifySpec => []LossIsReported
<1>1. NotifyInv => LossIsReported
  BY DEF NotifyInv
<1> QED
  BY <1>1, NotifyInvariant, PTL

\* A notice that retire() closed is not sent any more, by this process or a later one.
THEOREM RetiredStaysUnsent == NotifySpec => RetiredIsNeverSent
<1>1. NotifyInv /\ [NotifyNext]_notifyVars => [\A e \in overtaken : ~Sends(e)]_notifyVars
  <2> SUFFICES ASSUME NotifyInv, NotifyNext, NEW e \in overtaken, Sends(e) PROVE FALSE
    BY DEF notifyVars
  <2>1. e \in Notice /\ e # NoNotice /\ flush'.sending = e /\ flush' # flush
    BY NotifyAssumption DEF NotifyInv, NotifyTypeOK, Sends
  <2>2. flush' # NoFlush
    BY <2>1, NoFlushHoldsNothing
  <2>3. FlushStarts \/ DeliveryEnds
    BY <2>1, <2>2 DEF NotifyNext, Enqueue, BackoffElapses, DeadlinePasses, Retire, NotifierDies
  <2> QED
    BY <2>1, <2>2, <2>3, FlushStartsKeeps, DeliveryEndsKeeps
<1> QED
  BY <1>1, NotifyInvariant, PTL DEF NotifySpec, RetiredIsNeverSent

----------------------------------------------------------------------------
(* What is learned of a delivery is kept. *)

\* A round takes no record out of the file, and forgets no delivery that is in the file or
\* among the updates of the flush.
LEMMA RoundKeepsNotices ==
  ASSUME NotifyInv, NEW f, NEW alarms, RoundIsSound(f, alarms), Proceed(f, alarms)
  PROVE  /\ \A e \in Notice : noticeFile[e] # Absent => noticeFile'[e] # Absent
         /\ \A e \in Notice : noticeFile[e].status = "delivered" => noticeFile'[e].status = "delivered"
         /\ \A e \in f.updates : f.snapshot[e].status = "delivered" =>
                                 e \in Acknowledged' \/ noticeFile'[e] = Absent
<1>1. f \in FlushType /\ FlushIsSound(f, noticeFile)
  BY DEF RoundIsSound
<1>2. noticeFile \in [Notice -> NoticeRecord]
  BY DEF NotifyInv, NotifyTypeOK
<1> DEFINE g == Swept(f)
<1>3. /\ g \in FlushType /\ g.updates = f.updates \cup OverOf(f) \cup StaleOf(f)
      /\ \A e \in Notice : e \notin OverOf(f) \cup StaleOf(f) => g.snapshot[e] = f.snapshot[e]
  BY <1>1, SweepEffect
<1>4. FlushIsSound(g, noticeFile) /\ HeldBy(g) = HeldBy(f)
  BY SweepKeeps
<1>5. \/ noticeFile' = Merged(g) /\ flush' = NoFlush
      \/ \E e \in g.todo :
           /\ flush' = [sending |-> e, todo |-> g.todo \ {e},
                        updates |-> g.updates, snapshot |-> g.snapshot]
           /\ noticeFile' = noticeFile
  BY <1>1, ProceedOutcome
<1> HIDE DEF g
<1>6. \A e \in f.updates : e \in Notice /\ e \in g.updates /\ g.snapshot[e] = f.snapshot[e]
  <2>1. OverOf(f) \subseteq f.todo /\ StaleOf(f) \subseteq f.todo
    BY DEF OverOf, StaleOf
  <2> QED
    BY <1>1, <1>3, <2>1 DEF FlushIsSound, FlushType
<1>7. CASE noticeFile' = Merged(g) /\ flush' = NoFlush
  <2>1. \A e \in Notice :
          IF e \in g.updates /\ noticeFile[e] # Absent
          THEN noticeFile'[e].status = g.snapshot[e].status
          ELSE noticeFile'[e] = noticeFile[e]
    BY <1>2, <1>3, <1>7, MergeEffect
  <2>2. \A e \in Notice : noticeFile[e] # Absent => noticeFile'[e] # Absent
    <3>1. Absent.status = "absent"
      BY DEF Absent
    <3> QED
      BY <1>4, <2>1, <3>1 DEF FlushIsSound
  <2>3. \A e \in Notice : noticeFile[e].status = "delivered" => noticeFile'[e].status = "delivered"
    BY <1>4, <2>1 DEF FlushIsSound, HeldBy
  <2>4. ASSUME NEW e \in f.updates, f.snapshot[e].status = "delivered"
        PROVE  e \in Acknowledged' \/ noticeFile'[e] = Absent
    BY <1>6, <2>1, <2>4 DEF Acknowledged
  <2> QED
    BY <2>2, <2>3, <2>4
<1>8. ASSUME NEW x \in g.todo,
             flush' = [sending |-> x, todo |-> g.todo \ {x},
                       updates |-> g.updates, snapshot |-> g.snapshot],
             noticeFile' = noticeFile
      PROVE  \A e \in f.updates : f.snapshot[e].status = "delivered" => e \in Acknowledged'
  <2>1. flush'.updates = g.updates /\ flush'.snapshot = g.snapshot
    BY <1>8
  <2> QED
    BY <1>6, <2>1 DEF Acknowledged
<1> QED
  BY <1>5, <1>7, <1>8

\* What one step of the outbox may do to a notice.
NoticesKept ==
  /\ \A e \in Acknowledged :
       ~Sends(e) /\ (e \in Acknowledged' \/ noticeFile'[e] = Absent \/ Died)
  /\ \A e \in Pending(noticeFile) :
       noticeFile'[e] = Absent =>
         /\ Pending(noticeFile) = Queued(noticeFile)
         /\ Cardinality(Queued(noticeFile)) >= KeepCount

LEMMA AcknowledgedIsNotice == NotifyInv => Acknowledged \subseteq Notice
  BY DEF NotifyInv, NotifyTypeOK, Acknowledged

LEMMA FlushStartsKeepsNotices ==
  ASSUME NotifyInv, FlushStarts PROVE NoticesKept
<1> DEFINE due == {e \in Pending(noticeFile) :
                     ~noticeFile[e].deferred \/ e \in late \/ noticeFile[e].cut}
           f == [sending |-> NoNotice, snapshot |-> noticeFile, todo |-> due, updates |-> {}]
<1>1. RoundIsSound(f, {}) /\ f.todo = due /\ Proceed(f, {})
  BY FirstRound DEF FlushStarts
<1>2. flush.updates = {}
  BY NoFlushHoldsNothing DEF FlushStarts, Flushing, NotifyInv
<1>3. /\ \A e \in Notice : noticeFile[e] # Absent => noticeFile'[e] # Absent
      /\ \A e \in Notice : noticeFile[e].status = "delivered" => noticeFile'[e].status = "delivered"
  <2> HIDE DEF f
  <2> QED
    BY <1>1, RoundKeepsNotices
<1>4. flush' = NoFlush \/ flush'.sending \in Pending(noticeFile)
  BY FlushStartsKeeps
<1>5. ASSUME NEW e \in Acknowledged PROVE ~Sends(e) /\ e \in Acknowledged'
  <2>1. e \in Notice /\ noticeFile[e].status = "delivered"
    BY <1>2 DEF Acknowledged
  <2>2. e # NoNotice /\ NoFlush.sending = NoNotice
    BY <2>1, NotifyAssumption, NoFlushHoldsNothing
  <2> QED
    BY <1>3, <1>4, <2>1, <2>2 DEF Acknowledged, Sends, Pending
<1>6. ASSUME NEW e \in Pending(noticeFile) PROVE noticeFile'[e] # Absent
  BY <1>3 DEF Pending, Absent
<1> QED
  BY <1>5, <1>6 DEF NoticesKept

LEMMA DeliveryEndsKeepsNotices ==
  ASSUME NotifyInv, DeliveryEnds PROVE NoticesKept
<1> DEFINE f(r) == [sending |-> NoNotice, snapshot |-> [flush.snapshot EXCEPT ![flush.sending] = r],
                    todo |-> flush.todo, updates |-> flush.updates \cup {flush.sending}]
           alarms(r) == IF r.status = "terminal" THEN {flush.sending} ELSE {}
<1>1. PICK r \in Outcomes(flush.sending) : Proceed(f(r), alarms(r))
  BY DEF DeliveryEnds
<1>2. /\ RoundIsSound(f(r), alarms(r)) /\ flush.updates \subseteq f(r).updates
      /\ \A e \in flush.updates : f(r).snapshot[e] = flush.snapshot[e]
  BY NextRound DEF DeliveryEnds
<1> HIDE DEF f, alarms
<1>3. /\ \A e \in Notice : noticeFile[e] # Absent => noticeFile'[e] # Absent
      /\ \A e \in Notice : noticeFile[e].status = "delivered" => noticeFile'[e].status = "delivered"
      /\ \A e \in flush.updates : flush.snapshot[e].status = "delivered" =>
                                  e \in Acknowledged' \/ noticeFile'[e] = Absent
  BY <1>1, <1>2, RoundKeepsNotices
<1>4. flush' = NoFlush \/ flush'.sending \in flush.todo
  BY DeliveryEndsKeeps
<1>5. /\ FlushIsSound(flush, noticeFile) /\ flush.todo \subseteq Notice /\ flush.updates \subseteq Notice
  BY DEF NotifyInv, NotifyTypeOK
<1>6. ASSUME NEW e \in Acknowledged
      PROVE  ~Sends(e) /\ (e \in Acknowledged' \/ noticeFile'[e] = Absent)
  <2>1. e \in Notice
    BY AcknowledgedIsNotice
  <2>2. e # NoNotice /\ NoFlush.sending = NoNotice
    BY <2>1, NotifyAssumption, NoFlushHoldsNothing
  <2>3. e \notin flush.todo
    BY <1>5, <2>1 DEF Acknowledged, FlushIsSound, HeldBy
  <2>4. ~Sends(e)
    BY <1>4, <2>2, <2>3 DEF Sends
  <2>5. CASE noticeFile[e].status = "delivered"
    BY <1>3, <2>1, <2>4, <2>5 DEF Acknowledged
  <2>6. CASE e \in flush.updates /\ flush.snapshot[e].status = "delivered"
    BY <1>3, <2>4, <2>6
  <2> QED
    BY <2>5, <2>6 DEF Acknowledged
<1>7. ASSUME NEW e \in Pending(noticeFile) PROVE noticeFile'[e] # Absent
  BY <1>3 DEF Pending, Absent
<1> QED
  BY <1>6, <1>7 DEF NoticesKept

LEMMA EnqueueKeepsNotices ==
  ASSUME IsFiniteSet(Notice), NotifyInv, NEW e \in Notice, Enqueue(e) PROVE NoticesKept
<1>1. /\ FileIsSound(noticeFile) /\ flush' = flush /\ flush.updates \subseteq Notice
  BY EnqueueEffect DEF NotifyInv, NotifyTypeOK
<1>2. Cardinality(Queued(noticeFile)) \in Nat
  BY FS_Subset, FS_CardinalityType DEF Queued
<1>3. KeepCount \in Nat
  BY NotifyAssumption
<1>4. CASE noticeFile[e] = Absent
  <2>1. /\ \A x \in Notice \ {e} : noticeFile'[x] \in {noticeFile[x], Absent}
        /\ noticeFile'[e].status = "pending"
        /\ \A x \in Pending(noticeFile) : noticeFile'[x] = Absent =>
             /\ Queued(noticeFile) \subseteq Pending(noticeFile)
             /\ ~(Cardinality(Queued(noticeFile)) < KeepCount)
    BY <1>4, EnqueueEffect
  <2>2. Pending(noticeFile) \subseteq Queued(noticeFile)
    BY DEF Pending, Queued
  <2>3. ASSUME NEW x \in Acknowledged
        PROVE  ~Sends(x) /\ (x \in Acknowledged' \/ noticeFile'[x] = Absent)
    <3>1. x \in Notice
      BY AcknowledgedIsNotice
    <3>2. ~Sends(x)
      BY <1>1 DEF Sends
    <3>3. CASE x \in flush.updates /\ flush.snapshot[x].status = "delivered"
      BY <1>1, <3>2, <3>3 DEF Acknowledged
    <3>4. CASE noticeFile[x].status = "delivered"
      <4>1. x # e
        BY <1>4, <3>4 DEF Absent
      <4> QED
        BY <2>1, <3>1, <3>2, <3>4, <4>1 DEF Acknowledged
    <3> QED
      BY <3>3, <3>4 DEF Acknowledged
  <2> QED
    BY <1>2, <1>3, <2>1, <2>2, <2>3 DEF NoticesKept
<1>5. CASE noticeFile[e] # Absent
  <2>1. /\ noticeFile'[e].status \in
             IF Revives(noticeFile[e]) THEN {"pending", "expired"}
             ELSE {noticeFile[e].status, "expired"}
        /\ noticeFile[e].status = "delivered" => noticeFile'[e] = noticeFile[e]
        /\ \A x \in Notice \ {e} : noticeFile'[x] = noticeFile[x]
    BY <1>5, EnqueueEffect
  <2>2. \A x \in Acknowledged : ~Sends(x) /\ x \in Acknowledged'
    BY <1>1, <2>1 DEF Acknowledged, Sends
  <2>3. \A x \in Pending(noticeFile) : noticeFile'[x] # Absent
    BY <1>1, <2>1 DEF Pending, Absent
  <2> QED
    BY <2>2, <2>3 DEF NoticesKept
<1> QED
  BY <1>4, <1>5

LEMMA OthersKeepNotices ==
  ASSUME NotifyInv,
         \/ \E S \in SUBSET Notice : Retire(S)
         \/ \E e \in Notice : BackoffElapses(e) \/ DeadlinePasses(e)
         \/ NotifierDies
  PROVE  NoticesKept
<1>1. CASE \E S \in SUBSET Notice : Retire(S)
  <2>1. PICK S \in SUBSET Notice : Retire(S)
    BY <1>1
  <2>2. \A e \in Notice : IF e \in S /\ noticeFile[e].status = "pending"
                       THEN noticeFile'[e].status = "expired"
                       ELSE noticeFile'[e] = noticeFile[e]
    BY <2>1, RetireEffect
  <2>3. flush' = flush
    BY <2>1 DEF Retire
  <2> QED
    BY <2>2, <2>3 DEF NoticesKept, Acknowledged, Sends, Pending, Absent
<1>2. CASE \E e \in Notice : BackoffElapses(e)
  <2>1. /\ flush' = flush
        /\ \A x \in Notice : noticeFile'[x].status = noticeFile[x].status
    BY <1>2, BackoffElapsesKeeps
  <2> QED
    BY <2>1 DEF NoticesKept, Acknowledged, Sends, Pending, Absent
<1>3. CASE \E e \in Notice : DeadlinePasses(e)
  <2>1. noticeFile' = noticeFile /\ flush' = flush
    BY <1>3 DEF DeadlinePasses
  <2> QED
    BY <2>1 DEF NoticesKept, Acknowledged, Sends, Pending, Absent
<1>4. CASE NotifierDies
  <2>1. flush' = NoFlush /\ noticeFile' = noticeFile
    BY <1>4 DEF NotifierDies
  <2>2. \A e \in Acknowledged : ~Sends(e)
    BY <2>1, NoFlushHoldsNothing, NotifyAssumption, AcknowledgedIsNotice DEF Sends
  <2> QED
    BY <2>1, <2>2 DEF NoticesKept, Died, Pending, Absent
<1> QED
  BY <1>1, <1>2, <1>3, <1>4

\* No await of flush() loses a notice: what was delivered is neither forgotten nor sent again,
\* and an undelivered notice goes only when the cap is reached and all of them are undelivered.
THEOREM NothingIsLost == IsFiniteSet(Notice) => (NotifySpec => NoticesAreKept)
<1> SUFFICES ASSUME IsFiniteSet(Notice) PROVE NotifySpec => NoticesAreKept
  OBVIOUS
<1>1. NotifyInv /\ [NotifyNext]_notifyVars => [NoticesKept]_notifyVars
  BY EnqueueKeepsNotices, FlushStartsKeepsNotices, DeliveryEndsKeepsNotices, OthersKeepNotices
     DEF NotifyNext
<1>2. [NoticesKept]_notifyVars =>
        [/\ \A e \in Acknowledged :
              /\ ~Sends(e)
              /\ e \in Acknowledged' \/ noticeFile'[e] = Absent \/ Died
         /\ \A e \in Pending(noticeFile) :
              noticeFile'[e] = Absent =>
                /\ Pending(noticeFile) = Queued(noticeFile)
                /\ Cardinality(Queued(noticeFile)) >= KeepCount]_notifyVars
  BY DEF NoticesKept
<1> QED
  BY <1>1, <1>2, NotifyInvariant, PTL DEF NotifySpec, NoticesAreKept

----------------------------------------------------------------------------
(* A flush comes to an end. *)

\* Every await of flush() that returns takes it on: it ends, or sends one of the notices it
\* still had to do and keeps every verdict it has, the one on what it just sent included.
FlushAdvances ==
  Flushing /\ flush' # flush =>
    \/ flush' = NoFlush
    \/ /\ flush'.sending \in flush.todo
       /\ flush'.todo \subseteq flush.todo \ {flush'.sending}
       /\ flush.updates \cup {flush.sending} \subseteq flush'.updates

\* A round takes nothing back of what there was to do, or of the verdicts.
LEMMA RoundShrinks ==
  ASSUME NEW f \in FlushType, NEW alarms, Proceed(f, alarms)
  PROVE  \/ flush' = NoFlush
         \/ /\ flush'.sending \in f.todo
            /\ flush'.todo \subseteq f.todo \ {flush'.sending}
            /\ f.updates \subseteq flush'.updates
<1> DEFINE g == Swept(f)
<1>1. g.todo \subseteq f.todo /\ f.updates \subseteq g.updates
  BY SweepEffect
<1>2. \/ flush' = NoFlush
      \/ \E e \in g.todo : flush' = [sending |-> e, todo |-> g.todo \ {e},
                                     updates |-> g.updates, snapshot |-> g.snapshot]
  BY ProceedOutcome
<1> HIDE DEF g
<1> QED
  BY <1>1, <1>2

\* A flush never goes round in circles: with what there is to do finite, it writes its
\* verdicts after at most as many deliveries as there were notices due.
THEOREM FlushComesToAnEnd == NotifySpec => [][FlushAdvances]_notifyVars
<1>1. NotifyInv /\ [NotifyNext]_notifyVars => [FlushAdvances]_notifyVars
  <2> SUFFICES ASSUME NotifyInv, NotifyNext, Flushing, flush' # flush, flush' # NoFlush
               PROVE  FlushAdvances
    BY DEF FlushAdvances
  <2>1. DeliveryEnds
    BY DEF NotifyNext, Enqueue, BackoffElapses, DeadlinePasses, Retire, NotifierDies, FlushStarts
  <2> DEFINE f(r) == [sending |-> NoNotice, todo |-> flush.todo,
                      snapshot |-> [flush.snapshot EXCEPT ![flush.sending] = r],
                      updates |-> flush.updates \cup {flush.sending}]
             alarms(r) == IF r.status = "terminal" THEN {flush.sending} ELSE {}
  <2>2. PICK r \in Outcomes(flush.sending) : Proceed(f(r), alarms(r))
    BY <2>1 DEF DeliveryEnds
  <2>3. RoundIsSound(f(r), alarms(r))
    BY NextRound DEF Flushing
  <2>4. f(r) \in FlushType
    BY <2>3 DEF RoundIsSound
  <2>5. f(r).todo = flush.todo /\ f(r).updates = flush.updates \cup {flush.sending}
    OBVIOUS
  <2> HIDE DEF f, alarms
  <2> QED
    BY <2>2, <2>4, <2>5, RoundShrinks DEF FlushAdvances
<1> QED
  BY <1>1, NotifyInvariant, PTL DEF NotifySpec
=============================================================================
