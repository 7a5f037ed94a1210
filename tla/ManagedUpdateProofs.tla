------------------------ MODULE ManagedUpdateProofs ------------------------
(***************************************************************************)
(* Proofs about the managed update attempts, for any number of attempts    *)
(* and any room in the audit backlog.                                      *)
(***************************************************************************)
EXTENDS ManagedUpdate, SequenceTheorems, TLAPS

\* The backlog q and the audit A are true to the states P that became durable: all of
\* them are in one or the other, which have nothing else, and q owes each of them once.
Faithful(q, A, P) ==
  /\ q \in Seq(AuditRecord) /\ A \subseteq AuditRecord
  /\ \A a \in Attempt : \A s \in P[a] :
       \/ [id |-> a, state |-> s] \in A
       \/ \E i \in 1..Len(q) : q[i] = [id |-> a, state |-> s]
  /\ \A i, j \in 1..Len(q) : q[i] = q[j] => i = j
  /\ \A i \in 1..Len(q) : q[i].state \in P[q[i].id]
  /\ \A r \in A : r.state \in P[r.id]

Histories == [Attempt -> SUBSET AttemptState]

\* flushAudit() takes records off the front, into the audit, or leaves them to be
\* replayed.
LEMMA FlushIsFaithful ==
  ASSUME NEW q, NEW A, NEW P \in Histories, Faithful(q, A, P),
         NEW doc \in FlushAudit([pending |-> q, audit |-> A])
  PROVE  /\ Faithful(doc.pending, doc.audit, P)
         /\ Len(doc.pending) \in 0..Len(q)
         /\ doc = [pending |-> doc.pending, audit |-> doc.audit]
<1> DEFINE Taken(n) == A \cup {q[i] : i \in 1..n}
<1>1. q \in Seq(AuditRecord) /\ Len(q) \in Nat
  BY DEF Faithful
<1>2. PICK n \in 0..Len(q) : \/ doc = [pending |-> SubSeq(q, n + 1, Len(q)), audit |-> Taken(n)]
                             \/ doc = [pending |-> q, audit |-> Taken(n)]
  <2> DEFINE d == [pending |-> q, audit |-> A]
  <2>1. d.pending = q /\ d.audit = A
    OBVIOUS
  <2>2. \/ \E n \in 0..Len(d.pending) :
             doc = [pending |-> SubSeq(d.pending, n + 1, Len(d.pending)),
                    audit |-> d.audit \cup {d.pending[i] : i \in 1..n}]
        \/ \E n \in 0..Len(d.pending) :
             doc = [pending |-> d.pending, audit |-> d.audit \cup {d.pending[i] : i \in 1..n}]
    BY DEF FlushAudit
  <2> HIDE DEF d
  <2> QED
    BY <2>1, <2>2
<1>3. Taken(n) \subseteq AuditRecord /\ A \subseteq Taken(n)
  BY <1>1, <1>2 DEF Faithful
<1>6. \A r \in Taken(n) : r.state \in P[r.id]
  BY <1>1, <1>2 DEF Faithful
<1>4. CASE doc = [pending |-> q, audit |-> Taken(n)]
  BY <1>1, <1>3, <1>4, <1>6 DEF Faithful
<1>5. CASE doc = [pending |-> SubSeq(q, n + 1, Len(q)), audit |-> Taken(n)]
  <2> DEFINE t == SubSeq(q, n + 1, Len(q))
  <2>1. /\ t \in Seq(AuditRecord) /\ Len(t) = Len(q) - n
        /\ \A i \in 1..Len(t) : t[i] = q[n + i]
    BY <1>1, <1>2, SubSeqProperties
  <2>2. \A i \in 1..Len(q) : q[i] \in Taken(n) \/ \E j \in 1..Len(t) : t[j] = q[i]
    <3> TAKE i \in 1..Len(q)
    <3>1. CASE i <= n
      <4>1. i \in 1..n
        BY <1>1, <1>2, <3>1
      <4> QED
        BY <4>1
    <3>2. CASE i > n
      <4>1. i - n \in 1..Len(t) /\ t[i - n] = q[i]
        BY <1>1, <1>2, <2>1, <3>2
      <4> HIDE DEF t
      <4> QED
        BY <4>1
    <3>3. i <= n \/ i > n
      BY <1>1, <1>2
    <3> QED
      BY <3>1, <3>2, <3>3
  <2>3. \A a \in Attempt : \A s \in P[a] :
          \/ [id |-> a, state |-> s] \in Taken(n)
          \/ \E i \in 1..Len(t) : t[i] = [id |-> a, state |-> s]
    <3> SUFFICES ASSUME NEW a \in Attempt, NEW s \in P[a],
                        NEW i \in 1..Len(q), q[i] = [id |-> a, state |-> s]
                 PROVE  \/ [id |-> a, state |-> s] \in Taken(n)
                        \/ \E j \in 1..Len(t) : t[j] = [id |-> a, state |-> s]
      BY <1>3 DEF Faithful
    <3> HIDE DEF t, Taken
    <3> QED
      BY <2>2
  <2>4. \A i \in 1..Len(t) : n + i \in 1..Len(q)
    BY <1>1, <1>2, <2>1
  <2>5. \A i, j \in 1..Len(t) : t[i] = t[j] => i = j
    <3> TAKE i, j \in 1..Len(t)
    <3> HAVE t[i] = t[j]
    <3>1. n + i = n + j
      BY <2>1, <2>4 DEF Faithful
    <3> QED
      BY <1>1, <1>2, <2>1, <3>1
  <2>6. \A i \in 1..Len(t) : t[i].state \in P[t[i].id]
    BY <2>1, <2>4 DEF Faithful
  <2>7. doc.pending = t /\ doc.audit = Taken(n) /\ Len(t) \in 0..Len(q)
    BY <1>1, <1>2, <1>5, <2>1
  <2> HIDE DEF t, Taken
  <2>8. Faithful(t, Taken(n), P)
    BY <1>3, <1>6, <2>1, <2>3, <2>5, <2>6 DEF Faithful
  <2> QED
    BY <1>5, <2>7, <2>8 DEF t, Taken
<1> QED
  BY <1>2, <1>4, <1>5

\* write() owes the audit a state that was not durable before.
LEMMA AppendIsFaithful ==
  ASSUME NEW q, NEW A, NEW P \in Histories, Faithful(q, A, P),
         NEW a \in AuditRecord, a.state \notin P[a.id]
  PROVE  /\ Faithful(Append(q, a), A, [P EXCEPT ![a.id] = @ \cup {a.state}])
         /\ Len(Append(q, a)) = Len(q) + 1
         /\ [P EXCEPT ![a.id] = @ \cup {a.state}] \in Histories
<1> DEFINE t == Append(q, a)
           R == [P EXCEPT ![a.id] = @ \cup {a.state}]
<1>1. q \in Seq(AuditRecord) /\ Len(q) \in Nat /\ a.id \in Attempt /\ a.state \in AttemptState
  BY DEF Faithful, AuditRecord
<1>2. /\ t \in Seq(AuditRecord) /\ Len(t) = Len(q) + 1 /\ t[Len(q) + 1] = a
      /\ \A i \in 1..Len(q) : t[i] = q[i]
  BY <1>1, AppendProperties
<1>3. /\ R \in Histories /\ R[a.id] = P[a.id] \cup {a.state}
      /\ \A b \in Attempt \ {a.id} : R[b] = P[b]
  BY <1>1 DEF Histories
<1>4. a = [id |-> a.id, state |-> a.state]
  BY DEF AuditRecord
<1> HIDE DEF t, R
<1>5. \A b \in Attempt : \A s \in R[b] :
        [id |-> b, state |-> s] \in A \/ \E i \in 1..Len(t) : t[i] = [id |-> b, state |-> s]
  <2> SUFFICES ASSUME NEW b \in Attempt, NEW s \in R[b], [id |-> b, state |-> s] \notin A
               PROVE  \E i \in 1..Len(t) : t[i] = [id |-> b, state |-> s]
    OBVIOUS
  <2>1. CASE b = a.id /\ s = a.state
    <3>1. Len(q) + 1 \in 1..Len(t)
      BY <1>1, <1>2
    <3> QED
      BY <1>2, <1>4, <2>1, <3>1
  <2>2. CASE ~(b = a.id /\ s = a.state)
    <3>1. s \in P[b]
      BY <1>3, <2>2
    <3>2. PICK i \in 1..Len(q) : q[i] = [id |-> b, state |-> s]
      BY <3>1 DEF Faithful
    <3>3. i \in 1..Len(t) /\ t[i] = q[i]
      BY <1>1, <1>2
    <3> QED
      BY <3>2, <3>3
  <2> QED
    BY <2>1, <2>2
<1>6. \A i \in 1..Len(q) : q[i] # a
  BY DEF Faithful
<1>7. \A i \in 1..Len(t) : i \in 1..Len(q) \/ i = Len(q) + 1
  BY <1>1, <1>2
<1>8. \A i, j \in 1..Len(t) : t[i] = t[j] => i = j
  BY <1>2, <1>6, <1>7 DEF Faithful
<1>9. \A i \in 1..Len(t) : t[i].state \in R[t[i].id]
  <2> SUFFICES ASSUME NEW i \in 1..Len(t) PROVE t[i].state \in R[t[i].id]
    OBVIOUS
  <2>1. CASE i = Len(q) + 1
    BY <1>2, <1>3, <2>1
  <2>2. CASE i \in 1..Len(q)
    <3>1. q[i] \in AuditRecord /\ t[i] = q[i]
      BY <1>1, <1>2, <2>2
    <3>2. q[i].id \in Attempt
      BY <3>1 DEF AuditRecord
    <3>3. q[i].state \in P[q[i].id]
      BY <2>2 DEF Faithful
    <3> QED
      BY <1>3, <3>1, <3>2, <3>3
  <2> QED
    BY <1>7, <2>1, <2>2
<1>11. \A r \in A : r.state \in R[r.id]
  <2> SUFFICES ASSUME NEW r \in A PROVE r.state \in R[r.id]
    OBVIOUS
  <2>1. r \in AuditRecord /\ r.state \in P[r.id]
    BY DEF Faithful
  <2>2. r.id \in Attempt
    BY <2>1 DEF AuditRecord
  <2> QED
    BY <1>3, <2>1, <2>2
<1>10. Faithful(t, A, R)
  BY <1>1, <1>2, <1>5, <1>8, <1>9, <1>11 DEF Faithful
<1> QED
  BY <1>2, <1>3, <1>10 DEF t, R

----------------------------------------------------------------------------
(* The attempt file. *)

DurableTypes == managedAttempt \in AuditRecord \cup {NoAttempt} /\ past \in Histories

\* An attempt is submitted, answered and resolved at most once each.
AttemptAdvances ==
  managedAttempt # NoAttempt =>
    /\ managedAttempt.state \in past[managedAttempt.id]
    /\ managedAttempt.state = "submitting" => past[managedAttempt.id] = {"submitting"}
    /\ managedAttempt.state \in {"accepted", "unknown"} => "resolved" \notin past[managedAttempt.id]

\* The backlog has room for what the attempt may still owe.
BacklogHasRoom ==
  managedAttempt # NoAttempt =>
    Len(pendingAudit) + SlotsLeft(managedAttempt.state) <= MaxPendingAudit

DurableInv ==
  /\ DurableTypes /\ Faithful(pendingAudit, audited, past) /\ AttemptAdvances /\ BacklogHasRoom

\* A write moves the attempt and what is owed together, and flushes what it can.
LEMMA WriteEffect ==
  ASSUME past \in Histories, Faithful(pendingAudit, audited, past), NEW doc \in FlushAudit(Doc),
         NEW a \in AuditRecord, a.state \notin past[a.id], WriteAt(doc, a)
  PROVE  /\ managedAttempt' = a /\ past' = [past EXCEPT ![a.id] = @ \cup {a.state}]
         /\ past' \in Histories /\ Faithful(pendingAudit', audited', past')
         /\ Len(doc.pending) \in 0..Len(pendingAudit)
         /\ Len(pendingAudit') \in 0..(Len(doc.pending) + 1)
<1>1. /\ Faithful(doc.pending, doc.audit, past) /\ Len(doc.pending) \in 0..Len(pendingAudit)
  BY FlushIsFaithful DEF Doc
<1>2. PICK after \in FlushAudit([pending |-> Append(doc.pending, a), audit |-> doc.audit]) :
        /\ managedAttempt' = a /\ pendingAudit' = after.pending /\ audited' = after.audit
        /\ past' = [past EXCEPT ![a.id] = @ \cup {a.state}]
  BY DEF WriteAt
<1>3. /\ Faithful(Append(doc.pending, a), doc.audit, past') /\ past' \in Histories
      /\ Len(Append(doc.pending, a)) = Len(doc.pending) + 1
  BY <1>1, <1>2, AppendIsFaithful
<1>4. Faithful(after.pending, after.audit, past') /\ Len(after.pending) \in 0..(Len(doc.pending) + 1)
  BY <1>2, <1>3, FlushIsFaithful
<1> QED
  BY <1>1, <1>2, <1>3, <1>4

\* What only flushes owes no more than before.
LEMMA StayKeeps ==
  ASSUME DurableInv, NEW doc \in FlushAudit(Doc), LeaveAt(doc)
  PROVE  DurableInv' /\ UNCHANGED <<managedAttempt, past>>
<1>1. Faithful(doc.pending, doc.audit, past) /\ Len(doc.pending) \in 0..Len(pendingAudit)
  BY FlushIsFaithful DEF Doc, DurableInv, DurableTypes
<1>2. pendingAudit' = doc.pending /\ audited' = doc.audit /\ UNCHANGED <<managedAttempt, past>>
  BY DEF LeaveAt
<1>3. DurableTypes' /\ AttemptAdvances' /\ Faithful(pendingAudit', audited', past')
  BY <1>1, <1>2 DEF DurableInv, DurableTypes, AttemptAdvances
<1>4. BacklogHasRoom'
  <2>1. Len(pendingAudit) \in Nat /\ \A s : SlotsLeft(s) \in 0..2
    BY DEF DurableInv, Faithful, SlotsLeft
  <2> QED
    BY <1>1, <1>2, <2>1, ManagedAssumption DEF DurableInv, BacklogHasRoom
<1> QED
  BY <1>2, <1>3, <1>4 DEF DurableInv

\* An attempt that goes on, to a state with fewer slots, keeps within the backlog.
LEMMA MoveKeeps ==
  ASSUME DurableInv, managedAttempt # NoAttempt, NEW s \in AttemptState, MoveTo(s),
         s \notin past[managedAttempt.id], s # "submitting",
         SlotsLeft(s) < SlotsLeft(managedAttempt.state)
  PROVE  /\ DurableInv' /\ managedAttempt' = [managedAttempt EXCEPT !.state = s]
         /\ managedAttempt' # NoAttempt /\ managedAttempt'.id = managedAttempt.id
         /\ managedAttempt'.state = s /\ s \in past'[managedAttempt.id]
         /\ \A b \in Attempt : past[b] \subseteq past'[b]
<1> DEFINE a == [managedAttempt EXCEPT !.state = s]
<1>1. /\ managedAttempt \in AuditRecord /\ managedAttempt.id \in Attempt
      /\ a \in AuditRecord /\ a.id = managedAttempt.id /\ a.state = s
  BY DEF DurableInv, DurableTypes, AuditRecord
<1>2. PICK doc \in FlushAudit(Doc) : WriteAt(doc, a)
  BY DEF MoveTo
<1> HIDE DEF a
<1>3. /\ managedAttempt' = a /\ past' = [past EXCEPT ![a.id] = @ \cup {a.state}]
      /\ past' \in Histories /\ Faithful(pendingAudit', audited', past')
      /\ Len(doc.pending) \in 0..Len(pendingAudit)
      /\ Len(pendingAudit') \in 0..(Len(doc.pending) + 1)
  BY <1>1, <1>2, WriteEffect DEF DurableInv, DurableTypes
<1>4. /\ past'[managedAttempt.id] = past[managedAttempt.id] \cup {s}
      /\ \A b \in Attempt : past[b] \subseteq past'[b]
  BY <1>1, <1>3 DEF DurableInv, DurableTypes, Histories
<1>5. Len(pendingAudit) \in Nat /\ \A x : SlotsLeft(x) \in 0..2
  BY DEF DurableInv, Faithful, SlotsLeft
<1>6. s \in {"accepted", "unknown"} => managedAttempt.state = "submitting"
  BY DEF SlotsLeft
<1>7. AttemptAdvances'
  BY <1>1, <1>3, <1>4, <1>6 DEF AttemptAdvances, DurableInv
<1>8. BacklogHasRoom'
  BY <1>1, <1>3, <1>5, ManagedAssumption DEF BacklogHasRoom, DurableInv
<1>9. a # NoAttempt
  BY <1>1, ManagedAssumption
<1> QED
  BY <1>1, <1>3, <1>4, <1>7, <1>8, <1>9 DEF DurableInv, DurableTypes, a

----------------------------------------------------------------------------
(* The attempts and the provider. *)

RequestTypes ==
  /\ posting \in Attempt \cup {NoAttempt} /\ updating \in BOOLEAN /\ recovered \in BOOLEAN
  /\ provider \in [Attempt -> {"none", "wire", "queued", "noop", "refused", "lost"}]

\* What the provider may deploy is what blocks another submission, or was resolved.
HeldBlocksOrIsResolved ==
  \A a \in Attempt :
    provider[a] \in {"wire", "queued"} =>
      \/ "resolved" \in past[a]
      \/ IsBlocking /\ managedAttempt.id = a

\* What ProviderHoldsOne and AuditIsComplete rest on.
ManagedInv == RequestTypes /\ DurableInv /\ HeldBlocksOrIsResolved

\* An attempt that goes on leaves the provider's deployment blocked, unless it was
\* resolved or the provider said that there is none.
LEMMA MoveHolds ==
  ASSUME ManagedInv, managedAttempt # NoAttempt, NEW s \in AttemptState, MoveTo(s),
         s \notin past[managedAttempt.id], s # "submitting",
         SlotsLeft(s) < SlotsLeft(managedAttempt.state), UNCHANGED provider,
         s \in {"noop", "rejected"} => provider[managedAttempt.id] \notin {"wire", "queued"}
  PROVE  DurableInv' /\ HeldBlocksOrIsResolved'
<1>1. /\ DurableInv' /\ managedAttempt' # NoAttempt /\ managedAttempt'.id = managedAttempt.id
      /\ managedAttempt'.state = s /\ s \in past'[managedAttempt.id]
      /\ \A b \in Attempt : past[b] \subseteq past'[b]
  BY MoveKeeps DEF ManagedInv
<1>2. s \in Blocking \/ s \in {"noop", "rejected", "resolved"}
  BY DEF AttemptState, Blocking
<1>3. HeldBlocksOrIsResolved'
  BY <1>1, <1>2 DEF HeldBlocksOrIsResolved, IsBlocking, ManagedInv
<1> QED
  BY <1>1, <1>3

LEMMA StayHolds ==
  ASSUME ManagedInv, StayPut, UNCHANGED provider
  PROVE  DurableInv' /\ HeldBlocksOrIsResolved'
<1>1. DurableInv' /\ UNCHANGED <<managedAttempt, past>>
  BY StayKeeps DEF StayPut, ManagedInv
<1> QED
  BY <1>1 DEF HeldBlocksOrIsResolved, IsBlocking, ManagedInv

\* recover() finds an attempt submitting, and calls it unknown.
LEMMA RecoverHolds ==
  ASSUME ManagedInv, Submitting, Recover, UNCHANGED provider
  PROVE  DurableInv' /\ HeldBlocksOrIsResolved'
<1>1. /\ managedAttempt # NoAttempt /\ managedAttempt.state = "submitting"
      /\ past[managedAttempt.id] = {"submitting"} /\ "unknown" \in AttemptState
  BY DEF Submitting, ManagedInv, DurableInv, AttemptAdvances, AttemptState
<1>2. SlotsLeft("unknown") = 1 /\ SlotsLeft("submitting") = 2
  BY DEF SlotsLeft
<1>3. CASE MoveTo("unknown")
  BY <1>1, <1>2, <1>3, MoveHolds
<1>4. CASE StayPut
  BY <1>4, StayHolds
<1> QED
  BY <1>3, <1>4 DEF Recover

LEMMA StatusReadKeeps == ASSUME ManagedInv, StatusRead PROVE ManagedInv'
<1>1. UNCHANGED <<posting, updating, provider>> /\ recovered' \in BOOLEAN
  BY DEF StatusRead, ManagedInv, RequestTypes
<1>2. DurableInv' /\ HeldBlocksOrIsResolved'
  BY <1>1, RecoverHolds, StayHolds DEF StatusRead, Leftover
<1> QED
  BY <1>1, <1>2 DEF ManagedInv, RequestTypes

LEMMA ServerRestartsKeeps == ASSUME ManagedInv, ServerRestarts PROVE ManagedInv'
<1>1. UNCHANGED provider /\ posting' = NoAttempt /\ updating' = FALSE /\ recovered' \in BOOLEAN
  BY DEF ServerRestarts
<1>2. DurableInv' /\ HeldBlocksOrIsResolved'
  BY <1>1, RecoverHolds, StayHolds DEF ServerRestarts
<1> QED
  BY <1>1, <1>2 DEF ManagedInv, RequestTypes

\* The answer moves the attempt it belongs to, if that still is submitting.
LEMMA ResponseArrivesKeeps == ASSUME ManagedInv, ResponseArrives PROVE ManagedInv'
<1>1. /\ UNCHANGED <<recovered, provider>> /\ posting \in Attempt
      /\ posting' = NoAttempt /\ updating' = FALSE
  BY DEF ResponseArrives, ManagedInv, RequestTypes
<1>2. PICK s \in ResponseState(provider[posting]) : Transition(posting, s)
  BY DEF ResponseArrives
<1>3. DurableInv' /\ HeldBlocksOrIsResolved'
  <2>1. CASE StayPut
    BY <1>1, <2>1, StayHolds
  <2>2. CASE /\ managedAttempt # NoAttempt /\ managedAttempt.id = posting
             /\ managedAttempt.state = "submitting" /\ MoveTo(s)
    <3>1. /\ s \in AttemptState /\ s \in {"unknown", "accepted", "noop", "rejected"}
          /\ s \in {"noop", "rejected"} => provider[posting] \notin {"wire", "queued"}
      BY <1>2 DEF ResponseState, AttemptState
    <3>2. SlotsLeft(s) < SlotsLeft(managedAttempt.state)
      BY <2>2, <3>1 DEF SlotsLeft
    <3>3. past[managedAttempt.id] = {"submitting"}
      BY <2>2 DEF ManagedInv, DurableInv, AttemptAdvances
    <3> QED
      BY <1>1, <2>2, <3>1, <3>2, <3>3, MoveHolds
  <2> QED
    BY <1>2, <2>1, <2>2 DEF Transition
<1> QED
  BY <1>1, <1>3 DEF ManagedInv, RequestTypes

LEMMA OperatorResolvesKeeps == ASSUME ManagedInv, OperatorResolves PROVE ManagedInv'
<1>1. UNCHANGED <<posting, updating, recovered, provider>> /\ managedAttempt # NoAttempt
  BY DEF OperatorResolves
<1>2. DurableInv' /\ HeldBlocksOrIsResolved'
  <2>1. CASE StayPut
    BY <1>1, <2>1, StayHolds
  <2>2. CASE managedAttempt.state \in {"accepted", "unknown"} /\ MoveTo("resolved")
    <3>1. "resolved" \notin past[managedAttempt.id] /\ "resolved" \in AttemptState
      BY <1>1, <2>2 DEF ManagedInv, DurableInv, AttemptAdvances, AttemptState
    <3>2. SlotsLeft("resolved") < SlotsLeft(managedAttempt.state)
      BY <2>2 DEF SlotsLeft
    <3> QED
      BY <1>1, <2>2, <3>1, <3>2, MoveHolds
  <2> QED
    BY <2>1, <2>2 DEF OperatorResolves
<1> QED
  BY <1>1, <1>2 DEF ManagedInv, RequestTypes

\* begin() finds nothing that blocks, and room for three records.
LEMMA BeginKeeps == ASSUME ManagedInv, NEW a \in Attempt, Begin(a) PROVE ManagedInv'
<1>1. PICK doc \in FlushAudit(Doc) :
        \/ /\ ~IsBlocking /\ Len(doc.pending) <= MaxPendingAudit - AuditSlots
           /\ WriteAt(doc, [id |-> a, state |-> "submitting"])
           /\ posting' = a /\ provider' = [provider EXCEPT ![a] = "wire"]
           /\ UNCHANGED updating
        \/ LeaveAt(doc) /\ updating' = FALSE /\ UNCHANGED <<posting, provider>>
  BY DEF Begin
<1>2. UNCHANGED recovered /\ past[a] = {}
  BY DEF Begin
<1>3. CASE LeaveAt(doc) /\ updating' = FALSE /\ UNCHANGED <<posting, provider>>
  <2>1. DurableInv' /\ HeldBlocksOrIsResolved'
    BY <1>3, StayHolds DEF StayPut
  <2> QED
    BY <1>2, <1>3, <2>1 DEF ManagedInv, RequestTypes
<1>4. CASE /\ ~IsBlocking /\ Len(doc.pending) <= MaxPendingAudit - AuditSlots
           /\ WriteAt(doc, [id |-> a, state |-> "submitting"])
           /\ posting' = a /\ provider' = [provider EXCEPT ![a] = "wire"]
           /\ UNCHANGED updating
  <2> DEFINE new == [id |-> a, state |-> "submitting"]
  <2>1. new \in AuditRecord /\ new.id = a /\ new.state = "submitting" /\ new # NoAttempt
    BY ManagedAssumption DEF AuditRecord, AttemptState
  <2>2. WriteAt(doc, new)
    BY <1>4
  <2> HIDE DEF new
  <2>3. /\ managedAttempt' = new /\ past' = [past EXCEPT ![a] = @ \cup {"submitting"}]
        /\ past' \in Histories /\ Faithful(pendingAudit', audited', past')
        /\ Len(doc.pending) \in Nat
        /\ Len(pendingAudit') \in 0..(Len(doc.pending) + 1)
    BY <1>2, <2>1, <2>2, WriteEffect DEF ManagedInv, DurableInv, DurableTypes
  <2>4. past'[a] = {"submitting"} /\ \A b \in Attempt \ {a} : past'[b] = past[b]
    BY <1>2, <2>3 DEF ManagedInv, DurableInv, DurableTypes, Histories
  <2>5. BacklogHasRoom'
    BY <1>4, <2>1, <2>3, ManagedAssumption DEF BacklogHasRoom, SlotsLeft, AuditSlots
  <2>6. DurableInv'
    BY <2>1, <2>3, <2>4, <2>5 DEF DurableInv, DurableTypes, AttemptAdvances
  <2>7. HeldBlocksOrIsResolved'
    <3>1. IsBlocking' /\ managedAttempt'.id = a
      BY <2>1, <2>3 DEF IsBlocking, Blocking
    <3>2. \A b \in Attempt \ {a} : provider'[b] = provider[b]
      BY <1>4 DEF ManagedInv, RequestTypes
    <3> QED
      BY <1>4, <2>4, <3>1, <3>2 DEF HeldBlocksOrIsResolved, ManagedInv
  <2> QED
    BY <1>2, <1>4, <2>6, <2>7 DEF ManagedInv, RequestTypes
<1> QED
  BY <1>1, <1>3, <1>4

\* The provider decides only on what is on its way.
LEMMA ProviderTakesKeeps == ASSUME ManagedInv, NEW a \in Attempt, ProviderTakes(a) PROVE ManagedInv'
<1>1. PICK p \in {"queued", "noop", "refused", "lost"} : provider' = [provider EXCEPT ![a] = p]
  BY DEF ProviderTakes
<1>2. /\ provider[a] = "wire" /\ UNCHANGED <<posting, updating, recovered>>
      /\ UNCHANGED <<managedAttempt, pendingAudit, audited, past>>
  BY DEF ProviderTakes, durableVars
<1>3. \A b \in Attempt \ {a} : provider'[b] = provider[b]
  BY <1>1 DEF ManagedInv, RequestTypes
<1>4. HeldBlocksOrIsResolved'
  BY <1>2, <1>3 DEF ManagedInv, HeldBlocksOrIsResolved, IsBlocking
<1>5. DurableInv' /\ RequestTypes'
  BY <1>1, <1>2 DEF ManagedInv, DurableInv, DurableTypes, AttemptAdvances, BacklogHasRoom,
                    RequestTypes
<1> QED
  BY <1>4, <1>5 DEF ManagedInv

\* No attempt was made at first.
LEMMA InitManagedInv == ManagedInit => ManagedInv
<1> SUFFICES ASSUME ManagedInit PROVE ManagedInv
  OBVIOUS
<1> USE DEF ManagedInit
<1>1. Faithful(pendingAudit, audited, past)
  <2>1. <<>> \in Seq(AuditRecord) /\ Len(<<>>) = 0
    OBVIOUS
  <2> QED
    BY <2>1 DEF Faithful
<1>2. DurableInv
  BY <1>1 DEF DurableInv, DurableTypes, AttemptAdvances, BacklogHasRoom, Histories
<1>3. RequestTypes /\ HeldBlocksOrIsResolved
  BY DEF RequestTypes, HeldBlocksOrIsResolved
<1> QED
  BY <1>2, <1>3 DEF ManagedInv

\* Every action keeps it.
LEMMA StepManagedInv == ManagedInv /\ [ManagedNext]_managedVars => ManagedInv'
<1> SUFFICES ASSUME ManagedInv, [ManagedNext]_managedVars PROVE ManagedInv'
  OBVIOUS
<1>1. CASE UNCHANGED managedVars
  BY <1>1 DEF managedVars, durableVars, ManagedInv, DurableInv, DurableTypes, AttemptAdvances,
              BacklogHasRoom, RequestTypes, HeldBlocksOrIsResolved, IsBlocking
<1>2. CASE UpdateRequested
  <2>1. DurableInv' /\ HeldBlocksOrIsResolved'
    BY <1>2, StayHolds DEF UpdateRequested
  <2> QED
    BY <1>2, <2>1 DEF UpdateRequested, ManagedInv, RequestTypes
<1>3. CASE MetadataFails
  BY <1>3 DEF MetadataFails, durableVars, ManagedInv, DurableInv, DurableTypes, AttemptAdvances,
              BacklogHasRoom, RequestTypes, HeldBlocksOrIsResolved, IsBlocking
<1> QED
  BY <1>1, <1>2, <1>3, StatusReadKeeps, ResponseArrivesKeeps, OperatorResolvesKeeps,
     ServerRestartsKeeps, BeginKeeps, ProviderTakesKeeps DEF ManagedNext

\* The strengthened invariant of the attempts holds throughout.
THEOREM ManagedInvariant == ManagedSpec => []ManagedInv
<1>1. ManagedInit => ManagedInv
  BY InitManagedInv
<1>2. ManagedInv /\ [ManagedNext]_managedVars => ManagedInv'
  BY StepManagedInv
<1> QED
  BY <1>1, <1>2, PTL DEF ManagedSpec

\* The provider never holds two deployments of which a human looked into neither, whatever
\* answers were lost, writes failed or processes died.
THEOREM ProviderHoldsOneDeployment == ManagedSpec => []ProviderHoldsOne
<1>1. ManagedInv => ProviderHoldsOne
  <2> SUFFICES ASSUME ManagedInv, NEW a \in Attempt, NEW b \in Attempt, a # b,
                      {provider[a], provider[b]} \subseteq {"wire", "queued"}
               PROVE  "resolved" \in past[a] \cup past[b]
    BY DEF ProviderHoldsOne
  <2> QED
    BY DEF ManagedInv, HeldBlocksOrIsResolved
<1> QED
  BY <1>1, ManagedInvariant, PTL

\* Every durable state is in the audit or owed to it once, and what is owed, with what the
\* attempt may still owe, fits the file: no transition is refused after the POST.
THEOREM AuditOwesEverything == ManagedSpec => []AuditIsComplete
<1>1. ManagedInv => AuditIsComplete
  BY DEF ManagedInv, DurableInv, Faithful, BacklogHasRoom, AuditIsComplete
<1> QED
  BY <1>1, ManagedInvariant, PTL

\* Somebody owns an attempt that is submitting: the request that waits for its answer, or
\* it is a leftover that the next read calls unknown.
SubmittingIsOwned == Submitting => posting = managedAttempt.id \/ Leftover

\* A request waits for an answer only on behalf of an update.
PostingIsUpdating == posting # NoAttempt => updating

\* A leftover appears when its request ends or its process dies, and never while another
\* update holds the attempt: update waits until nothing blocks.
LEMMA StepOwned ==
  ManagedInv /\ SubmittingIsOwned /\ PostingIsUpdating /\ [ManagedNext]_managedVars
    => SubmittingIsOwned' /\ PostingIsUpdating'
<1> SUFFICES ASSUME ManagedInv, SubmittingIsOwned, PostingIsUpdating, [ManagedNext]_managedVars
             PROVE  SubmittingIsOwned' /\ PostingIsUpdating'
  OBVIOUS
<1> USE DEF SubmittingIsOwned, PostingIsUpdating, Submitting, Leftover
<1>1. ASSUME NEW s \in AttemptState, s # "submitting", Submitting, MoveTo(s) PROVE ~Submitting'
  <2>1. managedAttempt' = [managedAttempt EXCEPT !.state = s] /\ managedAttempt \in AuditRecord
    BY <1>1 DEF MoveTo, WriteAt, ManagedInv, DurableInv, DurableTypes
  <2> QED
    BY <1>1, <2>1 DEF AuditRecord
<1>2. StayPut => managedAttempt' = managedAttempt
  BY DEF StayPut, LeaveAt
<1>3. Submitting /\ Recover => managedAttempt' = managedAttempt \/ ~Submitting'
  BY <1>1, <1>2 DEF Recover, AttemptState
<1>4. managedAttempt \in AuditRecord \cup {NoAttempt}
  BY DEF ManagedInv, DurableInv, DurableTypes
<1>5. Submitting => managedAttempt.id # NoAttempt
  BY <1>4, ManagedAssumption DEF AuditRecord
<1>6. CASE StatusRead
  BY <1>2, <1>3, <1>6 DEF StatusRead, Recover
<1>7. CASE UpdateRequested \/ MetadataFails
  BY <1>2, <1>5, <1>7 DEF UpdateRequested, MetadataFails, durableVars, IsBlocking, Blocking
<1>8. CASE ResponseArrives
  <2>1. /\ posting' = NoAttempt /\ updating' = FALSE
    BY <1>8 DEF ResponseArrives
  <2> QED
    BY <2>1
<1>9. CASE ServerRestarts
  BY <1>9 DEF ServerRestarts
<1>10. CASE OperatorResolves
  <2>1. UNCHANGED <<posting, updating, recovered>> /\ managedAttempt # NoAttempt
    BY <1>10 DEF OperatorResolves
  <2>2. CASE StayPut
    BY <1>2, <2>1, <2>2
  <2>3. CASE MoveTo("resolved")
    <3>1. managedAttempt' = [managedAttempt EXCEPT !.state = "resolved"]
      BY <2>3 DEF MoveTo, WriteAt
    <3>2. managedAttempt'.state = "resolved"
      BY <1>4, <2>1, <3>1 DEF AuditRecord
    <3> QED
      BY <2>1, <3>2
  <2> QED
    BY <1>10, <2>2, <2>3 DEF OperatorResolves
<1>11. ASSUME NEW a \in Attempt, Begin(a) PROVE SubmittingIsOwned' /\ PostingIsUpdating'
  <2>1. updating /\ posting = NoAttempt /\ UNCHANGED recovered
    BY <1>11 DEF Begin
  <2>2. \/ managedAttempt' = [id |-> a, state |-> "submitting"] /\ posting' = a /\ updating' = updating
        \/ managedAttempt' = managedAttempt /\ updating' = FALSE /\ posting' = posting
    BY <1>11 DEF Begin, WriteAt, LeaveAt
  <2>3. CASE managedAttempt' = [id |-> a, state |-> "submitting"] /\ posting' = a /\ updating' = updating
    <3>1. managedAttempt'.id = a
      BY <2>3
    <3> QED
      BY <2>1, <2>3, <3>1
  <2>4. CASE managedAttempt' = managedAttempt /\ updating' = FALSE /\ posting' = posting
    BY <2>1, <2>4
  <2> QED
    BY <2>2, <2>3, <2>4
<1>12. ASSUME NEW a \in Attempt, ProviderTakes(a) PROVE SubmittingIsOwned' /\ PostingIsUpdating'
  BY <1>12 DEF ProviderTakes, durableVars
<1>13. CASE UNCHANGED managedVars
  BY <1>13 DEF managedVars, durableVars
<1> QED
  BY <1>6, <1>7, <1>8, <1>9, <1>10, <1>11, <1>12, <1>13 DEF ManagedNext

\* No attempt is submitting with nobody to end it: either a request of this process waits
\* for its answer, or the next read recovers it, so that the operator can resolve it.
THEOREM NoAttemptIsStranded == ManagedSpec => []SubmittingIsOwned
<1>1. ManagedInit => SubmittingIsOwned /\ PostingIsUpdating
  BY DEF ManagedInit, SubmittingIsOwned, PostingIsUpdating, Submitting
<1>2. ManagedInv /\ SubmittingIsOwned /\ PostingIsUpdating /\ [ManagedNext]_managedVars
        => SubmittingIsOwned' /\ PostingIsUpdating'
  BY StepOwned
<1> QED
  BY <1>1, <1>2, ManagedInvariant, PTL DEF ManagedSpec

\* Every variable of the attempts keeps its type.
THEOREM ManagedTypes == ManagedSpec => []ManagedTypeOK
<1>1. ManagedInv => ManagedTypeOK
  BY DEF ManagedInv, RequestTypes, DurableInv, DurableTypes, Faithful, Histories, ManagedTypeOK
<1> QED
  BY <1>1, ManagedInvariant, PTL
=============================================================================
