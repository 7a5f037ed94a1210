-------------------------- MODULE ManagedUpdate ---------------------------
(***************************************************************************)
(* Submitting a deployment to a provider at most once: the durable attempt *)
(* (lib/server/managed-update-attempts.js), the request                    *)
(* (managed-update-request.js) and the update and status routes that use   *)
(* them (alphaclaw-version.js).                                            *)
(*                                                                         *)
(* managedAttempt and pendingAudit are one file, replaced atomically;      *)
(* audited is the watchdog database, which dedupes by id and state.  A     *)
(* write of the file or of the database may fail at any time, the process  *)
(* may die at any time, and the provider, external, may take a request     *)
(* whose answer is never seen.                                             *)
(***************************************************************************)
EXTENDS Integers, Sequences

CONSTANTS Attempt,         \* attempt ids, each used once
          NoAttempt,
          MaxPendingAudit  \* kMaxPendingAudit

AttemptState == {"submitting", "accepted", "unknown", "rejected", "noop", "resolved"}
Blocking == {"submitting", "accepted", "unknown"}
AuditRecord == [id : Attempt, state : AttemptState]

\* kAuditSlotsPerAttempt, and what remainingAuditSlots() still reserves.
AuditSlots == 3
SlotsLeft(s) == CASE s = "submitting" -> 2 [] s \in {"accepted", "unknown"} -> 1 [] OTHER -> 0

ASSUME ManagedAssumption ==
  /\ NoAttempt \notin AuditRecord /\ NoAttempt \notin Attempt
  /\ MaxPendingAudit \in Nat /\ MaxPendingAudit >= AuditSlots

VARIABLES
  managedAttempt, \* the durable attempt
  pendingAudit,   \* transitions the audit has not acknowledged, oldest first
  audited,        \* what the audit database holds
  posting,        \* activeManagedPostId
  updating,       \* kUpdateInProgress
  recovered,      \* recoveredAttempts
  provider,       \* what became of each request at the provider
  past            \* history: the durable states each attempt went through

durableVars == <<managedAttempt, pendingAudit, audited, past>>
managedVars == <<durableVars, posting, updating, recovered, provider>>

ManagedTypeOK ==
  /\ managedAttempt \in AuditRecord \cup {NoAttempt}
  /\ pendingAudit \in Seq(AuditRecord)
  /\ audited \subseteq AuditRecord
  /\ posting \in Attempt \cup {NoAttempt}
  /\ updating \in BOOLEAN /\ recovered \in BOOLEAN
  /\ provider \in [Attempt -> {"none", "wire", "queued", "noop", "refused", "lost"}]
  /\ past \in [Attempt -> SUBSET AttemptState]

ManagedInit ==
  /\ managedAttempt = NoAttempt /\ pendingAudit = <<>> /\ audited = {}
  /\ posting = NoAttempt /\ updating = FALSE /\ recovered = TRUE
  /\ provider = [a \in Attempt |-> "none"]
  /\ past = [a \in Attempt |-> {}]

----------------------------------------------------------------------------
(* The attempt file. *)

Submitting == managedAttempt # NoAttempt /\ managedAttempt.state = "submitting"
IsBlocking == managedAttempt # NoAttempt /\ managedAttempt.state \in Blocking

\* Mutant: what the sink could not take is dropped with the rest.
FlushDropping(doc) ==
  {[pending |-> SubSeq(doc.pending, n + 1, Len(doc.pending)),
    audit |-> doc.audit \cup {doc.pending[i] : i \in 1..m}] :
     n \in 0..Len(doc.pending), m \in 0..Len(doc.pending)}

\* flushAudit(): the sink takes the first n, and the acknowledgement of them is
\* written, or is not and they are replayed.
FlushAudit(doc) ==
  LET Taken(n) == doc.audit \cup {doc.pending[i] : i \in 1..n}
  IN {[pending |-> SubSeq(doc.pending, n + 1, Len(doc.pending)), audit |-> Taken(n)] :
        n \in 0..Len(doc.pending)}
     \cup {[pending |-> doc.pending, audit |-> Taken(n)] : n \in 0..Len(doc.pending)}

Doc == [pending |-> pendingAudit, audit |-> audited]

\* An operation that only flushed the audit.
LeaveAt(doc) ==
  /\ pendingAudit' = doc.pending /\ audited' = doc.audit
  /\ UNCHANGED <<managedAttempt, past>>

\* write(): the attempt and its audit obligation in one rename, then the audit.
WriteAt(doc, a) ==
  \E after \in FlushAudit([pending |-> Append(doc.pending, a), audit |-> doc.audit]) :
    /\ managedAttempt' = a
    /\ pendingAudit' = after.pending /\ audited' = after.audit
    /\ past' = [past EXCEPT ![a.id] = @ \cup {a.state}]

\* Under the file's lock: flush, then go from the current state to s, or, when
\* the write throws, stay.
MoveTo(s) == \E doc \in FlushAudit(Doc) : WriteAt(doc, [managedAttempt EXCEPT !.state = s])
StayPut == \E doc \in FlushAudit(Doc) : LeaveAt(doc)

\* Mutant: a submission nobody waits for any more is taken for one that failed.
RecoverAsRejected == MoveTo("rejected") \/ StayPut

\* recover(), and the transition of a leftover: what was submitted is unknown.
Recover == MoveTo("unknown") \/ StayPut

\* transition(id, ["submitting"], s).
Transition(id, s) ==
  IF managedAttempt # NoAttempt /\ managedAttempt.id = id /\ managedAttempt.state = "submitting"
  THEN MoveTo(s) \/ StayPut ELSE StayPut

----------------------------------------------------------------------------
(* The routes. *)

\* Mutant: only a boot recovers a leftover.
LeftoverOfBoot == Submitting /\ ~recovered

\* A submitting attempt that no request of this process owns.
Leftover ==
  /\ Submitting
  /\ ~recovered \/ (posting = NoAttempt /\ ~updating)

\* readManagedAttempt(): by the status route, the doctor, a mutation gate.  A
\* recovery whose write failed is tried again.
StatusRead ==
  /\ IF Leftover THEN Recover ELSE StayPut
  /\ recovered' \in IF Leftover /\ managedAttempt' = managedAttempt THEN {recovered} ELSE {TRUE}
  /\ UNCHANGED <<posting, updating, provider>>

\* updateAlphaclaw() up to the metadata it awaits.  A blocking attempt refuses
\* it, which leaves what a status read leaves.
UpdateRequested ==
  /\ ~updating /\ ~IsBlocking
  /\ updating' = TRUE /\ recovered' = TRUE /\ StayPut
  /\ UNCHANGED <<posting, provider>>

MetadataFails ==
  /\ updating /\ posting = NoAttempt /\ updating' = FALSE
  /\ UNCHANGED <<durableVars, posting, recovered, provider>>

\* begin() and the POST.  It refuses without the slots an attempt may need; a
\* write that fails refuses too.
Begin(a) ==
  /\ updating /\ posting = NoAttempt /\ past[a] = {}
  /\ \E doc \in FlushAudit(Doc) :
       \/ /\ ~IsBlocking /\ Len(doc.pending) <= MaxPendingAudit - AuditSlots
          /\ WriteAt(doc, [id |-> a, state |-> "submitting"])
          /\ posting' = a /\ provider' = [provider EXCEPT ![a] = "wire"]
          /\ UNCHANGED updating
       \/ LeaveAt(doc) /\ updating' = FALSE /\ UNCHANGED <<posting, provider>>
  /\ UNCHANGED recovered

\* What the request ends as: the provider's answer, or unknown (transport
\* failure, timeout, an answer not recognized).
ResponseState(p) ==
  {"unknown"} \cup (CASE p = "queued" -> {"accepted"} [] p = "noop" -> {"noop"}
                      [] p = "refused" -> {"rejected"} [] OTHER -> {})

ResponseArrives ==
  /\ posting # NoAttempt
  /\ \E s \in ResponseState(provider[posting]) : Transition(posting, s)
  /\ posting' = NoAttempt /\ updating' = FALSE
  /\ UNCHANGED <<recovered, provider>>

\* resolveManagedUpdate(): a human checked the provider.
OperatorResolves ==
  /\ managedAttempt # NoAttempt /\ posting # managedAttempt.id
  /\ IF managedAttempt.state \in {"accepted", "unknown"} THEN MoveTo("resolved") \/ StayPut
     ELSE StayPut
  /\ UNCHANGED <<posting, updating, recovered, provider>>

\* The process dies and the next one boots; its recovery may fail.
ServerRestarts ==
  /\ posting' = NoAttempt /\ updating' = FALSE
  /\ IF Submitting THEN Recover ELSE StayPut
  /\ recovered' = (managedAttempt' = NoAttempt \/ managedAttempt'.state # "submitting")
  /\ UNCHANGED provider

\* The provider takes a request, or the request never reaches it.
ProviderTakes(a) ==
  /\ provider[a] = "wire"
  /\ \E p \in {"queued", "noop", "refused", "lost"} : provider' = [provider EXCEPT ![a] = p]
  /\ UNCHANGED <<durableVars, posting, updating, recovered>>

ManagedNext ==
  \/ StatusRead \/ UpdateRequested \/ MetadataFails \/ ResponseArrives
  \/ OperatorResolves \/ ServerRestarts
  \/ \E a \in Attempt : Begin(a) \/ ProviderTakes(a)

ManagedSpec == ManagedInit /\ [][ManagedNext]_managedVars

----------------------------------------------------------------------------
(* Properties. *)

\* The provider never holds two deployments of ours unless a human looked into
\* one of them: whatever answers were lost, writes failed or processes died.
ProviderHoldsOne ==
  \A a, b \in Attempt :
    a # b /\ {provider[a], provider[b]} \subseteq {"wire", "queued"}
      => "resolved" \in past[a] \cup past[b]

\* Every state that ever became durable is in the audit or owed to it once; the audit
\* tells of nothing else, whatever writes failed after they were announced; and what
\* is owed fits the file with what the attempt may still owe: the slots begin() reserves
\* are enough with the audit sink down, so no transition is refused after the POST.
AuditIsComplete ==
  /\ \A a \in Attempt : \A s \in past[a] :
       LET r == [id |-> a, state |-> s]
       IN r \in audited \/ \E i \in 1..Len(pendingAudit) : pendingAudit[i] = r
  /\ \A r \in audited : r.state \in past[r.id]
  /\ \A i, j \in 1..Len(pendingAudit) : pendingAudit[i] = pendingAudit[j] => i = j
  /\ managedAttempt # NoAttempt =>
       Len(pendingAudit) + SlotsLeft(managedAttempt.state) <= MaxPendingAudit

\* No attempt is left submitting: its request ends, or a later read calls it
\* unknown, so that the operator can resolve it.
SubmittingEnds ==
  Submitting ~> (managedAttempt # NoAttempt /\ managedAttempt.state # "submitting")
===========================================================================
