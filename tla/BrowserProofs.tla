---------------------------- MODULE BrowserProofs ----------------------------
(***************************************************************************)
(* Proofs about the browser: its API cache, for any number of requests and *)
(* of versions of the server's data, and the chat outbox, for any number of *)
(* messages whatever their texts.                                          *)
(***************************************************************************)
EXTENDS ApiCache, ChatOutbox, TLAPS

\* What a write or a reader made due, the server has.
DueIsServed == required <= serverVersion /\ \A r \in Fetch : joined[r] <= serverVersion

\* An answer of the current generation was read after the last write or forced read.
CurrentIsNotOlder ==
  \A r \in Fetch :
    currentFetch = r /\ calls[r].step \in {"answered", "settled"} /\ calls[r].saw # NoData
      => calls[r].saw >= required

\* What CallerSeesWrites and the promise rest on.
ApiCacheInv ==
  /\ ApiCacheTypeOK /\ DueIsServed /\ CurrentIsNotOlder /\ CallerSeesWrites

\* What the cache keeps, the server had, and the answer that may replace it was read
\* no earlier: a request becomes the current one after what it may replace was kept.
Monotone ==
  /\ cached <= serverVersion
  /\ \A r \in Fetch :
       currentFetch = r /\ calls[r].step \in {"answered", "settled"} /\ calls[r].saw # NoData
         => calls[r].saw >= cached /\ calls[r].saw <= serverVersion

\* Nothing was asked for at first.
LEMMA InitApiCacheInv == ApiCacheInit => ApiCacheInv
<1> SUFFICES ASSUME ApiCacheInit PROVE ApiCacheInv
  OBVIOUS
<1> USE ApiCacheAssumption DEF ApiCacheInit
<1>1. calls \in [Fetch -> [step : {"free"}, saw : {NoData}]] /\ joined \in [Fetch -> {0}]
  BY DEF FreeCall
<1>2. ApiCacheTypeOK
  <2>1. calls \in [Fetch -> [step : {"free", "sent", "answered", "settled"},
                            saw : {NoData} \cup 0..MaxVersion]]
    BY DEF FreeCall
  <2>2. 0 \in 0..MaxVersion /\ joined \in [Fetch -> 0..MaxVersion]
    OBVIOUS
  <2> QED
    BY <2>1, <2>2 DEF ApiCacheTypeOK
<1>3. DueIsServed /\ CurrentIsNotOlder /\ CallerSeesWrites
  BY <1>1 DEF DueIsServed, CurrentIsNotOlder, CallerSeesWrites
<1> QED
  BY <1>2, <1>3 DEF ApiCacheInv

\* A request of a new generation has read nothing yet, whoever waits for it.
LEMMA DispatchKeeps ==
  ASSUME ApiCacheInv, NEW r \in Fetch, Dispatch(r), NEW v \in 0..serverVersion,
         joined' = [joined EXCEPT ![r] = v], required' \in {required, serverVersion},
         UNCHANGED <<serverVersion, cached, error>>
  PROVE  ApiCacheInv'
<1> USE ApiCacheAssumption DEF ApiCacheInv, Dispatch
<1>1. /\ calls[r].step = "free" /\ calls'[r].step = "sent"
      /\ \A x \in Fetch \ {r} : calls'[x] = calls[x] /\ joined'[x] = joined[x]
      /\ joined'[r] = v
  BY DEF FreeCall, ApiCacheTypeOK
<1>2. ApiCacheTypeOK'
  BY DEF ApiCacheTypeOK, FreeCall
<1>3. DueIsServed' /\ CurrentIsNotOlder' /\ CallerSeesWrites'
  BY <1>1 DEF DueIsServed, CurrentIsNotOlder, CallerSeesWrites, ApiCacheTypeOK
<1> QED
  BY <1>2, <1>3

\* A read shares the request of the current generation, or asks anew.
LEMMA ReadKeeps == ASSUME ApiCacheInv, ReadCached \/ ReadForced PROVE ApiCacheInv'
<1> USE ApiCacheAssumption DEF ApiCacheInv
<1>1. serverVersion \in 0..serverVersion /\ required \in 0..serverVersion
  BY DEF ApiCacheTypeOK, DueIsServed
<1>2. CASE ReadForced
  BY <1>1, <1>2, DispatchKeeps DEF ReadForced
<1>3. CASE ReadCached /\ ~Reusable
  BY <1>1, <1>3, DispatchKeeps DEF ReadCached
<1>4. CASE ReadCached /\ Reusable
  <2>1. /\ UNCHANGED <<calls, inFlightFetch, currentFetch, serverVersion, cached, error,
                       required>>
        /\ inFlightFetch \in Fetch /\ inFlightFetch = currentFetch
        /\ joined' = joined \/ joined' = [joined EXCEPT ![inFlightFetch] = required]
    BY <1>4 DEF ReadCached, Reusable, ApiCacheTypeOK
  <2>2. /\ joined' \in [Fetch -> 0..MaxVersion]
        /\ \A x \in Fetch : joined'[x] = joined[x] \/ (x = currentFetch /\ joined'[x] = required)
    BY <2>1 DEF ApiCacheTypeOK
  <2>3. ApiCacheTypeOK' /\ DueIsServed' /\ CurrentIsNotOlder'
    BY <2>1, <2>2 DEF ApiCacheTypeOK, DueIsServed, CurrentIsNotOlder
  <2>4. CallerSeesWrites'
    BY <2>1, <2>2 DEF CurrentIsNotOlder, CallerSeesWrites
  <2> QED
    BY <2>3, <2>4
<1> QED
  BY <1>2, <1>3, <1>4

\* Writes, denials and the server's own changes supersede what is under way,
\* or leave it and the entry alone.
LEMMA WriteKeeps ==
  ASSUME ApiCacheInv, Invalidate \/ SetCached \/ Deny \/ ServerChanges
  PROVE  ApiCacheInv'
<1> USE ApiCacheAssumption DEF ApiCacheInv
<1>1. calls' = calls /\ joined' = joined /\ serverVersion' >= serverVersion
      /\ serverVersion' \in 0..MaxVersion
  BY DEF Invalidate, SetCached, WriteCache, Deny, ServerChanges, ApiCacheTypeOK
<1>2. ApiCacheTypeOK'
  BY <1>1 DEF Invalidate, SetCached, WriteCache, Deny, ServerChanges,
              ApiCacheTypeOK, NoData
<1>3. required' \in {required, serverVersion} /\ DueIsServed'
  BY <1>1 DEF Invalidate, SetCached, WriteCache, Deny, ServerChanges,
              ApiCacheTypeOK, DueIsServed
<1>4. CurrentIsNotOlder'
  BY <1>1 DEF Invalidate, SetCached, WriteCache, Deny, ServerChanges,
              CurrentIsNotOlder
<1>5. CallerSeesWrites'
  BY <1>1 DEF CallerSeesWrites
<1> QED
  BY <1>2, <1>3, <1>4, <1>5

\* What becomes of a request: only an answer of the current generation is kept.
LEMMA RequestKeeps ==
  ASSUME ApiCacheInv, NEW r \in Fetch,
         ServerAnswers(r) \/ ResponseArrivesFor(r) \/ RequestFails(r) \/ RequestCleanup(r)
  PROVE  ApiCacheInv'
<1> USE ApiCacheAssumption DEF ApiCacheInv
<1>1. CASE ServerAnswers(r)
  <2>1. /\ calls'[r] = [step |-> "answered", saw |-> serverVersion]
        /\ \A x \in Fetch \ {r} : calls'[x] = calls[x]
        /\ UNCHANGED <<serverVersion, cached, error, inFlightFetch, currentFetch,
                       required, joined>>
    BY <1>1 DEF ServerAnswers, ApiCacheTypeOK
  <2>2. ApiCacheTypeOK'
    BY <1>1 DEF ServerAnswers, ApiCacheTypeOK
  <2>3. DueIsServed' /\ CurrentIsNotOlder' /\ CallerSeesWrites'
    BY <2>1 DEF DueIsServed, CurrentIsNotOlder, CallerSeesWrites, ApiCacheTypeOK
  <2> QED
    BY <2>2, <2>3
<1>2. CASE ResponseArrivesFor(r)
  <2>1. /\ calls[r].step = "answered" /\ calls'[r].step = "settled" /\ calls'[r].saw = calls[r].saw
        /\ \A x \in Fetch \ {r} : calls'[x] = calls[x]
        /\ UNCHANGED <<serverVersion, inFlightFetch, currentFetch, required, joined>>
    BY <1>2 DEF ResponseArrivesFor, ApiCacheTypeOK
  <2>2. \/ cached' = cached
        \/ currentFetch = r /\ cached' = calls[r].saw
    BY <1>2 DEF ResponseArrivesFor, Commits
  <2>3. ApiCacheTypeOK'
    BY <1>2 DEF ResponseArrivesFor, Commits, ApiCacheTypeOK
  <2>4. DueIsServed' /\ CurrentIsNotOlder' /\ CallerSeesWrites'
    BY <2>1, <2>2 DEF DueIsServed, CurrentIsNotOlder, CallerSeesWrites
  <2> QED
    BY <2>3, <2>4
<1>3. CASE RequestFails(r)
  <2>1. /\ calls'[r].saw = NoData /\ \A x \in Fetch \ {r} : calls'[x] = calls[x]
        /\ UNCHANGED <<serverVersion, inFlightFetch, currentFetch, required, joined>>
    BY <1>3 DEF RequestFails, ApiCacheTypeOK
  <2>2. cached' \in {cached, NoData} /\ error' \in {error, "denied", "other"}
    BY <1>3 DEF RequestFails, RefusedData
  <2>3. ApiCacheTypeOK'
    BY <1>3, <2>1, <2>2 DEF RequestFails, ApiCacheTypeOK
  <2>4. DueIsServed' /\ CurrentIsNotOlder' /\ CallerSeesWrites'
    BY <2>1, <2>2 DEF DueIsServed, CurrentIsNotOlder, CallerSeesWrites
  <2> QED
    BY <2>3, <2>4
<1>4. CASE RequestCleanup(r)
  <2>1. /\ calls'[r].saw = NoData
        /\ \A x \in Fetch \ {r} : calls'[x] = calls[x] /\ joined'[x] = joined[x]
        /\ joined'[r] = 0 /\ currentFetch' \in {currentFetch, NoFetch}
        /\ UNCHANGED <<serverVersion, cached, error, required>>
    BY <1>4 DEF RequestCleanup, ApiCacheTypeOK, FreeCall
  <2>2. ApiCacheTypeOK'
    BY <1>4 DEF RequestCleanup, CleanupOf, ApiCacheTypeOK, FreeCall
  <2>3. DueIsServed' /\ CurrentIsNotOlder' /\ CallerSeesWrites'
    BY <2>1 DEF DueIsServed, CurrentIsNotOlder, CallerSeesWrites, ApiCacheTypeOK
  <2> QED
    BY <2>2, <2>3
<1> QED
  BY <1>1, <1>2, <1>3, <1>4

\* Every action keeps it.
LEMMA StepApiCacheInv == ApiCacheInv /\ [ApiCacheNext]_apiCacheVars => ApiCacheInv'
<1> SUFFICES ASSUME ApiCacheInv, [ApiCacheNext]_apiCacheVars PROVE ApiCacheInv'
  OBVIOUS
<1>1. CASE UNCHANGED apiCacheVars
  BY <1>1 DEF apiCacheVars, ApiCacheInv, ApiCacheTypeOK, DueIsServed, CurrentIsNotOlder,
              CallerSeesWrites
<1> QED
  BY <1>1, ReadKeeps, WriteKeeps, RequestKeeps DEF ApiCacheNext

\* The strengthened invariant of the cache holds throughout.
THEOREM ApiCacheInvariant == ApiCacheSpec => []ApiCacheInv
<1>1. ApiCacheInit => ApiCacheInv
  BY InitApiCacheInv
<1>2. ApiCacheInv /\ [ApiCacheNext]_apiCacheVars => ApiCacheInv'
  BY StepApiCacheInv
<1> QED
  BY <1>1, <1>2, PTL DEF ApiCacheSpec

\* Whoever waits for a request, its own or a shared one, is given no answer older than
\* the last write or forced read before its call.
THEOREM CallersSeeWrites == ApiCacheSpec => []CallerSeesWrites
<1>1. ApiCacheInv => CallerSeesWrites
  BY DEF ApiCacheInv
<1> QED
  BY <1>1, ApiCacheInvariant, PTL

\* A request of the current generation reads the server after whatever is kept was read.
LEMMA StepMonotone == ApiCacheInv /\ Monotone /\ [ApiCacheNext]_apiCacheVars => Monotone'
<1> SUFFICES ASSUME ApiCacheInv, Monotone, [ApiCacheNext]_apiCacheVars PROVE Monotone'
  OBVIOUS
<1> USE ApiCacheAssumption DEF ApiCacheInv, ApiCacheTypeOK, Monotone, NoData
<1>1. ASSUME NEW r \in Fetch, Dispatch(r), UNCHANGED <<serverVersion, cached>>
      PROVE  Monotone'
  BY <1>1 DEF Dispatch, FreeCall
<1>2. CASE ReadCached \/ ReadForced
  BY <1>1, <1>2 DEF ReadCached, ReadForced, Reusable
<1>3. CASE Invalidate \/ SetCached \/ Deny
  BY <1>3 DEF Invalidate, SetCached, WriteCache, Deny
<1>4. CASE ServerChanges
  BY <1>4 DEF ServerChanges
<1>5. ASSUME NEW r \in Fetch, ServerAnswers(r) PROVE Monotone'
  BY <1>5 DEF ServerAnswers
<1>6. ASSUME NEW r \in Fetch, ResponseArrivesFor(r) PROVE Monotone'
  BY <1>6 DEF ResponseArrivesFor, Commits
<1>7. ASSUME NEW r \in Fetch, RequestFails(r) PROVE Monotone'
  BY <1>7 DEF RequestFails, Commits, RefusedData
<1>8. ASSUME NEW r \in Fetch, RequestCleanup(r) PROVE Monotone'
  BY <1>8 DEF RequestCleanup, FreeCall
<1>9. CASE UNCHANGED apiCacheVars
  BY <1>9 DEF apiCacheVars
<1> QED
  BY <1>2, <1>3, <1>4, <1>5, <1>6, <1>7, <1>8, <1>9 DEF ApiCacheNext

\* A write or a forced read of the page, a change of the server, and an answer of the
\* current generation are those of the promise; all else leaves what is kept, or forgets it.
LEMMA StepKeepsPromise ==
  ApiCacheInv /\ Monotone /\ [ApiCacheNext]_apiCacheVars => [Promise!Next]_(Promise!vars)
<1> SUFFICES ASSUME ApiCacheInv, Monotone, [ApiCacheNext]_apiCacheVars
             PROVE  [Promise!Next]_(Promise!vars)
  OBVIOUS
<1> USE DEF Promise!Next, Promise!vars, NoData, Promise!Nothing
<1>1. CASE Invalidate \/ SetCached
  BY <1>1 DEF Invalidate, SetCached, WriteCache, Promise!Write
<1>2. CASE ServerChanges
  BY <1>2 DEF ServerChanges, Promise!Change
<1>3. CASE Deny
  BY <1>3 DEF Deny, Promise!Forget
<1>4. ASSUME NEW r \in Fetch, ResponseArrivesFor(r) PROVE [Promise!Next]_(Promise!vars)
  <2>1. UNCHANGED <<serverVersion, required>>
    BY <1>4 DEF ResponseArrivesFor
  <2>2. CASE ~Commits(r)
    BY <1>4, <2>1, <2>2 DEF ResponseArrivesFor
  <2>3. CASE Commits(r) /\ calls[r].saw = NoData
    BY <1>4, <2>1, <2>3 DEF ResponseArrivesFor, Promise!Forget
  <2>4. CASE Commits(r) /\ calls[r].saw # NoData
    <3>1. cached' = calls[r].saw /\ currentFetch = r /\ calls[r].step = "answered"
      BY <1>4, <2>4 DEF ResponseArrivesFor, Commits
    <3>2. cached' \in 0..serverVersion /\ cached' >= required /\ cached' >= cached
      BY <2>4, <3>1, ApiCacheAssumption
         DEF Monotone, ApiCacheInv, ApiCacheTypeOK, CurrentIsNotOlder
    <3> QED
      BY <2>1, <3>2 DEF Promise!Keep
  <2> QED
    BY <2>2, <2>3, <2>4
<1>5. ASSUME NEW r \in Fetch, RequestFails(r) PROVE [Promise!Next]_(Promise!vars)
  BY <1>5 DEF RequestFails, RefusedData, Promise!Forget
<1>6. CASE ReadCached \/ ReadForced \/ UNCHANGED apiCacheVars
  BY <1>6 DEF ReadCached, ReadForced, Promise!Ask, apiCacheVars
<1>7. ASSUME NEW r \in Fetch, ServerAnswers(r) \/ RequestCleanup(r)
      PROVE  UNCHANGED Promise!vars
  BY <1>7 DEF ServerAnswers, RequestCleanup
<1> QED
  BY <1>1, <1>2, <1>3, <1>4, <1>5, <1>6, <1>7 DEF ApiCacheNext

\* Whatever order requests are answered in, the cache keeps no answer older than the last
\* write or forced read of the page, nor than the entry it replaces.
THEOREM KeepsReadYourWrites == ApiCacheSpec => ImplementsReadYourWrites
<1>1. ApiCacheInit => Monotone /\ Promise!Init
  BY ApiCacheAssumption DEF ApiCacheInit, Monotone, FreeCall, NoData, Promise!Init,
                            Promise!Nothing
<1>2. ApiCacheInv /\ Monotone /\ [ApiCacheNext]_apiCacheVars => Monotone'
  BY StepMonotone
<1>3. ApiCacheInv /\ Monotone /\ [ApiCacheNext]_apiCacheVars => [Promise!Next]_(Promise!vars)
  BY StepKeepsPromise
<1> QED
  BY <1>1, <1>2, <1>3, ApiCacheInvariant, PTL DEF ApiCacheSpec, Promise!Spec,
     ImplementsReadYourWrites

\* Every variable of the cache keeps its type.
THEOREM ApiCacheTypes == ApiCacheSpec => []ApiCacheTypeOK
<1>1. ApiCacheInv => ApiCacheTypeOK
  BY DEF ApiCacheInv
<1> QED
  BY <1>1, ApiCacheInvariant, PTL

-----------------------------------------------------------------------------

\* A state of the tab, its run state and its items.
RunState == [phase : {"idle", "pendingSend", "running", "interruptedLocal"},
             active : Message \cup {NoMessage}, runOf : Message \cup {NoMessage}, hold : BOOLEAN]
Tab == [item : [Message -> OutboxItem], disk : [Message -> OutboxItem],
        memoryOnly : BOOLEAN, run : RunState]

\* What a reload would read is settled, and says of every send in flight that it may
\* have been sent; so does the item.
Held(t) ==
  \A m \in Message :
    /\ t.disk[m].status \in {"absent", "failed", "unknown"}
    /\ t.item[m].status = "inflight" => t.item[m].maybe /\ t.disk[m].maybe

\* A reload would find every item, unless the storage failed.
Covered(t) == t.memoryOnly \/ \A m \in Message : Has(t, m) => t.disk[m].status # "absent"

OutboxInv == OutboxTypeOK /\ Held(tab) /\ Covered(tab)

\* A sound state of the tab, which has the items of K.
Good(t, K) == t \in Tab /\ Held(t) /\ Covered(t) /\ \A m \in K : Has(t, m)

\* One item, or the run state, is replaced.
LEMMA WithItem ==
  ASSUME NEW t \in Tab, NEW m \in Message, NEW i \in OutboxItem
  PROVE  /\ [t EXCEPT !.item[m] = i] \in Tab
         /\ [t EXCEPT !.item[m] = i].item = [t.item EXCEPT ![m] = i]
         /\ [t EXCEPT !.item[m] = i].disk = t.disk
         /\ [t EXCEPT !.item[m] = i].memoryOnly = t.memoryOnly
         /\ [t EXCEPT !.item[m] = i].run = t.run
  BY DEF Tab

\* All items are replaced.
LEMMA WithItems ==
  ASSUME NEW t \in Tab, NEW f \in [Message -> OutboxItem]
  PROVE  /\ [t EXCEPT !.item = f] \in Tab
         /\ [t EXCEPT !.item = f].item = f
         /\ [t EXCEPT !.item = f].disk = t.disk
         /\ [t EXCEPT !.item = f].memoryOnly = t.memoryOnly
         /\ [t EXCEPT !.item = f].run = t.run
  BY DEF Tab

\* The run state is replaced.
LEMMA WithRun ==
  ASSUME NEW t \in Tab, NEW r \in RunState
  PROVE  /\ [t EXCEPT !.run = r] \in Tab
         /\ [t EXCEPT !.run = r].item = t.item
         /\ [t EXCEPT !.run = r].disk = t.disk
         /\ [t EXCEPT !.run = r].memoryOnly = t.memoryOnly
         /\ [t EXCEPT !.run = r].run = r
  BY DEF Tab

\* An item whose status changes is an item.
LEMMA WithStatusOf ==
  ASSUME NEW i \in OutboxItem,
         NEW s \in {"absent", "queued", "inflight", "acked", "failed", "unknown"},
         NEW b \in BOOLEAN
  PROVE  /\ [i EXCEPT !.status = s] \in OutboxItem /\ [i EXCEPT !.status = s].status = s
         /\ [i EXCEPT !.status = s].maybe = i.maybe
         /\ [i EXCEPT !.status = s, !.backoff = b] \in OutboxItem
         /\ [i EXCEPT !.status = s, !.backoff = b].status = s
         /\ [i EXCEPT !.status = s, !.awaiting = FALSE, !.backoff = FALSE] \in OutboxItem
         /\ [i EXCEPT !.status = s, !.awaiting = FALSE, !.backoff = FALSE].status = s
  BY DEF OutboxItem

\* Restoring leaves a settled item, which is as much there, and marked, as it was.
LEMMA RestoredIsSettled ==
  ASSUME NEW i \in OutboxItem
  PROVE  /\ Restored(i) \in OutboxItem /\ Restored(i).status \in {"absent", "failed", "unknown"}
         /\ Restored(i).maybe = i.maybe
         /\ i.status # "absent" <=> Restored(i).status # "absent"
  BY DEF Restored, OutboxItem

\* The stored copy covers the items once they were written.
LEMMA PersistIsSound ==
  ASSUME NEW t \in Tab, Held(t), NEW u \in Persist(t)
  PROVE  /\ u \in Tab /\ Held(u) /\ Covered(u)
         /\ u.item = t.item /\ u.run = t.run
         /\ t.memoryOnly => u = t
         /\ ~u.memoryOnly => u.disk = [m \in Message |-> Restored(t.item[m])]
<1>1. CASE t.memoryOnly
  BY <1>1 DEF Persist, Covered
<1> DEFINE d == [m \in Message |-> Restored(t.item[m])]
<1>2. CASE ~t.memoryOnly /\ u = [t EXCEPT !.disk = d]
  <2>1. t.item \in [Message -> OutboxItem]
    BY DEF Tab
  <2>2. d \in [Message -> OutboxItem]
    BY <2>1, RestoredIsSettled
  <2>3. \A m \in Message : /\ d[m].status \in {"absent", "failed", "unknown"}
                           /\ d[m].maybe = t.item[m].maybe
                           /\ t.item[m].status # "absent" <=> d[m].status # "absent"
    BY <2>1, RestoredIsSettled
  <2> HIDE DEF d
  <2>4. u \in Tab /\ u.item = t.item /\ u.run = t.run /\ u.disk = d
    BY <1>2, <2>2 DEF Tab
  <2>5. Held(u) /\ Covered(u)
    BY <2>3, <2>4 DEF Held, Covered, Has
  <2> QED
    BY <1>2, <2>4, <2>5 DEF d
<1>3. CASE ~t.memoryOnly /\ u = [t EXCEPT !.memoryOnly = TRUE]
  <2>1. u \in Tab /\ u.item = t.item /\ u.run = t.run /\ u.disk = t.disk /\ u.memoryOnly
    BY <1>3 DEF Tab
  <2> QED
    BY <1>3, <2>1 DEF Held, Covered
<1> QED
  BY <1>1, <1>2, <1>3 DEF Persist

\* An item that changes is not put in flight, and does not lose the mark there.
LEMMA ChangeIsHeld ==
  ASSUME NEW t \in Tab, Held(t), NEW u \in Tab, u.disk = t.disk,
         \A m \in Message : u.item[m].status = "inflight" => u.item[m] = t.item[m]
  PROVE  Held(u)
  BY DEF Held

\* What is held, with the items of K, is good once it was persisted.
LEMMA PersistIsGood ==
  ASSUME NEW t \in Tab, Held(t), NEW K \in SUBSET Message, \A m \in K : Has(t, m),
         NEW u \in Persist(t)
  PROVE  Good(u, K)
<1>1. u \in Tab /\ Held(u) /\ Covered(u) /\ u.item = t.item
  BY PersistIsSound
<1> QED
  BY <1>1 DEF Good, Has

Put(t, m, i) == [t EXCEPT !.item[m] = i]

\* A settled item is put in a tab and persisted: the tab is sound, the others stay.
LEMMA PutItem ==
  ASSUME NEW t \in Tab, Held(t), NEW m \in Message, NEW i \in OutboxItem,
         i.status \notin {"inflight", "absent"}, NEW u \in Persist(Put(t, m, i))
  PROVE  /\ u \in Tab /\ Held(u) /\ Covered(u) /\ u.item[m] = i
         /\ \A n \in Message : n # m => u.item[n] = t.item[n]
<1> DEFINE f == [t.item EXCEPT ![m] = i]
           v == [t EXCEPT !.item[m] = i]
<1>1. v \in Tab /\ v.item = f /\ v.disk = t.disk /\ v.run = t.run
  BY WithItem
<1>2. /\ f[m] = i /\ \A n \in Message : n # m => f[n] = t.item[n]
      /\ \A n \in Message : f[n].status = "inflight" => f[n] = t.item[n]
  BY DEF Tab
<1> HIDE DEF f, v
<1>3. Held(v)
  BY <1>1, <1>2, ChangeIsHeld
<1>4. u \in Persist(v)
  BY DEF v, Put
<1> QED
  BY <1>1, <1>2, <1>3, <1>4, PersistIsSound

\* A tab that gets a settled item has it beside those it had.
LEMMA ItemIsGood ==
  ASSUME NEW t \in Tab, Held(t), NEW K \in SUBSET Message, \A n \in K : Has(t, n),
         NEW m \in Message, NEW i \in OutboxItem, i.status \notin {"inflight", "absent"},
         NEW u \in Persist(Put(t, m, i))
  PROVE  Good(u, K \cup {m})
<1>1. /\ u \in Tab /\ Held(u) /\ Covered(u) /\ u.item[m] = i
      /\ \A n \in Message : n # m => u.item[n] = t.item[n]
  BY PutItem
<1> QED
  BY <1>1 DEF Good, Has

\* A tab stays sound whatever its run state becomes.
LEMMA RunIsGood ==
  ASSUME NEW t, NEW K, Good(t, K), NEW r \in RunState
  PROVE  Good([t EXCEPT !.run = r], K)
<1> DEFINE u == [t EXCEPT !.run = r]
<1>1. u \in Tab /\ u.item = t.item /\ u.disk = t.disk /\ u.memoryOnly = t.memoryOnly /\ t \in Tab
  BY WithRun DEF Good
<1> HIDE DEF u
<1>2. Good(u, K)
  BY <1>1 DEF Good, Held, Covered, Has
<1> QED
  BY <1>2 DEF u

\* The marker reached the disk, or the send is not authorized, and the tab keeps to memory.
LEMMA MarkerIsProof ==
  ASSUME NEW t, NEW K \in SUBSET Message, Good(t, K), NEW m \in K,
         NEW i \in OutboxItem, i.status = "inflight", i.maybe,
         NEW u \in Persist([t EXCEPT !.item[m] = i])
  PROVE  /\ u \in Tab /\ u.item = [t.item EXCEPT ![m] = i] /\ u.run = t.run
         /\ \/ Authorized(u, m) /\ Good(u, K)
            \/ ~Authorized(u, m) /\ u.memoryOnly /\ u.disk = t.disk
<1> DEFINE f == [t.item EXCEPT ![m] = i]
           v == [t EXCEPT !.item[m] = i]
<1>1. f \in [Message -> OutboxItem] /\ t \in Tab /\ Held(t) /\ Covered(t)
  BY DEF Good, Tab
<1>2. v \in Tab /\ v.item = f /\ v.disk = t.disk /\ v.memoryOnly = t.memoryOnly /\ v.run = t.run
  BY <1>1, WithItem
<1>3. /\ f[m] = i /\ \A n \in Message : n # m => f[n] = t.item[n]
      /\ \A n \in K : f[n].status # "absent"
  BY <1>1 DEF Good, Tab, Has
<1> HIDE DEF f, v
<1> DEFINE d == [n \in Message |-> Restored(v.item[n])]
<1>4. CASE u = [v EXCEPT !.disk = d] /\ ~v.memoryOnly
  <2>1. /\ d \in [Message -> OutboxItem]
        /\ \A n \in Message : /\ d[n].status \in {"absent", "failed", "unknown"}
                              /\ d[n].maybe = f[n].maybe
                              /\ f[n].status # "absent" <=> d[n].status # "absent"
    BY <1>1, <1>2, RestoredIsSettled
  <2> HIDE DEF d
  <2>2. u \in Tab /\ u.item = f /\ u.disk = d /\ ~u.memoryOnly /\ u.run = t.run
    BY <1>2, <1>4, <2>1 DEF Tab
  <2>3. Held(u) /\ Covered(u)
    BY <1>1, <1>3, <2>1, <2>2 DEF Held, Covered, Has
  <2>4. Authorized(u, m)
    BY <1>3, <2>1, <2>2 DEF Authorized
  <2> QED
    BY <1>3, <2>2, <2>3, <2>4 DEF Good, Has, f
<1>5. CASE u \in Tab /\ u.item = f /\ u.run = t.run /\ u.disk = t.disk /\ u.memoryOnly
  BY <1>5 DEF Authorized, f
<1>6. CASE v.memoryOnly /\ u = v
  BY <1>2, <1>5, <1>6
<1>7. CASE u = [v EXCEPT !.memoryOnly = TRUE]
  <2>1. u \in Tab /\ u.item = f /\ u.run = t.run /\ u.disk = t.disk /\ u.memoryOnly
    BY <1>2, <1>7 DEF Tab
  <2> QED
    BY <1>5, <2>1
<1> QED
  BY <1>4, <1>6, <1>7 DEF Persist, v

\* The item a flush marks, parks or gives back.
LEMMA FlushedItems ==
  ASSUME NEW i \in OutboxItem
  PROVE  /\ InflightItem(i) \in OutboxItem /\ ParkedItem(i) \in OutboxItem
         /\ InflightItem(i).status = "inflight" /\ InflightItem(i).maybe = TRUE
         /\ ParkedItem(i).status \in {"unknown", "failed"}
         /\ \A old \in OutboxItem : /\ GivenBackItem(i, old) \in OutboxItem
                                   /\ GivenBackItem(i, old).status = "queued"
<1>1. MaxAutoAttempts \in Nat /\ i.tries \in 0..MaxAutoAttempts
  BY OutboxAssumption DEF OutboxItem
<1>2. (IF i.tries = MaxAutoAttempts THEN i.tries ELSE i.tries + 1) \in 0..MaxAutoAttempts
  BY <1>1
<1>3. (IF i.tries = 0 THEN 0 ELSE i.tries - 1) \in 0..MaxAutoAttempts
  BY <1>1
<1>4. InflightItem(i) \in OutboxItem /\ InflightItem(i).status = "inflight"
      /\ InflightItem(i).maybe = TRUE
  BY <1>2 DEF OutboxItem, InflightItem
<1>5. ParkedItem(i) \in OutboxItem /\ ParkedItem(i).status \in {"unknown", "failed"}
  BY DEF OutboxItem, ParkedItem
<1>6. ASSUME NEW old \in OutboxItem
      PROVE  GivenBackItem(i, old) \in OutboxItem /\ GivenBackItem(i, old).status = "queued"
  BY <1>3 DEF OutboxItem, GivenBackItem
<1> QED
  BY <1>4, <1>5, <1>6

\* A flush leaves the tab sound, and loses no item.
LEMMA FlushItemIsGood ==
  ASSUME NEW t, NEW K \in SUBSET Message, Good(t, K), NEW m \in K, NEW r \in FlushItem(t, m)
  PROVE  Good(r.tab, K) /\ r.frames \subseteq Frame
<1> DEFINE old == t.item[m]
           i == InflightItem(old)
           park == ParkedItem(old)
           P == Persist([t EXCEPT !.item[m] = i])
           sending == {u \in P : Authorized(u, m)}
           sent(u) == [u EXCEPT !.run.phase = "pendingSend", !.run.active = m,
                                !.run.runOf = NoMessage]
<1>1. old \in OutboxItem /\ old.maybe \in BOOLEAN /\ t \in Tab /\ m \in Message
  BY DEF Good, Tab, OutboxItem
<1>2. i \in OutboxItem /\ park \in OutboxItem
      /\ i.status = "inflight" /\ i.maybe = TRUE /\ park.status \in {"unknown", "failed"}
  BY <1>1, FlushedItems
<1>3. \/ \E u \in P \ sending : r = [tab |-> [u EXCEPT !.item[m] = park], frames |-> {}]
      \/ \E u \in sending :
           r = [tab |-> sent(u), frames |-> {[msg |-> m, retry |-> old.maybe, here |-> TRUE]}]
      \/ \E u \in sending : \E w \in Persist([u EXCEPT !.item[m] = GivenBackItem(@, old)]) :
           r = [tab |-> w, frames |-> {}]
  BY Zenon DEF FlushItem, Persisted
<1>4. ASSUME NEW u \in P
      PROVE  /\ u \in Tab /\ u.item = [t.item EXCEPT ![m] = i] /\ u.run = t.run
             /\ \/ Authorized(u, m) /\ Good(u, K)
                \/ ~Authorized(u, m) /\ u.memoryOnly /\ u.disk = t.disk
  BY <1>2, <1>4, MarkerIsProof
<1> HIDE DEF i, park, P
<1>5. ASSUME NEW u \in P \ sending PROVE Good([u EXCEPT !.item[m] = park], K)
  <2>1. u \in Tab /\ u.item = [t.item EXCEPT ![m] = i] /\ u.memoryOnly /\ u.disk = t.disk
    BY <1>4, <1>5
  <2>2. u \in Tab /\ m \in Message /\ park \in OutboxItem
    BY <1>1, <1>2, <2>1
  <2>3. /\ [u EXCEPT !.item[m] = park] \in Tab
        /\ [u EXCEPT !.item[m] = park].item = [u.item EXCEPT ![m] = park]
        /\ [u EXCEPT !.item[m] = park].disk = u.disk
        /\ [u EXCEPT !.item[m] = park].memoryOnly = u.memoryOnly
        /\ [u EXCEPT !.item[m] = park].run = u.run
    BY <2>2, WithItem, Zenon
  <2>4. PICK w : /\ w = [u EXCEPT !.item[m] = park] /\ w \in Tab
                 /\ w.item = [u.item EXCEPT ![m] = park] /\ w.disk = u.disk
                 /\ w.memoryOnly = u.memoryOnly
    BY <2>3
  <2>5. /\ w.item[m] = park /\ \A n \in Message : n # m => w.item[n] = t.item[n]
    BY <1>1, <2>1, <2>4 DEF Tab
  <2>6. Held(w) /\ Covered(w)
    BY <1>2, <2>1, <2>4, <2>5 DEF Held, Covered, Good
  <2>7. Good(w, K)
    BY <1>2, <2>4, <2>5, <2>6 DEF Good, Has
  <2> QED
    BY <2>4, <2>7
<1>6. ASSUME NEW u \in sending PROVE Good(sent(u), K)
  <2> DEFINE q == [u.run EXCEPT !.phase = "pendingSend", !.active = m, !.runOf = NoMessage]
  <2>1. u \in Tab /\ Good(u, K)
    BY <1>4, <1>6
  <2>2. q \in RunState
    BY <1>1, <2>1 DEF Tab, RunState
  <2>3. sent(u) = [u EXCEPT !.run = q]
    BY <2>1 DEF Tab, RunState
  <2> HIDE DEF q, sent
  <2> QED
    BY <2>1, <2>2, <2>3, RunIsGood
<1>7. ASSUME NEW u \in sending, NEW w \in Persist([u EXCEPT !.item[m] = GivenBackItem(@, old)])
      PROVE  Good(w, K)
  <2> DEFINE j == GivenBackItem(u.item[m], old)
  <2>1. u \in Tab /\ Good(u, K) /\ u.item[m] \in OutboxItem
    BY <1>1, <1>4, <1>7 DEF Tab
  <2>2. j \in OutboxItem /\ j.status = "queued"
    BY <1>1, <2>1, FlushedItems
  <2>3. w \in Persist(Put(u, m, j))
    BY <1>7, Zenon DEF Put
  <2> HIDE DEF j
  <2>4. /\ Held(u) /\ \A n \in K : Has(u, n)
        /\ j.status \notin {"inflight", "absent"}
    BY <2>1, <2>2 DEF Good
  <2>5. Good(w, K \cup {m})
    BY <1>1, <2>1, <2>2, <2>3, <2>4, ItemIsGood
  <2> QED
    BY <2>5 DEF Good
<1>8. {[msg |-> m, retry |-> old.maybe, here |-> TRUE]} \subseteq Frame
  BY <1>1 DEF Frame
<1> HIDE DEF sent, sending, old
<1>9. CASE \E u \in P \ sending : r = [tab |-> [u EXCEPT !.item[m] = park], frames |-> {}]
  BY <1>5, <1>9
<1>10. CASE \E u \in sending :
            r = [tab |-> sent(u), frames |-> {[msg |-> m, retry |-> old.maybe, here |-> TRUE]}]
  BY <1>6, <1>8, <1>10
<1>11. CASE \E u \in sending : \E w \in Persist([u EXCEPT !.item[m] = GivenBackItem(@, old)]) :
             r = [tab |-> w, frames |-> {}]
  BY <1>7, <1>11
<1> QED
  BY <1>3, <1>9, <1>10, <1>11

\* ... whichever of the tabs it starts from.
LEMMA FlushOnIsGood ==
  ASSUME NEW S, NEW only, NEW K \in SUBSET Message, \A t \in S : Good(t, K),
         upFrames \subseteq Frame, FlushOn(S, only)
  PROVE  Good(tab', K) /\ upFrames' \subseteq Frame
<1>1. PICK t \in S : \E elapsed \in SUBSET {m \in WithStatus(t, "queued") : t.item[m].backoff} :
        LET due == IF CanAutoFlush(t) /\ socket' THEN Eligible(t, elapsed) \cap only ELSE {}
        IN \E r \in IF due = {} THEN {[tab |-> t, frames |-> {}]}
                    ELSE UNION {FlushItem(t, m) : m \in due} :
             tab' = r.tab /\ upFrames' = upFrames \cup r.frames
  BY DEF FlushOn
<1>2. \A elapsed : Eligible(t, elapsed) \subseteq WithStatus(t, "queued")
  BY DEF Eligible
<1>3. \E r : /\ \/ r = [tab |-> t, frames |-> {}]
                \/ \E m \in WithStatus(t, "queued") : r \in FlushItem(t, m)
             /\ tab' = r.tab /\ upFrames' = upFrames \cup r.frames
  BY <1>1, <1>2
<1>4. PICK r : /\ \/ r = [tab |-> t, frames |-> {}]
                 \/ \E m \in WithStatus(t, "queued") : r \in FlushItem(t, m)
              /\ tab' = r.tab /\ upFrames' = upFrames \cup r.frames
  BY <1>3
<1>5. Good(t, K)
  OBVIOUS
<1>6. CASE r = [tab |-> t, frames |-> {}]
  BY <1>4, <1>5, <1>6
<1>7. ASSUME NEW m \in WithStatus(t, "queued"), r \in FlushItem(t, m)
      PROVE  Good(r.tab, K) /\ r.frames \subseteq Frame
  <2>1. m \in Message /\ K \cup {m} \in SUBSET Message /\ Good(t, K \cup {m})
    BY <1>5 DEF WithStatus, Good, Has
  <2>2. Good(r.tab, K \cup {m}) /\ r.frames \subseteq Frame
    BY <1>7, <2>1, FlushItemIsGood
  <2> QED
    BY <2>2 DEF Good
<1> QED
  BY <1>4, <1>6, <1>7

\* What awaits a history is released to another status.
LEMMA ReleasedIsGood ==
  ASSUME NEW t \in Tab, Held(t), NEW s \in {"queued", "unknown"}
  PROVE  /\ ReleaseAwaiting(t, s) \in Tab /\ Held(ReleaseAwaiting(t, s))
         /\ ReleaseAwaiting(t, s).disk = t.disk
         /\ ReleaseAwaiting(t, s).memoryOnly = t.memoryOnly
         /\ \A m \in Message : Has(t, m) => Has(ReleaseAwaiting(t, s), m)
<1> DEFINE f == [m \in Message |->
                  IF t.item[m].status = "acked" /\ t.item[m].awaiting
                  THEN [t.item[m] EXCEPT !.status = s, !.awaiting = FALSE, !.backoff = FALSE]
                  ELSE t.item[m]]
<1>1. t.item \in [Message -> OutboxItem]
  BY DEF Tab
<1>2. f \in [Message -> OutboxItem]
  BY <1>1, WithStatusOf
<1>3. \A m \in Message : /\ f[m].status = "inflight" => f[m] = t.item[m]
                         /\ t.item[m].status # "absent" => f[m].status # "absent"
  BY <1>1, WithStatusOf
<1>4. ReleaseAwaiting(t, s) = [t EXCEPT !.item = f]
  BY DEF ReleaseAwaiting
<1> HIDE DEF f
<1>5. /\ [t EXCEPT !.item = f] \in Tab
      /\ [t EXCEPT !.item = f].item = f
      /\ [t EXCEPT !.item = f].disk = t.disk
      /\ [t EXCEPT !.item = f].memoryOnly = t.memoryOnly
      /\ [t EXCEPT !.item = f].run = t.run
  BY <1>2, WithItems, Zenon
<1>6. PICK u : u = [t EXCEPT !.item = f] /\ u \in Tab /\ u.item = f /\ u.disk = t.disk
                 /\ u.memoryOnly = t.memoryOnly
  BY <1>5
<1> QED
  BY <1>3, <1>4, <1>6, ChangeIsHeld DEF Has

\* Timeouts put nothing in flight, and lose nothing.
LEMMA OverdueIsHeld ==
  ASSUME NEW t \in Tab, Held(t), NEW u \in Overdue(t)
  PROVE  /\ u \in Tab /\ Held(u) /\ u.disk = t.disk /\ u.memoryOnly = t.memoryOnly
         /\ \A m \in Message : Has(t, m) => Has(u, m)
<1> DEFINE f(late) == [m \in Message |->
                        IF m \notin late THEN t.item[m]
                        ELSE [t.item[m] EXCEPT !.status = IF t.item[m].tries >= MaxAutoAttempts
                                                          THEN "unknown" ELSE "queued",
                                               !.backoff = TRUE]]
           r(late) == IF \E m \in late : AckTimeout(t.run, m) # t.run
                      THEN ToIdle(t.run) ELSE t.run
           swept(late) == [t EXCEPT !.item = f(late), !.run = r(late)]
<1>1. ASSUME NEW late \in SUBSET WithStatus(t, "inflight")
      PROVE  /\ swept(late) \in Tab /\ Held(swept(late)) /\ swept(late).disk = t.disk
             /\ swept(late).memoryOnly = t.memoryOnly
             /\ \A m \in Message : Has(t, m) => Has(swept(late), m)
  <2>1. t.item \in [Message -> OutboxItem] /\ TRUE \in BOOLEAN
    BY DEF Tab
  <2>2. f(late) \in [Message -> OutboxItem]
    BY <2>1, WithStatusOf
  <2>3. \A m \in Message : /\ f(late)[m].status = "inflight" => f(late)[m] = t.item[m]
                           /\ t.item[m].status # "absent" => f(late)[m].status # "absent"
    BY <2>1, WithStatusOf
  <2>4. r(late) \in RunState
    BY DEF Tab, RunState, ToIdle, IdleRun
  <2> HIDE DEF f, r
  <2>5. PICK F \in [Message -> OutboxItem], R \in RunState : F = f(late) /\ R = r(late)
    BY <2>2, <2>4
  <2>6. /\ [t EXCEPT !.item = F, !.run = R] \in Tab
        /\ [t EXCEPT !.item = F, !.run = R].item = F
        /\ [t EXCEPT !.item = F, !.run = R].disk = t.disk
        /\ [t EXCEPT !.item = F, !.run = R].memoryOnly = t.memoryOnly
    BY DEF Tab
  <2>7. PICK v : /\ v = swept(late) /\ v \in Tab /\ v.item = f(late) /\ v.disk = t.disk
                 /\ v.memoryOnly = t.memoryOnly
    BY <2>5, <2>6
  <2> HIDE DEF swept
  <2> QED
    BY <2>3, <2>7, ChangeIsHeld DEF Has
<1>2. \E late \in SUBSET WithStatus(t, "inflight") :
        u = swept(late) \/ u = ReleaseAwaiting(swept(late), "unknown")
  BY DEF Overdue
<1> HIDE DEF swept
<1> QED
  BY <1>1, <1>2, ReleasedIsGood

\* A hold changes the run state alone.
LEMMA HoldIsGood ==
  ASSUME NEW t, NEW K, Good(t, K)
  PROVE  Good(HoldForUnknown(t), K)
<1> DEFINE q == [(IF t.run.phase = "idle" THEN t.run ELSE ToIdle(t.run)) EXCEPT !.hold = TRUE]
<1>1. q \in RunState
  BY DEF Good, Tab, RunState, ToIdle, IdleRun
<1>2. HoldForUnknown(t) \in {t, [t EXCEPT !.run = q]}
  BY DEF HoldForUnknown
<1> HIDE DEF q
<1> QED
  BY <1>1, <1>2, RunIsGood

\* A tick.
LEMMA TickIsGood ==
  ASSUME NEW S, NEW K \in SUBSET Message, \A t \in S : Good(t, K),
         upFrames \subseteq Frame, TickOn(S)
  PROVE  Good(tab', K) /\ upFrames' \subseteq Frame
<1>1. PICK t \in S : \E u \in Overdue(t) :
        FlushOn({HoldForUnknown(v) : v \in IF u.item = t.item THEN {u} ELSE Persist(u)}, Message)
  BY DEF TickOn
<1>2. PICK u \in Overdue(t) :
        FlushOn({HoldForUnknown(v) : v \in IF u.item = t.item THEN {u} ELSE Persist(u)}, Message)
  BY <1>1
<1>3. Good(t, K) /\ t \in Tab /\ Held(t)
  BY DEF Good
<1>4. /\ u \in Tab /\ Held(u) /\ u.disk = t.disk /\ u.memoryOnly = t.memoryOnly
      /\ \A m \in K : Has(u, m)
  BY <1>3, OverdueIsHeld DEF Good
<1>5. ASSUME NEW v \in IF u.item = t.item THEN {u} ELSE Persist(u) PROVE Good(v, K)
  <2>1. CASE v \in Persist(u)
    BY <1>4, <2>1, PersistIsSound DEF Good, Has
  <2>2. CASE v = u /\ u.item = t.item
    BY <1>3, <1>4, <2>2 DEF Good, Covered, Has
  <2> QED
    BY <1>5, <2>1, <2>2
<1>6. \A w \in {HoldForUnknown(v) : v \in IF u.item = t.item THEN {u} ELSE Persist(u)} : Good(w, K)
  BY <1>5, HoldIsGood
<1> QED
  BY <1>2, <1>6, FlushOnIsGood

\* The state outside the page.
RestTypeOK ==
  /\ typedSoFar \in 0..Typed /\ socket \in BOOLEAN
  /\ downFrames \in Seq([msg : Message, what : Reply])
  /\ bridge \in [Message -> {"none", "pending", "running", "done", "interrupted",
                             "rejected", "unknown"}]
  /\ watching \subseteq Message /\ taken \in [Message -> Nat]
  /\ dropped \subseteq Message /\ restored \subseteq Message

\* OutboxTypeOK speaks of the tab, of the frames under way and of the rest.
LEMMA OutboxTypesSplit == OutboxTypeOK <=> tab \in Tab /\ upFrames \subseteq Frame /\ RestTypeOK
  BY DEF OutboxTypeOK, RestTypeOK, Tab, RunState

Items == {m \in Message : Has(tab, m)}

\* The invariant makes the tab sound.
LEMMA TabIsGood == ASSUME OutboxInv PROVE Good(tab, Items)
  BY OutboxTypesSplit DEF OutboxInv, Good, Items

\* The hold of the queue is lifted.
LEMMA UnheldIsGood ==
  ASSUME NEW t, NEW K, Good(t, K)
  PROVE  Good([t EXCEPT !.run.hold = FALSE], K)
<1> DEFINE q == [t.run EXCEPT !.hold = FALSE]
<1>1. q \in RunState /\ [t EXCEPT !.run.hold = FALSE] = [t EXCEPT !.run = q]
  BY DEF Good, Tab, RunState
<1> HIDE DEF q
<1> QED
  BY <1>1, RunIsGood

\* A typed item is queued.
LEMMA NewItemIsItem == NewItem \in OutboxItem /\ NewItem.status = "queued" /\ NoItem \in OutboxItem
<1>1. 0 \in 0..MaxAutoAttempts
  BY OutboxAssumption
<1> QED
  BY <1>1 DEF NewItem, NoItem, OutboxItem

\* The user's sends.
LEMMA TypeIsGood ==
  ASSUME OutboxInv, Type
  PROVE  Good(tab', Items) /\ upFrames' \subseteq Frame
<1>1. PICK n \in Message : n = typedSoFar'
  BY OutboxAssumption DEF Type, OutboxInv, OutboxTypeOK, Message
<1>2. FlushOn(Persist(Put(tab, n, NewItem)), {n})
  BY <1>1 DEF Type, Put
<1>3. /\ tab \in Tab /\ Held(tab) /\ Items \in SUBSET Message /\ \A m \in Items : Has(tab, m)
      /\ upFrames \subseteq Frame
  BY OutboxTypesSplit DEF OutboxInv, Items
<1>4. \A u \in Persist(Put(tab, n, NewItem)) : Good(u, Items)
  <2> TAKE u \in Persist(Put(tab, n, NewItem))
  <2>1. Good(u, Items \cup {n})
    BY <1>3, NewItemIsItem, ItemIsGood
  <2> QED
    BY <2>1 DEF Good
<1> QED
  BY <1>2, <1>3, <1>4, FlushOnIsGood

\* A retry asks the storage again, and gives up no item.
LEMMA RetryIsGood ==
  ASSUME OutboxInv, NEW m \in Message, Retry(m)
  PROVE  Good(tab', Items) /\ upFrames' \subseteq Frame
<1> DEFINE t == [tab EXCEPT !.memoryOnly = FALSE]
<1>1. /\ tab \in Tab /\ Held(tab) /\ Items \in SUBSET Message /\ upFrames \subseteq Frame
      /\ tab.item[m] \in OutboxItem /\ tab.item[m].status \in {"failed", "unknown"} /\ m \in Items
  BY OutboxTypesSplit DEF OutboxInv, Items, Retry, Tab, Has
<1>2. /\ t \in Tab /\ t.item = tab.item /\ t.disk = tab.disk /\ t.run = tab.run
  BY <1>1 DEF Tab
<1>3. Held(t) /\ \A n \in Items : Has(t, n)
  BY <1>1, <1>2 DEF Held, Has, Items
<1>4. CASE t.item[m].maybe \/ t.item[m].status = "unknown"
  <2>1. PICK n \in Message : n = typedSoFar'
    BY <1>4, OutboxAssumption DEF Retry, OutboxInv, OutboxTypeOK, Message
  <2> DEFINE S == Persist(Put(t, n, NewItem))
             W == Persisted({[u EXCEPT !.item[m].waived = TRUE] : u \in S})
  <2>2. TickOn({[u EXCEPT !.run.hold = FALSE] : u \in W})
    BY <1>4, <2>1 DEF Retry, Put
  <2> HIDE DEF t
  <2>3. /\ Items \in SUBSET Message
        /\ NewItem \in OutboxItem /\ NewItem.status \notin {"inflight", "absent"}
    BY <1>1, NewItemIsItem
  <2>4. ASSUME NEW u \in S
        PROVE  /\ Good(u, Items) /\ u.item[n] = NewItem
               /\ \A k \in Message : k # n => u.item[k] = t.item[k]
    <3>1. /\ u \in Tab /\ Held(u) /\ Covered(u) /\ u.item[n] = NewItem
          /\ \A k \in Message : k # n => u.item[k] = t.item[k]
      BY <1>2, <1>3, <2>1, <2>3, PutItem
    <3> QED
      BY <1>3, <2>3, <3>1 DEF Good, Has
  <2>5. ASSUME NEW u \in S, NEW w \in Persist([u EXCEPT !.item[m].waived = TRUE])
        PROVE  Good(w, Items)
    <3> DEFINE i == [u.item[m] EXCEPT !.waived = TRUE]
    <3>1. /\ Good(u, Items) /\ u.item[n] = NewItem
          /\ \A k \in Message : k # n => u.item[k] = t.item[k]
      BY <2>4, <2>5
    <3>2. u \in Tab /\ Held(u) /\ (\A k \in Items : Has(u, k)) /\ u.item[m] \in OutboxItem
          /\ u.item[m].status \notin {"inflight", "absent"}
      BY <1>1, <1>2, <3>1, NewItemIsItem DEF Good, Tab
    <3>3. i \in OutboxItem /\ i.status \notin {"inflight", "absent"}
      BY <3>2 DEF OutboxItem
    <3>4. w \in Persist(Put(u, m, i))
      BY <2>5, <3>2 DEF Tab, Put
    <3> HIDE DEF i
    <3>5. Good(w, Items \cup {m})
      BY <1>1, <3>2, <3>3, <3>4, ItemIsGood
    <3> QED
      BY <3>5 DEF Good
  <2>6. \A w \in W : Good(w, Items)
    BY <2>5 DEF Persisted
  <2> HIDE DEF W
  <2>7. \A v \in {[u EXCEPT !.run.hold = FALSE] : u \in W} : Good(v, Items)
    BY <2>6, UnheldIsGood
  <2> QED
    BY <1>1, <2>2, <2>7, TickIsGood
<1>5. CASE ~(t.item[m].maybe \/ t.item[m].status = "unknown")
  <2> DEFINE S == Persist([t EXCEPT !.item[m] = [@ EXCEPT !.status = "queued", !.tries = 0,
                                                         !.backoff = FALSE]])
  <2>1. TickOn({[u EXCEPT !.run.hold = FALSE] : u \in S})
    BY <1>5 DEF Retry
  <2> HIDE DEF t
  <2>2. ASSUME NEW u \in S PROVE Good(u, Items)
    <3> DEFINE i == [t.item[m] EXCEPT !.status = "queued", !.tries = 0, !.backoff = FALSE]
    <3>1. i \in OutboxItem /\ i.status = "queued"
      <4>1. 0 \in 0..MaxAutoAttempts
        BY OutboxAssumption
      <4> QED
        BY <1>1, <1>2, <4>1 DEF OutboxItem
    <3>2. u \in Persist(Put(t, m, i))
      BY <2>2, Zenon DEF Put
    <3> HIDE DEF i
    <3>3. Good(u, Items \cup {m})
      BY <1>1, <1>2, <1>3, <3>1, <3>2, ItemIsGood
    <3> QED
      BY <3>3 DEF Good
  <2> HIDE DEF S
  <2>3. \A v \in {[u EXCEPT !.run.hold = FALSE] : u \in S} : Good(v, Items)
    BY <2>2, UnheldIsGood
  <2> QED
    BY <1>1, <2>1, <2>3, TickIsGood
<1> QED
  BY <1>4, <1>5

\* A new list of items and a new run state, persisted.
LEMMA PersistedChange ==
  ASSUME NEW t \in Tab, Held(t), NEW f \in [Message -> OutboxItem], NEW K \in SUBSET Message,
         \A m \in Message : f[m].status = "inflight" => f[m] = t.item[m],
         \A m \in K : f[m].status # "absent",
         NEW v \in Tab, v.item = f, v.disk = t.disk, NEW u \in Persist(v)
  PROVE  Good(u, K)
<1>1. Held(v) /\ \A m \in K : Has(v, m)
  BY ChangeIsHeld DEF Has
<1> QED
  BY <1>1, PersistIsGood

\* What the user gives up, and confirms.
LEMMA DropIsGood ==
  ASSUME OutboxInv, NEW m \in Message, Drop(m)
  PROVE  Good(tab', Items \ {m})
<1>1. tab \in Tab /\ Held(tab) /\ tab.item \in [Message -> OutboxItem]
  BY OutboxTypesSplit DEF OutboxInv, Tab
<1> DEFINE f == [tab.item EXCEPT ![m] = NoItem]
           v == [tab EXCEPT !.item[m] = NoItem]
<1>2. v \in Tab /\ v.item = f /\ v.disk = tab.disk
  BY <1>1, NewItemIsItem DEF Tab
<1>3. f \in [Message -> OutboxItem]
  BY <1>1, NewItemIsItem
<1>4. /\ \A n \in Message : f[n].status = "inflight" => f[n] = tab.item[n]
      /\ \A n \in Items \ {m} : f[n].status # "absent"
  BY <1>1 DEF Items, Has, NoItem
<1>5. tab' \in Persist(v) /\ Items \ {m} \in SUBSET Message
  BY DEF Drop, Items
<1> HIDE DEF f, v
<1> QED
  BY <1>1, <1>2, <1>3, <1>4, <1>5, PersistedChange

\* A user who lets a held queue go removes nothing.
LEMMA ConfirmIsGood ==
  ASSUME OutboxInv, ConfirmFlush
  PROVE  Good(tab', Items)
<1>1. tab \in Tab /\ Held(tab) /\ tab.item \in [Message -> OutboxItem]
  BY OutboxTypesSplit DEF OutboxInv, Tab
<1> DEFINE f == [m \in Message |-> IF tab.item[m].status = "unknown"
                                   THEN [tab.item[m] EXCEPT !.waived = TRUE] ELSE tab.item[m]]
           v == [tab EXCEPT !.run.hold = FALSE, !.item = f]
<1>2. \A i \in OutboxItem : /\ [i EXCEPT !.waived = TRUE] \in OutboxItem
                            /\ [i EXCEPT !.waived = TRUE].status = i.status
  BY DEF OutboxItem
<1>3. f \in [Message -> OutboxItem]
  BY <1>1, <1>2
<1>4. /\ \A n \in Message : f[n].status = "inflight" => f[n] = tab.item[n]
      /\ \A n \in Items : f[n].status # "absent"
  BY <1>1, <1>2 DEF Items, Has
<1>5. tab' \in Persist(v) /\ Items \in SUBSET Message
  BY DEF ConfirmFlush, Items
<1> HIDE DEF f
<1>6. v \in Tab /\ v.item = f /\ v.disk = tab.disk
  BY <1>1, <1>3 DEF Tab, RunState
<1> HIDE DEF v
<1> QED
  BY <1>1, <1>3, <1>4, <1>5, <1>6, PersistedChange

\* What a reload finds is on the disk, and settled.
LEMMA ReloadIsGood ==
  ASSUME OutboxInv, Reload
  PROVE  /\ Good(tab', IF tab.memoryOnly THEN {} ELSE Items)
         /\ upFrames' \subseteq Frame
<1>1. /\ tab \in Tab /\ Held(tab) /\ Covered(tab) /\ tab.disk \in [Message -> OutboxItem]
      /\ upFrames \subseteq Frame
  BY OutboxTypesSplit DEF OutboxInv, Tab
<1> DEFINE v == [tab EXCEPT !.item = tab.disk, !.memoryOnly = FALSE, !.run = IdleRun]
           K == IF tab.memoryOnly THEN {} ELSE Items
<1>2. v \in Tab /\ v.item = tab.disk /\ v.disk = tab.disk
  BY <1>1 DEF Tab, RunState, IdleRun
<1>3. /\ \A n \in Message : tab.disk[n].status = "inflight" => tab.disk[n] = tab.item[n]
      /\ \A n \in K : tab.disk[n].status # "absent"
  BY <1>1 DEF Held, Covered, Items, Has
<1>4. tab' \in Persist(v) /\ K \in SUBSET Message
  BY DEF Reload, Items
<1>5. upFrames' \subseteq Frame
  BY <1>1 DEF Reload, Unheard, Frame
<1> HIDE DEF v, K
<1>6. Good(tab', K)
  BY <1>1, <1>2, <1>3, <1>4, PersistedChange
<1> QED
  BY <1>5, <1>6 DEF K

\* The socket closes: nothing is in flight.
LEMMA CloseIsGood ==
  ASSUME OutboxInv, SocketCloses
  PROVE  Good(tab', Items) /\ upFrames' \subseteq Frame
<1>1. /\ tab \in Tab /\ Held(tab) /\ tab.item \in [Message -> OutboxItem]
      /\ upFrames \subseteq Frame
  BY OutboxTypesSplit DEF OutboxInv, Tab
<1> DEFINE f == [m \in Message |->
                  CASE tab.item[m].status = "inflight" -> [tab.item[m] EXCEPT !.status = "queued",
                                                                            !.backoff = FALSE]
                    [] tab.item[m].status = "acked" -> [tab.item[m] EXCEPT !.awaiting = TRUE]
                    [] OTHER -> tab.item[m]]
           q == SocketLost(tab.run)
           v == [tab EXCEPT !.run = q, !.item = f]
<1>2. \A i \in OutboxItem : /\ [i EXCEPT !.awaiting = TRUE] \in OutboxItem
                            /\ [i EXCEPT !.awaiting = TRUE].status = i.status
  BY DEF OutboxItem
<1>3. ASSUME NEW m \in Message
      PROVE  /\ f[m] \in OutboxItem /\ f[m].status # "inflight"
             /\ tab.item[m].status # "absent" => f[m].status # "absent"
  <2>1. tab.item[m] \in OutboxItem
    BY <1>1
  <2>2. CASE tab.item[m].status = "inflight"
    <3>1. f[m] = [tab.item[m] EXCEPT !.status = "queued", !.backoff = FALSE]
      BY <2>2
    <3> HIDE DEF f
    <3>2. f[m] \in OutboxItem /\ f[m].status = "queued"
      BY <2>1, <3>1 DEF OutboxItem
    <3> QED
      BY <3>2
  <2>3. CASE tab.item[m].status = "acked"
    <3>1. f[m] = [tab.item[m] EXCEPT !.awaiting = TRUE]
      BY <2>3
    <3> HIDE DEF f
    <3> QED
      BY <1>2, <2>1, <2>3, <3>1
  <2>4. CASE tab.item[m].status \notin {"inflight", "acked"}
    <3>1. f[m] = tab.item[m]
      BY <2>4
    <3> HIDE DEF f
    <3> QED
      BY <2>1, <2>4, <3>1
  <2> QED
    BY <2>2, <2>3, <2>4
<1>4. f \in [Message -> OutboxItem]
  BY <1>3
<1>5. /\ \A n \in Message : f[n].status = "inflight" => f[n] = tab.item[n]
      /\ \A n \in Items : f[n].status # "absent"
  <2> HIDE DEF f
  <2> QED
    BY <1>3 DEF Items, Has
<1>6. q \in RunState
  BY <1>1 DEF Tab, RunState, SocketLost, ToIdle, IdleRun
<1>7. tab' \in Persist(v) /\ Items \in SUBSET Message
  BY DEF SocketCloses, Items
<1> HIDE DEF f, q
<1>8. v \in Tab /\ v.item = f /\ v.disk = tab.disk
  BY <1>1, <1>4, <1>6 DEF Tab
<1>9. upFrames' \subseteq Frame
  BY <1>1 DEF SocketCloses, Unheard, Frame
<1> HIDE DEF v
<1> QED
  BY <1>1, <1>4, <1>5, <1>7, <1>8, <1>9, PersistedChange

\* The socket is ready: the run state names what goes on.
LEMMA ReadyIsGood ==
  ASSUME OutboxInv, SocketReady
  PROVE  Good(tab', Items) /\ upFrames' \subseteq Frame
<1>1. tab \in Tab /\ Good(tab, Items) /\ Items \in SUBSET Message /\ upFrames \subseteq Frame
  BY OutboxTypesSplit, TabIsGood DEF OutboxInv, Items
<1> DEFINE runs == {m \in Message : bridge[m] = "running"}
           c == CHOOSE m \in runs : TRUE
           q == IF runs # {}
                THEN [tab.run EXCEPT !.phase = "running", !.runOf = c]
                ELSE IF tab.run.phase = "interruptedLocal" THEN ToIdle(tab.run) ELSE tab.run
<1>2. runs # {} => c \in Message
  OBVIOUS
<1>3. TickOn({[tab EXCEPT !.run = q]})
  BY DEF SocketReady
<1> HIDE DEF c, runs
<1>4. q \in RunState
  BY <1>1, <1>2 DEF Tab, RunState, ToIdle, IdleRun
<1> HIDE DEF q
<1>5. \A u \in {[tab EXCEPT !.run = q]} : Good(u, Items)
  BY <1>1, <1>4, RunIsGood
<1> QED
  BY <1>1, <1>3, <1>5, TickIsGood

\* A history confirms items by rows of their text.
LEMMA HistoryIsGood ==
  ASSUME OutboxInv, HistoryArrives
  PROVE  \E c \in SUBSET Message :
           /\ Good(tab', Items \ c)
           /\ \A m \in c : \E n \in Message : taken[n] > 0 /\ TextOf[m] = TextOf[n]
<1>1. tab \in Tab /\ Held(tab) /\ tab.item \in [Message -> OutboxItem]
  BY OutboxTypesSplit DEF OutboxInv, Tab
<1>2. PICK c \in SUBSET Message :
        \E row \in [c -> Message] :
          /\ \A m \in c : Confirms(m, row[m]) /\ \A n \in c : row[m] = row[n] => m = n
          /\ tab' \in Persist(ReleaseAwaiting([tab EXCEPT !.item = [m \in Message |->
                                IF m \in c THEN NoItem ELSE tab.item[m]]], "queued"))
  BY DEF HistoryArrives
<1> DEFINE f == [m \in Message |-> IF m \in c THEN NoItem ELSE tab.item[m]]
           w == [tab EXCEPT !.item = f]
           v == ReleaseAwaiting(w, "queued")
<1>3. f \in [Message -> OutboxItem]
  BY <1>1, NewItemIsItem
<1>4. w \in Tab /\ w.item = f /\ w.disk = tab.disk
  BY <1>1, <1>3 DEF Tab
<1>5. /\ \A n \in Message : f[n].status = "inflight" => f[n] = tab.item[n]
      /\ \A n \in Items \ c : f[n].status # "absent"
  BY DEF Items, Has, NoItem
<1>6. tab' \in Persist(v)
  BY <1>2
<1> HIDE DEF f, w
<1>7. Held(w) /\ \A m \in Items \ c : Has(w, m)
  BY <1>1, <1>4, <1>5, ChangeIsHeld DEF Has, Items
<1>8. v \in Tab /\ Held(v) /\ \A m \in Items \ c : Has(v, m)
  BY <1>4, <1>7, ReleasedIsGood DEF Items
<1> HIDE DEF v
<1>9. Good(tab', Items \ c)
  BY <1>6, <1>8, PersistIsGood DEF Items
<1>10. \A m \in c : \E n \in Message : taken[n] > 0 /\ TextOf[m] = TextOf[n]
  BY <1>2 DEF Confirms
<1> QED
  BY <1>2, <1>9, <1>10

\* A history that cannot be read removes nothing.
LEMMA NoHistoryIsGood ==
  ASSUME OutboxInv, HistoryFails
  PROVE  Good(tab', Items)
<1> DEFINE v == ReleaseAwaiting(tab, "unknown")
<1>1. tab \in Tab /\ Held(tab)
  BY OutboxTypesSplit DEF OutboxInv
<1>2. v \in Tab /\ Held(v) /\ \A m \in Items : Has(v, m)
  BY <1>1, ReleasedIsGood DEF Items
<1>3. tab' \in Persist(v) /\ Items \in SUBSET Message
  BY DEF HistoryFails, Items
<1> HIDE DEF v
<1> QED
  BY <1>2, <1>3, PersistIsGood

\* The reducer.
LEMMA RunStates ==
  ASSUME NEW r \in RunState, NEW m \in Message
  PROVE  /\ RunStarted(r, m) \in RunState
         /\ \A why \in Reply : RunDone(r, m, why) \in RunState
         /\ \A unknown \in BOOLEAN : SendFailed(r, m, unknown) \in RunState
  BY DEF RunState, RunStarted, RunDone, SendFailed, ToIdle, IdleRun

\* A failed send leaves its item, out of flight.
LEMMA FailedItem ==
  ASSUME NEW t \in Tab, NEW m \in Message, NEW why \in Reply
  PROVE  \E j \in OutboxItem : /\ MarkFailed(t, m, why) = [t EXCEPT !.item[m] = j]
                               /\ j.status \in {"unknown", "queued", "failed"}
<1> DEFINE i == [t.item[m] EXCEPT !.maybe = @ /\ why = "unknown"]
           j == CASE why = "unknown" -> [i EXCEPT !.status = "unknown"]
                  [] why = "busy" -> [i EXCEPT !.status = "queued", !.backoff = TRUE,
                                               !.tries = IF @ = 0 THEN 0 ELSE @ - 1]
                  [] why = "refused" /\ i.tries < MaxAutoAttempts ->
                       [i EXCEPT !.status = "queued", !.backoff = TRUE]
                  [] OTHER -> [i EXCEPT !.status = "failed"]
<1>1. i \in OutboxItem
  <2>1. t.item[m] \in OutboxItem
    BY DEF Tab
  <2>2. PICK b \in BOOLEAN : b = (t.item[m].maybe /\ why = "unknown")
    OBVIOUS
  <2>3. i = [t.item[m] EXCEPT !.maybe = b]
    BY <2>2
  <2> HIDE DEF i
  <2> QED
    BY <2>1, <2>2, <2>3 DEF OutboxItem
<1>2. MarkFailed(t, m, why) = [t EXCEPT !.item[m] = j]
  BY DEF MarkFailed
<1> HIDE DEF i
<1>3. CASE why = "unknown"
  <2>1. j = [i EXCEPT !.status = "unknown"]
    BY <1>3
  <2> HIDE DEF j
  <2>2. j \in OutboxItem /\ j.status = "unknown"
    BY <1>1, <2>1 DEF OutboxItem
  <2> QED
    BY <1>2, <2>2
<1>4. CASE why = "busy"
  <2> DEFINE k == IF i.tries = 0 THEN 0 ELSE i.tries - 1
  <2>1. j = [i EXCEPT !.status = "queued", !.backoff = TRUE, !.tries = k]
    BY <1>4
  <2>2. k \in 0..MaxAutoAttempts
    <3>1. i.tries \in 0..MaxAutoAttempts /\ MaxAutoAttempts \in Nat
      BY <1>1, OutboxAssumption DEF OutboxItem
    <3> QED
      BY <3>1
  <2> HIDE DEF k, j
  <2>3. j \in OutboxItem /\ j.status = "queued"
    BY <1>1, <2>1, <2>2 DEF OutboxItem
  <2> QED
    BY <1>2, <2>3
<1>5. CASE why = "refused" /\ i.tries < MaxAutoAttempts
  <2>1. j = [i EXCEPT !.status = "queued", !.backoff = TRUE]
    BY <1>5
  <2> HIDE DEF j
  <2>2. j \in OutboxItem /\ j.status = "queued"
    BY <1>1, <2>1 DEF OutboxItem
  <2> QED
    BY <1>2, <2>2
<1>6. CASE why \notin {"unknown", "busy"} /\ ~(why = "refused" /\ i.tries < MaxAutoAttempts)
  <2>1. j = [i EXCEPT !.status = "failed"]
    BY <1>6
  <2> HIDE DEF j
  <2>2. j \in OutboxItem /\ j.status = "failed"
    BY <1>1, <2>1 DEF OutboxItem
  <2> QED
    BY <1>2, <2>2
<1> QED
  BY <1>3, <1>4, <1>5, <1>6

\* The head and the tail of a sequence over a set.
LEMMA HeadOf ==
  ASSUME NEW R, NEW s \in Seq(R), s # <<>>
  PROVE  Head(s) \in R /\ Tail(s) \in Seq(R)
  OBVIOUS

\* A frame of the bridge.
LEMMA ReceivedIsGood ==
  ASSUME OutboxInv, FrameReceived
  PROVE  Good(tab', Items)
<1> DEFINE m == Head(downFrames).msg
           what == Head(downFrames).what
<1>1. /\ tab \in Tab /\ Held(tab) /\ Good(tab, Items) /\ Items \in SUBSET Message
      /\ tab.run \in RunState /\ tab.item \in [Message -> OutboxItem]
      /\ \A n \in Items : Has(tab, n)
  BY OutboxTypesSplit, TabIsGood DEF OutboxInv, Tab, Items
<1>2. m \in Message /\ what \in Reply
  <2>1. Head(downFrames) \in [msg : Message, what : Reply]
    <3>1. downFrames \in Seq([msg : Message, what : Reply]) /\ downFrames # <<>>
      BY OutboxTypesSplit DEF OutboxInv, RestTypeOK, FrameReceived
    <3> QED
      BY <3>1, HeadOf
  <2> QED
    BY <2>1
<1>3. CASE what = "ack"
  <2>1. tab' \in IF Has(tab, m)
                 THEN Persist([tab EXCEPT !.item[m].status = "acked", !.item[m].sent = TRUE])
                 ELSE {tab}
    BY <1>3 DEF FrameReceived
  <2>2. CASE Has(tab, m)
    <3> DEFINE i == [tab.item[m] EXCEPT !.status = "acked", !.sent = TRUE]
    <3>1. i \in OutboxItem /\ i.status = "acked"
      BY <1>1, <1>2 DEF OutboxItem
    <3>2. [tab EXCEPT !.item[m].status = "acked", !.item[m].sent = TRUE] = Put(tab, m, i)
      BY <1>1, <1>2 DEF Tab, Put
    <3> HIDE DEF i, m
    <3>3. tab' \in Persist(Put(tab, m, i))
      BY <2>1, <2>2, <3>2
    <3>4. Good(tab', Items \cup {m})
      BY <1>1, <1>2, <3>1, <3>3, ItemIsGood
    <3> QED
      BY <3>4 DEF Good
  <2> QED
    BY <1>1, <2>1, <2>2
<1>4. CASE what = "started"
  <2>1. tab' = [tab EXCEPT !.run = RunStarted(tab.run, m)]
    BY <1>4 DEF FrameReceived
  <2> HIDE DEF m
  <2> QED
    BY <1>1, <1>2, <2>1, RunStates, RunIsGood
<1>5. CASE what \in {"complete", "interrupted"}
  <2>1. tab' = [tab EXCEPT !.run = RunDone(tab.run, m, what)]
    BY <1>5 DEF FrameReceived
  <2> HIDE DEF m, what
  <2> QED
    BY <1>1, <1>2, <2>1, RunStates, RunIsGood
<1>6. CASE what \notin {"ack", "started", "complete", "interrupted"}
  <2>1. tab' \in IF Has(tab, m)
                 THEN Persist([MarkFailed(tab, m, what) EXCEPT
                                 !.run = SendFailed(@, m, what = "unknown")])
                 ELSE {[tab EXCEPT !.run = SendFailed(@, m, what = "unknown")]}
    BY <1>6 DEF FrameReceived
  <2> HIDE DEF m, what
  <2>2. CASE ~Has(tab, m)
    <3> DEFINE q == SendFailed(tab.run, m, what = "unknown")
    <3>1. tab' = [tab EXCEPT !.run = q]
      BY <2>1, <2>2
    <3>2. q \in RunState
      BY <1>1, <1>2, RunStates
    <3> HIDE DEF q
    <3> QED
      BY <1>1, <3>1, <3>2, RunIsGood
  <2>3. CASE Has(tab, m)
    <3>1. PICK j \in OutboxItem : /\ MarkFailed(tab, m, what) = [tab EXCEPT !.item[m] = j]
                                  /\ j.status \in {"unknown", "queued", "failed"}
      BY <1>1, <1>2, FailedItem
    <3> DEFINE f == [tab.item EXCEPT ![m] = j]
               w == [tab EXCEPT !.item[m] = j]
               q == SendFailed(w.run, m, what = "unknown")
               v == [w EXCEPT !.run = q]
    <3>2. w \in Tab /\ w.item = f /\ w.disk = tab.disk /\ w.run = tab.run
      BY <1>1, <1>2 DEF Tab
    <3>3. f \in [Message -> OutboxItem]
      BY <1>1
    <3>4. /\ \A n \in Message : f[n].status = "inflight" => f[n] = tab.item[n]
          /\ \A n \in Items : f[n].status # "absent"
      BY <1>1, <3>1 DEF Has
    <3>5. tab' \in Persist(v)
      BY <2>1, <2>3, <3>1
    <3> HIDE DEF f, w
    <3>6. q \in RunState
      BY <1>1, <1>2, <3>2, RunStates
    <3> HIDE DEF q
    <3>7. v \in Tab /\ v.item = f /\ v.disk = tab.disk
      BY <3>2, <3>6, WithRun
    <3> HIDE DEF v
    <3> QED
      BY <1>1, <3>3, <3>4, <3>5, <3>7, PersistedChange
  <2> QED
    BY <2>2, <2>3
<1> QED
  BY <1>3, <1>4, <1>5, <1>6

\* The frames to the browser.
Answer == [msg : Message, what : Reply]

\* What the bridge replies are answers.
LEMMA RepliesAreAnswers ==
  ASSUME NEW m \in Message, NEW whats \in Seq(Reply)
  PROVE  Replies(m, whats) \in Seq(Answer)
<1>1. \A k \in 1..Len(whats) : [msg |-> m, what |-> whats[k]] \in Answer
  BY DEF Answer
<1>2. Len(whats) \in Nat
  OBVIOUS
<1> QED
  BY <1>1, <1>2 DEF Replies

\* Two sequences over a set make a sequence over it.
LEMMA Concatenated == ASSUME NEW R, NEW s \in Seq(R), NEW t \in Seq(R) PROVE s \o t \in Seq(R)
  OBVIOUS

\* An answered frame leaves the socket, the answers keep their type.
LEMMA AnsweredFrames ==
  ASSUME NEW f \in Frame, NEW whats \in Seq(Reply), downFrames \in Seq(Answer),
         AnswerFrame(f, whats)
  PROVE  downFrames' \in Seq(Answer)
<1>1. f.msg \in Message
  BY DEF Frame
<1>2. Replies(f.msg, whats) \in Seq(Answer)
  BY <1>1, RepliesAreAnswers
<1>3. downFrames' \in {downFrames, downFrames \o Replies(f.msg, whats)}
  BY DEF AnswerFrame
<1>4. downFrames \o Replies(f.msg, whats) \in Seq(Answer)
  BY <1>2, Concatenated
<1> QED
  BY <1>3, <1>4

\* Who watches a record gets answers.
LEMMA ToldWatchers ==
  ASSUME NEW m \in Message, NEW what \in Reply, downFrames \in Seq(Answer), TellWatchers(m, what)
  PROVE  downFrames' \in Seq(Answer)
<1>1. [msg |-> m, what |-> what] \in Answer
  BY DEF Answer
<1>2. PICK a \in Answer : a = [msg |-> m, what |-> what]
  BY <1>1
<1>3. downFrames' \in {downFrames, Append(downFrames, a)}
  BY <1>2 DEF TellWatchers
<1> QED
  BY <1>2, <1>3

\* The page's steps, and what they keep outside it.
LEMMA PageKeepsRest ==
  ASSUME RestTypeOK,
         \/ Type \/ ConfirmFlush \/ Reload \/ FlushTick \/ SocketCloses \/ SocketReady
         \/ HistoryArrives \/ HistoryFails \/ FrameReceived
         \/ \E m \in Message : Retry(m) \/ Drop(m)
  PROVE  RestTypeOK'
<1> USE OutboxAssumption DEF RestTypeOK, bridgeVars, userVars
<1>1. CASE Type
  BY <1>1 DEF Type
<1>2. CASE ConfirmFlush \/ FlushTick \/ HistoryArrives \/ HistoryFails
  BY <1>2 DEF ConfirmFlush, FlushTick, HistoryArrives, HistoryFails
<1>3. CASE Reload \/ SocketCloses
  <2>1. <<>> \in Seq([msg : Message, what : Reply])
    OBVIOUS
  <2> QED
    BY <1>3, <2>1 DEF Reload, SocketCloses
<1>4. CASE SocketReady
  BY <1>4 DEF SocketReady
<1>5. CASE FrameReceived
  <2>1. downFrames' \in Seq([msg : Message, what : Reply])
    BY <1>5, HeadOf DEF FrameReceived
  <2> QED
    BY <1>5, <2>1 DEF FrameReceived
<1>6. ASSUME NEW m \in Message, Retry(m) PROVE RestTypeOK'
  <2>1. typedSoFar' = typedSoFar \/ (typedSoFar < Typed /\ typedSoFar' = typedSoFar + 1)
    BY <1>6, Zenon DEF Retry
  <2>2. /\ UNCHANGED <<socket, downFrames, bridge, watching, taken, dropped>>
        /\ restored' \subseteq restored
    BY <1>6 DEF Retry
  <2> QED
    BY <2>1, <2>2
<1>7. ASSUME NEW m \in Message, Drop(m) PROVE RestTypeOK'
  BY <1>7 DEF Drop
<1> QED
  BY <1>1, <1>2, <1>3, <1>4, <1>5, <1>6, <1>7

\* The bridge's steps.
BridgeStep ==
  \/ \E m \in Message : GatewayTakes(m) \/ GatewayRefuses(m) \/ SendUnanswered(m) \/ RunFinishes(m)
  \/ \E f \in upFrames : FrameHandled(f) \/ FrameLost(f)
  \/ BridgeRestarts

\* A handled answer leaves the bridge alone, and the rest with its type.
LEMMA HandledKeepsRest ==
  ASSUME RestTypeOK, upFrames \subseteq Frame, NEW f \in upFrames, FrameHandled(f)
  PROVE  RestTypeOK'
<1>1. /\ f \in Frame /\ f.msg \in Message /\ downFrames \in Seq(Answer)
      /\ UNCHANGED <<typedSoFar, socket, taken, dropped, restored>>
  BY DEF Frame, RestTypeOK, Answer, FrameHandled, userVars
<1>2. /\ <<"ack">> \in Seq(Reply) /\ <<"ack", "started">> \in Seq(Reply)
      /\ <<"unknown">> \in Seq(Reply) /\ <<"busy">> \in Seq(Reply) /\ <<"refused">> \in Seq(Reply)
      /\ <<"ack", "complete">> \in Seq(Reply) /\ <<"ack", "interrupted">> \in Seq(Reply)
      /\ <<"ack", "unknown">> \in Seq(Reply)
  BY DEF Reply
<1>3. bridge[f.msg] \in {"done", "interrupted", "unknown"} => Replay(f.msg) \in Seq(Reply)
  BY <1>2 DEF Replay
<1>4. \E whats \in Seq(Reply) : AnswerFrame(f, whats)
  BY <1>2, <1>3 DEF FrameHandled
<1>5. downFrames' \in Seq(Answer)
  BY <1>1, <1>4, AnsweredFrames
<1>6. watching' \subseteq Message
  BY <1>1 DEF FrameHandled, RestTypeOK
<1>7. bridge' \in {bridge, [bridge EXCEPT ![f.msg] = "pending"]}
  BY DEF FrameHandled
<1> QED
  BY <1>1, <1>5, <1>6, <1>7 DEF RestTypeOK, Answer

\* The steps of the bridge keep the types and do not touch the tab.
LEMMA BridgeKeepsTypes ==
  ASSUME RestTypeOK, upFrames \subseteq Frame, BridgeStep
  PROVE  RestTypeOK' /\ upFrames' \subseteq Frame /\ tab' = tab
<1>1. ASSUME NEW f \in upFrames, FrameHandled(f)
      PROVE  RestTypeOK' /\ upFrames' \subseteq Frame /\ tab' = tab
  BY <1>1, HandledKeepsRest DEF FrameHandled
<1>2. ASSUME NEW f \in upFrames, FrameLost(f)
      PROVE  RestTypeOK' /\ upFrames' \subseteq Frame /\ tab' = tab
  BY <1>2 DEF FrameLost, RestTypeOK, bridgeVars, userVars
<1>3. ASSUME NEW m \in Message,
             GatewayTakes(m) \/ GatewayRefuses(m) \/ SendUnanswered(m) \/ RunFinishes(m)
      PROVE  RestTypeOK' /\ upFrames' \subseteq Frame /\ tab' = tab
  <2>1. downFrames \in Seq(Answer)
    BY DEF RestTypeOK, Answer
  <2>2. /\ "started" \in Reply /\ "refused" \in Reply /\ "final" \in Reply /\ "unknown" \in Reply
        /\ "complete" \in Reply /\ "interrupted" \in Reply
    BY DEF Reply
  <2>3. \E what \in Reply : TellWatchers(m, what)
    BY <1>3, <2>2 DEF GatewayTakes, GatewayRefuses, SendUnanswered, RunFinishes
  <2>4. downFrames' \in Seq(Answer)
    BY <2>1, <2>3, ToldWatchers
  <2>5. /\ tab' = tab /\ upFrames' = upFrames /\ watching' \subseteq watching
        /\ UNCHANGED <<typedSoFar, socket, dropped, restored>>
        /\ taken' \in {taken, [taken EXCEPT ![m] = @ + 1]}
        /\ \E b \in {"running", "rejected", "unknown", "done", "interrupted"} :
             bridge' = [bridge EXCEPT ![m] = b]
    BY <1>3 DEF GatewayTakes, GatewayRefuses, SendUnanswered, RunFinishes, userVars
  <2> QED
    BY <2>4, <2>5 DEF RestTypeOK, Answer
<1>4. CASE BridgeRestarts
  <2>1. taken' \in [Message -> Nat]
    BY <1>4 DEF BridgeRestarts, RestTypeOK
  <2>2. bridge' \in [Message -> {"none", "pending", "running", "done", "interrupted",
                                 "rejected", "unknown"}]
    BY <1>4 DEF BridgeRestarts, RestTypeOK
  <2> QED
    BY <1>4, <2>1, <2>2 DEF BridgeRestarts, RestTypeOK, userVars
<1> QED
  BY <1>1, <1>2, <1>3, <1>4 DEF BridgeStep

\* Every step of the page leaves a sound tab, with every item that nothing answers for.
LEMMA PageIsGood ==
  ASSUME OutboxInv,
         \/ Type \/ ConfirmFlush \/ Reload \/ FlushTick \/ SocketCloses \/ SocketReady
         \/ HistoryArrives \/ HistoryFails \/ FrameReceived
         \/ \E m \in Message : Retry(m) \/ Drop(m)
  PROVE  /\ tab' \in Tab /\ Held(tab') /\ Covered(tab') /\ upFrames' \subseteq Frame
         /\ \A m \in Items : Has(tab', m) \/ AnsweredFor(m)
<1>1. upFrames \subseteq Frame /\ Good(tab, Items) /\ Items \in SUBSET Message
  BY OutboxTypesSplit, TabIsGood DEF OutboxInv, Items
<1>2. ASSUME NEW K \in SUBSET Message, Good(tab', K), upFrames' \subseteq Frame,
             \A m \in Items \ K : AnsweredFor(m)
      PROVE  /\ tab' \in Tab /\ Held(tab') /\ Covered(tab') /\ upFrames' \subseteq Frame
             /\ \A m \in Items : Has(tab', m) \/ AnsweredFor(m)
  BY <1>2 DEF Good
<1>3. CASE Type
  BY <1>1, <1>2, <1>3, TypeIsGood
<1>4. CASE ConfirmFlush
  BY <1>1, <1>2, <1>4, ConfirmIsGood DEF ConfirmFlush
<1>5. CASE Reload
  BY <1>1, <1>2, <1>5, ReloadIsGood DEF AnsweredFor
<1>6. CASE FlushTick
  <2>1. TickOn({tab})
    BY <1>6 DEF FlushTick
  <2>2. Good(tab', Items) /\ upFrames' \subseteq Frame
    BY <1>1, <2>1, TickIsGood
  <2> QED
    BY <1>1, <1>2, <2>2
<1>7. CASE SocketCloses
  BY <1>1, <1>2, <1>7, CloseIsGood
<1>8. CASE SocketReady
  BY <1>1, <1>2, <1>8, ReadyIsGood
<1>9. CASE HistoryArrives
  <2>1. PICK c \in SUBSET Message :
          /\ Good(tab', Items \ c)
          /\ \A m \in c : \E n \in Message : taken[n] > 0 /\ TextOf[m] = TextOf[n]
    BY <1>9, HistoryIsGood
  <2>2. upFrames' = upFrames /\ Items \ c \in SUBSET Message
    BY <1>1, <1>9 DEF HistoryArrives
  <2>3. \A m \in Items \ (Items \ c) : AnsweredFor(m)
    BY <2>1 DEF AnsweredFor
  <2> QED
    BY <1>1, <1>2, <2>1, <2>2, <2>3
<1>10. CASE HistoryFails
  BY <1>1, <1>2, <1>10, NoHistoryIsGood DEF HistoryFails
<1>11. CASE FrameReceived
  BY <1>1, <1>2, <1>11, ReceivedIsGood DEF FrameReceived
<1>12. ASSUME NEW m \in Message, Retry(m)
       PROVE  /\ tab' \in Tab /\ Held(tab') /\ Covered(tab') /\ upFrames' \subseteq Frame
              /\ \A n \in Items : Has(tab', n) \/ AnsweredFor(n)
  BY <1>1, <1>2, <1>12, RetryIsGood
<1>13. ASSUME NEW m \in Message, Drop(m)
       PROVE  /\ tab' \in Tab /\ Held(tab') /\ Covered(tab') /\ upFrames' \subseteq Frame
              /\ \A n \in Items : Has(tab', n) \/ AnsweredFor(n)
  <2>1. Good(tab', Items \ {m}) /\ Items \ {m} \in SUBSET Message
    BY <1>1, <1>13, DropIsGood
  <2>2. upFrames' = upFrames /\ \A n \in Items \ (Items \ {m}) : AnsweredFor(n)
    BY <1>13 DEF Drop, AnsweredFor
  <2> QED
    BY <1>1, <1>2, <2>1, <2>2
<1> QED
  BY <1>3, <1>4, <1>5, <1>6, <1>7, <1>8, <1>9, <1>10, <1>11, <1>12, <1>13

\* Every step keeps the invariant, and every item that nothing answers for.
LEMMA StepOutbox ==
  ASSUME OutboxInv, [OutboxNext]_outboxVars
  PROVE  OutboxInv' /\ \A m \in Message : Has(tab, m) /\ ~Has(tab', m) => AnsweredFor(m)
<1>1. tab \in Tab /\ upFrames \subseteq Frame /\ RestTypeOK /\ Held(tab) /\ Covered(tab)
  BY OutboxTypesSplit DEF OutboxInv
<1>2. OutboxTypeOK' <=> tab' \in Tab /\ upFrames' \subseteq Frame /\ RestTypeOK'
  BY DEF OutboxTypeOK, RestTypeOK, Tab, RunState
<1>3. CASE UNCHANGED outboxVars
  <2>1. tab' = tab /\ upFrames' = upFrames
    BY <1>3 DEF outboxVars
  <2>2. RestTypeOK'
    BY <1>1, <1>3 DEF outboxVars, bridgeVars, userVars, RestTypeOK
  <2>3. Held(tab') /\ Covered(tab')
    BY <1>1, <2>1
  <2> QED
    BY <1>1, <1>2, <2>1, <2>2, <2>3 DEF OutboxInv
<1>4. CASE BridgeStep
  <2>1. RestTypeOK' /\ upFrames' \subseteq Frame /\ tab' = tab
    BY <1>1, <1>4, BridgeKeepsTypes
  <2>2. Held(tab') /\ Covered(tab')
    BY <1>1, <2>1
  <2> QED
    BY <1>1, <1>2, <2>1, <2>2 DEF OutboxInv
<1>5. CASE \/ Type \/ ConfirmFlush \/ Reload \/ FlushTick \/ SocketCloses \/ SocketReady
           \/ HistoryArrives \/ HistoryFails \/ FrameReceived
           \/ \E m \in Message : Retry(m) \/ Drop(m)
  <2>1. /\ tab' \in Tab /\ Held(tab') /\ Covered(tab') /\ upFrames' \subseteq Frame
        /\ \A m \in Items : Has(tab', m) \/ AnsweredFor(m)
    BY <1>5, PageIsGood
  <2>2. RestTypeOK'
    BY <1>1, <1>5, PageKeepsRest
  <2> QED
    BY <1>2, <2>1, <2>2 DEF OutboxInv, Items
<1> QED
  BY <1>3, <1>4, <1>5 DEF OutboxNext, BridgeStep

\* Nothing was typed at first.
LEMMA InitOutboxInv == OutboxInit => OutboxInv
<1> SUFFICES ASSUME OutboxInit PROVE OutboxInv
  OBVIOUS
<1>1. EmptyBox \in [Message -> OutboxItem] /\ \A m \in Message : EmptyBox[m].status = "absent"
  BY NewItemIsItem DEF EmptyBox, NoItem
<1>2. IdleRun \in RunState
  BY DEF IdleRun, RunState
<1>3. /\ tab \in Tab /\ tab.item = EmptyBox /\ tab.disk = EmptyBox
  BY <1>1, <1>2 DEF OutboxInit, Tab
<1>4. Held(tab) /\ Covered(tab)
  BY <1>1, <1>3 DEF Held, Covered, Has
<1>5. RestTypeOK
  <2>1. downFrames \in Seq(Answer)
    BY DEF OutboxInit
  <2>2. typedSoFar \in 0..Typed
    BY OutboxAssumption DEF OutboxInit
  <2> QED
    BY <2>1, <2>2 DEF OutboxInit, RestTypeOK, Answer
<1>6. upFrames \subseteq Frame
  BY DEF OutboxInit
<1> QED
  BY <1>3, <1>4, <1>5, <1>6, OutboxTypesSplit DEF OutboxInv

\* The strengthened invariant of the page holds throughout.
THEOREM OutboxInvariant == OutboxSpec => []OutboxInv
<1>1. OutboxInv /\ [OutboxNext]_outboxVars => OutboxInv'
  BY StepOutbox
<1> QED
  BY <1>1, InitOutboxInv, PTL DEF OutboxSpec

\* Every variable of the page and of the bridge keeps its type.
THEOREM OutboxTypes == OutboxSpec => []OutboxTypeOK
<1>1. OutboxInv => OutboxTypeOK
  BY DEF OutboxInv
<1> QED
  BY <1>1, OutboxInvariant, PTL

\* A send in flight is marked on the disk, so a reload knows that it may have been sent.
THEOREM InflightStaysMarked == OutboxSpec => []InflightIsMarked
<1>1. OutboxInv => InflightIsMarked
  BY DEF OutboxInv, Held, InflightIsMarked
<1> QED
  BY <1>1, OutboxInvariant, PTL

\* Whatever the texts, neither a flush, a reload, a lost connection nor a late answer
\* removes a message the gateway has no text of, unless the user drops it or the storage
\* failed.
THEOREM TextsAreTaken == OutboxSpec => TextIsTaken
<1>1. OutboxInv /\ [OutboxNext]_outboxVars =>
        [\A m \in Message : Has(tab, m) /\ ~Has(tab', m) => AnsweredFor(m)]_outboxVars
  BY StepOutbox
<1> QED
  BY <1>1, OutboxInvariant, PTL DEF OutboxSpec, TextIsTaken

-----------------------------------------------------------------------------
(* No send holds the queue without an answer on its way. *)

\* Something comes that ends the wait for m: its frame is still to be handled, its record
\* awaits the gateway with the socket attached, or an answer other than the ack was written.
AnswerDue(m) ==
  \/ \E f \in upFrames : f.msg = m /\ f.here
  \/ m \in watching /\ bridge[m] = "pending"
  \/ \E k \in 1..Len(downFrames) : downFrames[k].msg = m /\ downFrames[k].what # "ack"

\* The queue waits for a send on an open socket, of one message, which is answered.
SendIsAwaited ==
  tab.run.phase = "pendingSend" =>
    socket /\ tab.run.runOf = NoMessage /\ tab.run.active \in Message /\ AnswerDue(tab.run.active)

\* The run state q waits for no other send than r.
KeepsSend(q, r) ==
  q.phase = "pendingSend" => r.phase = "pendingSend" /\ q.active = r.active /\ q.runOf = r.runOf

\* A flush wrote a frame on the open socket, and waits for that one.
JustSent ==
  /\ socket' /\ tab'.run.runOf = NoMessage /\ tab'.run.active \in Message
  /\ \E f \in upFrames' : f.msg = tab'.run.active /\ f.here

\* A write of the items does not touch the run state.
LEMMA PersistKeepsRun ==
  ASSUME NEW t \in Tab, NEW u \in Persist(t)
  PROVE  u \in Tab /\ u.run = t.run
<1> DEFINE d == [m \in Message |-> Restored(t.item[m])]
<1>1. d \in [Message -> OutboxItem]
  BY RestoredIsSettled DEF Tab
<1>2. u = t \/ u = [t EXCEPT !.disk = d] \/ u = [t EXCEPT !.memoryOnly = TRUE]
  BY DEF Persist
<1> HIDE DEF d
<1> QED
  BY <1>1, <1>2 DEF Tab

\* A flush of one item leaves the run state, or waits for the frame it wrote.
LEMMA FlushItemRun ==
  ASSUME NEW t \in Tab, NEW m \in Message, NEW r \in FlushItem(t, m)
  PROVE  \/ r.tab.run = t.run
         \/ /\ r.tab.run.runOf = NoMessage /\ r.tab.run.active = m
            /\ \E f \in r.frames : f.msg = m /\ f.here
<1> DEFINE old == t.item[m]
           i == InflightItem(old)
           park == ParkedItem(old)
           P == Persist([t EXCEPT !.item[m] = i])
           sending == {u \in P : Authorized(u, m)}
           sent(u) == [u EXCEPT !.run.phase = "pendingSend", !.run.active = m,
                                !.run.runOf = NoMessage]
<1>1. old \in OutboxItem
  BY DEF Tab
<1>2. i \in OutboxItem /\ park \in OutboxItem
  BY <1>1, FlushedItems
<1>3. \/ \E u \in P \ sending : r = [tab |-> [u EXCEPT !.item[m] = park], frames |-> {}]
      \/ \E u \in sending :
           r = [tab |-> sent(u), frames |-> {[msg |-> m, retry |-> old.maybe, here |-> TRUE]}]
      \/ \E u \in sending : \E w \in Persist([u EXCEPT !.item[m] = GivenBackItem(@, old)]) :
           r = [tab |-> w, frames |-> {}]
  BY Zenon DEF FlushItem, Persisted
<1>4. ASSUME NEW u \in P PROVE u \in Tab /\ u.run = t.run
  <2>1. /\ [t EXCEPT !.item[m] = i] \in Tab /\ [t EXCEPT !.item[m] = i].run = t.run
    BY <1>2, WithItem
  <2> QED
    BY <1>4, <2>1, PersistKeepsRun
<1> HIDE DEF i, park, P, old
<1>5. ASSUME NEW u \in P \ sending, r = [tab |-> [u EXCEPT !.item[m] = park], frames |-> {}]
      PROVE  r.tab.run = t.run
  <2>1. [u EXCEPT !.item[m] = park].run = u.run
    BY <1>2, <1>4, WithItem
  <2> QED
    BY <1>4, <1>5, <2>1
<1>6. ASSUME NEW u \in sending,
             r = [tab |-> sent(u), frames |-> {[msg |-> m, retry |-> old.maybe, here |-> TRUE]}]
      PROVE  /\ r.tab.run.runOf = NoMessage /\ r.tab.run.active = m
             /\ \E f \in r.frames : f.msg = m /\ f.here
  <2>1. u \in Tab
    BY <1>4
  <2>2. sent(u).run.runOf = NoMessage /\ sent(u).run.active = m
    BY <2>1 DEF Tab, RunState
  <2> HIDE DEF sent
  <2> QED
    BY <1>6, <2>2
<1>7. ASSUME NEW u \in sending, NEW w \in Persist([u EXCEPT !.item[m] = GivenBackItem(@, old)]),
             r = [tab |-> w, frames |-> {}]
      PROVE  r.tab.run = t.run
  <2> DEFINE j == GivenBackItem(u.item[m], old)
  <2>1. u \in Tab /\ u.item[m] \in OutboxItem
    BY <1>4 DEF Tab
  <2>2. j \in OutboxItem
    BY <1>1, <2>1, FlushedItems
  <2>3. w \in Persist([u EXCEPT !.item[m] = j])
    BY <1>7, Zenon
  <2> HIDE DEF j
  <2>4. [u EXCEPT !.item[m] = j] \in Tab /\ [u EXCEPT !.item[m] = j].run = u.run
    BY <2>1, <2>2, WithItem
  <2>5. w.run = u.run
    BY <2>3, <2>4, PersistKeepsRun
  <2> QED
    BY <1>4, <1>7, <2>5
<1> HIDE DEF sent, sending
<1> QED
  BY <1>3, <1>5, <1>6, <1>7

\* So does the flush at the end of a step.
LEMMA FlushOnRun ==
  ASSUME NEW S \in SUBSET Tab, NEW only, FlushOn(S, only)
  PROVE  /\ upFrames \subseteq upFrames'
         /\ JustSent \/ \E t \in S : tab'.run = t.run
<1>1. PICK t \in S : \E elapsed \in SUBSET {m \in WithStatus(t, "queued") : t.item[m].backoff} :
        LET due == IF CanAutoFlush(t) /\ socket' THEN Eligible(t, elapsed) \cap only ELSE {}
        IN \E r \in IF due = {} THEN {[tab |-> t, frames |-> {}]}
                    ELSE UNION {FlushItem(t, m) : m \in due} :
             tab' = r.tab /\ upFrames' = upFrames \cup r.frames
  BY DEF FlushOn
<1>2. \A elapsed : Eligible(t, elapsed) \subseteq Message
  BY DEF Eligible, WithStatus
<1>3. \E r : /\ \/ r = [tab |-> t, frames |-> {}]
                \/ socket' /\ \E m \in Message : r \in FlushItem(t, m)
             /\ tab' = r.tab /\ upFrames' = upFrames \cup r.frames
  BY <1>1, <1>2
<1>4. PICK r : /\ \/ r = [tab |-> t, frames |-> {}]
                  \/ socket' /\ \E m \in Message : r \in FlushItem(t, m)
               /\ tab' = r.tab /\ upFrames' = upFrames \cup r.frames
  BY <1>3
<1>5. CASE r = [tab |-> t, frames |-> {}]
  BY <1>4, <1>5
<1>6. ASSUME NEW m \in Message, socket', r \in FlushItem(t, m)
      PROVE  JustSent \/ tab'.run = t.run
  <2>1. \/ r.tab.run = t.run
        \/ /\ r.tab.run.runOf = NoMessage /\ r.tab.run.active = m
           /\ \E f \in r.frames : f.msg = m /\ f.here
    BY <1>6, FlushItemRun
  <2> QED
    BY <1>4, <1>6, <2>1 DEF JustSent
<1> QED
  BY <1>4, <1>5, <1>6

\* A release of what awaits a history does not touch the run state.
LEMMA ReleaseKeepsRun ==
  ASSUME NEW t \in Tab, NEW s \in {"queued", "unknown"}
  PROVE  ReleaseAwaiting(t, s) \in Tab /\ ReleaseAwaiting(t, s).run = t.run
<1> DEFINE f == [m \in Message |->
                  IF t.item[m].status = "acked" /\ t.item[m].awaiting
                  THEN [t.item[m] EXCEPT !.status = s, !.awaiting = FALSE, !.backoff = FALSE]
                  ELSE t.item[m]]
<1>1. f \in [Message -> OutboxItem]
  BY WithStatusOf DEF Tab
<1>2. ReleaseAwaiting(t, s) = [t EXCEPT !.item = f]
  BY DEF ReleaseAwaiting
<1> HIDE DEF f
<1> QED
  BY <1>1, <1>2, WithItems

\* A timeout ends the wait or leaves it.
LEMMA OverdueRun ==
  ASSUME NEW t \in Tab, NEW u \in Overdue(t)
  PROVE  u \in Tab /\ KeepsSend(u.run, t.run)
<1> DEFINE f(late) == [m \in Message |->
                        IF m \notin late THEN t.item[m]
                        ELSE [t.item[m] EXCEPT !.status = IF t.item[m].tries >= MaxAutoAttempts
                                                          THEN "unknown" ELSE "queued",
                                               !.backoff = TRUE]]
           r(late) == IF \E m \in late : AckTimeout(t.run, m) # t.run
                      THEN ToIdle(t.run) ELSE t.run
           swept(late) == [t EXCEPT !.item = f(late), !.run = r(late)]
<1>1. ASSUME NEW late \in SUBSET WithStatus(t, "inflight")
      PROVE  swept(late) \in Tab /\ KeepsSend(swept(late).run, t.run)
  <2>1. t.item \in [Message -> OutboxItem] /\ TRUE \in BOOLEAN
    BY DEF Tab
  <2>2. f(late) \in [Message -> OutboxItem]
    BY <2>1, WithStatusOf
  <2>3. r(late) \in RunState /\ (r(late) = t.run \/ r(late).phase = "idle")
    BY DEF Tab, RunState, ToIdle, IdleRun
  <2> HIDE DEF f, r
  <2>4. swept(late) \in Tab /\ swept(late).run = r(late)
    BY <2>2, <2>3 DEF Tab
  <2> HIDE DEF swept
  <2> QED
    BY <2>3, <2>4 DEF KeepsSend
<1>2. \E late \in SUBSET WithStatus(t, "inflight") :
        u = swept(late) \/ u = ReleaseAwaiting(swept(late), "unknown")
  BY DEF Overdue
<1> HIDE DEF swept
<1> QED
  BY <1>1, <1>2, ReleaseKeepsRun

\* A hold ends it too, or leaves it.
LEMMA HoldRun ==
  ASSUME NEW t \in Tab
  PROVE  HoldForUnknown(t) \in Tab /\ KeepsSend(HoldForUnknown(t).run, t.run)
<1> DEFINE q == [(IF t.run.phase = "idle" THEN t.run ELSE ToIdle(t.run)) EXCEPT !.hold = TRUE]
<1>1. q \in RunState /\ q.phase = "idle"
  BY DEF Tab, RunState, ToIdle, IdleRun
<1>2. HoldForUnknown(t) \in {t, [t EXCEPT !.run = q]}
  BY DEF HoldForUnknown
<1> HIDE DEF q
<1>3. [t EXCEPT !.run = q] \in Tab /\ [t EXCEPT !.run = q].run = q
  BY <1>1, WithRun
<1>4. KeepsSend(t.run, t.run) /\ KeepsSend(q, t.run)
  BY <1>1 DEF KeepsSend
<1> QED
  BY <1>2, <1>3, <1>4

\* A tick sends, or waits for nothing new.
LEMMA TickRun ==
  ASSUME NEW S \in SUBSET Tab, TickOn(S)
  PROVE  /\ upFrames \subseteq upFrames'
         /\ JustSent \/ \E t \in S : KeepsSend(tab'.run, t.run)
<1>1. PICK t \in S : \E u \in Overdue(t) :
        FlushOn({HoldForUnknown(v) : v \in IF u.item = t.item THEN {u} ELSE Persist(u)}, Message)
  BY DEF TickOn
<1>2. PICK u \in Overdue(t) :
        FlushOn({HoldForUnknown(v) : v \in IF u.item = t.item THEN {u} ELSE Persist(u)}, Message)
  BY <1>1
<1>3. u \in Tab /\ KeepsSend(u.run, t.run)
  BY OverdueRun
<1>4. ASSUME NEW v \in IF u.item = t.item THEN {u} ELSE Persist(u)
      PROVE  HoldForUnknown(v) \in Tab /\ KeepsSend(HoldForUnknown(v).run, t.run)
  <2>1. v \in Tab /\ v.run = u.run
    BY <1>3, <1>4, PersistKeepsRun
  <2>2. HoldForUnknown(v) \in Tab /\ KeepsSend(HoldForUnknown(v).run, v.run)
    BY <2>1, HoldRun
  <2> QED
    BY <1>3, <2>1, <2>2 DEF KeepsSend
<1> DEFINE H == {HoldForUnknown(v) : v \in IF u.item = t.item THEN {u} ELSE Persist(u)}
<1>5. H \in SUBSET Tab /\ \A w \in H : KeepsSend(w.run, t.run)
  BY <1>4
<1>6. FlushOn(H, Message)
  BY <1>2
<1> HIDE DEF H
<1> QED
  BY <1>5, <1>6, FlushOnRun

\* A message the user sends again is sent, or the queue waits for nothing new.
LEMMA RetryRun ==
  ASSUME OutboxTypeOK, NEW m \in Message, Retry(m)
  PROVE  upFrames \subseteq upFrames' /\ (JustSent \/ KeepsSend(tab'.run, tab.run))
<1> DEFINE t == [tab EXCEPT !.memoryOnly = FALSE]
<1>1. tab \in Tab /\ t \in Tab /\ t.item = tab.item /\ t.run = tab.run /\ t.item[m] \in OutboxItem
  BY OutboxTypesSplit DEF Tab
<1>2. ASSUME NEW S, \A u \in S : u \in Tab /\ u.run = tab.run,
             TickOn({[u EXCEPT !.run.hold = FALSE] : u \in S})
      PROVE  upFrames \subseteq upFrames' /\ (JustSent \/ KeepsSend(tab'.run, tab.run))
  <2> DEFINE H == {[u EXCEPT !.run.hold = FALSE] : u \in S}
  <2>1. \A u \in S : /\ [u EXCEPT !.run.hold = FALSE] \in Tab
                     /\ KeepsSend([u EXCEPT !.run.hold = FALSE].run, tab.run)
    BY <1>2 DEF Tab, RunState, KeepsSend
  <2>2. H \in SUBSET Tab /\ \A w \in H : KeepsSend(w.run, tab.run)
    BY <2>1
  <2>3. TickOn(H)
    BY <1>2
  <2> HIDE DEF H
  <2>4. upFrames \subseteq upFrames' /\ (JustSent \/ \E w \in H : KeepsSend(tab'.run, w.run))
    BY <2>2, <2>3, TickRun
  <2> QED
    BY <2>2, <2>4 DEF KeepsSend
<1>3. CASE t.item[m].maybe \/ t.item[m].status = "unknown"
  <2>1. PICK n \in Message : n = typedSoFar'
    BY <1>3, OutboxAssumption DEF Retry, OutboxTypeOK, Message
  <2> DEFINE S == Persist([t EXCEPT !.item[n] = NewItem])
             W == Persisted({[u EXCEPT !.item[m].waived = TRUE] : u \in S})
  <2>2. TickOn({[u EXCEPT !.run.hold = FALSE] : u \in W})
    BY <1>3, <2>1 DEF Retry
  <2> HIDE DEF t
  <2>3. /\ [t EXCEPT !.item[n] = NewItem] \in Tab
        /\ [t EXCEPT !.item[n] = NewItem].run = tab.run
    BY <1>1, NewItemIsItem, WithItem
  <2>4. \A u \in S : u \in Tab /\ u.run = tab.run
    BY <2>3, PersistKeepsRun
  <2> HIDE DEF S
  <2>5. ASSUME NEW u \in S, NEW w \in Persist([u EXCEPT !.item[m].waived = TRUE])
        PROVE  w \in Tab /\ w.run = tab.run
    <3> DEFINE i == [u.item[m] EXCEPT !.waived = TRUE]
    <3>1. u \in Tab /\ u.run = tab.run /\ u.item[m] \in OutboxItem
      BY <2>4, <2>5 DEF Tab
    <3>2. i \in OutboxItem
      BY <3>1 DEF OutboxItem
    <3>3. w \in Persist([u EXCEPT !.item[m] = i])
      BY <2>5, <3>1 DEF Tab
    <3> HIDE DEF i
    <3>4. [u EXCEPT !.item[m] = i] \in Tab /\ [u EXCEPT !.item[m] = i].run = u.run
      BY <3>1, <3>2, WithItem
    <3> QED
      BY <3>1, <3>3, <3>4, PersistKeepsRun
  <2>6. \A w \in W : w \in Tab /\ w.run = tab.run
    BY <2>5 DEF Persisted
  <2> HIDE DEF W
  <2> QED
    BY <1>2, <2>2, <2>6
<1>4. CASE ~(t.item[m].maybe \/ t.item[m].status = "unknown")
  <2> DEFINE S == Persist([t EXCEPT !.item[m] = [@ EXCEPT !.status = "queued", !.tries = 0,
                                                         !.backoff = FALSE]])
             j == [t.item[m] EXCEPT !.status = "queued", !.tries = 0, !.backoff = FALSE]
  <2>1. TickOn({[u EXCEPT !.run.hold = FALSE] : u \in S})
    BY <1>4 DEF Retry
  <2> HIDE DEF t
  <2>2. j \in OutboxItem
    <3>1. 0 \in 0..MaxAutoAttempts
      BY OutboxAssumption
    <3> QED
      BY <1>1, <3>1 DEF OutboxItem
  <2>3. S = Persist([t EXCEPT !.item[m] = j])
    BY Zenon
  <2> HIDE DEF j, S
  <2>4. [t EXCEPT !.item[m] = j] \in Tab /\ [t EXCEPT !.item[m] = j].run = tab.run
    BY <1>1, <2>2, WithItem
  <2>5. \A u \in S : u \in Tab /\ u.run = tab.run
    BY <2>3, <2>4, PersistKeepsRun
  <2> QED
    BY <1>2, <2>1, <2>5
<1> QED
  BY <1>3, <1>4

\* The steps of the page that neither close its socket nor read it.
LEMMA PageSends ==
  ASSUME OutboxTypeOK,
         \/ Type \/ ConfirmFlush \/ FlushTick \/ HistoryArrives \/ HistoryFails
         \/ \E m \in Message : Retry(m) \/ Drop(m)
  PROVE  /\ upFrames \subseteq upFrames' /\ UNCHANGED <<socket, downFrames, bridge, watching>>
         /\ JustSent \/ KeepsSend(tab'.run, tab.run)
<1>1. tab \in Tab /\ tab.run \in RunState /\ tab.item \in [Message -> OutboxItem]
  BY OutboxTypesSplit DEF Tab
<1>2. \A r : KeepsSend(r, r)
  BY DEF KeepsSend
<1> USE DEF bridgeVars
<1>3. CASE Type
  <2>1. PICK n \in Message : n = typedSoFar'
    BY <1>3, OutboxAssumption DEF Type, OutboxTypeOK, Message
  <2>2. FlushOn(Persist([tab EXCEPT !.item[n] = NewItem]), {n})
    BY <1>3, <2>1 DEF Type
  <2>3. /\ [tab EXCEPT !.item[n] = NewItem] \in Tab
        /\ [tab EXCEPT !.item[n] = NewItem].run = tab.run
    BY <1>1, NewItemIsItem, WithItem
  <2>4. \A u \in Persist([tab EXCEPT !.item[n] = NewItem]) : u \in Tab /\ u.run = tab.run
    BY <2>3, PersistKeepsRun
  <2>5. upFrames \subseteq upFrames' /\ (JustSent \/ tab'.run = tab.run)
    BY <2>2, <2>4, FlushOnRun
  <2> QED
    BY <1>2, <1>3, <2>5 DEF Type
<1>4. CASE ConfirmFlush
  <2> DEFINE f == [m \in Message |-> IF tab.item[m].status = "unknown"
                                     THEN [tab.item[m] EXCEPT !.waived = TRUE] ELSE tab.item[m]]
             v == [tab EXCEPT !.run.hold = FALSE, !.item = f]
  <2>1. \A j \in OutboxItem : [j EXCEPT !.waived = TRUE] \in OutboxItem
    BY DEF OutboxItem
  <2>2. f \in [Message -> OutboxItem]
    BY <1>1, <2>1
  <2>3. tab' \in Persist(v)
    BY <1>4 DEF ConfirmFlush
  <2> HIDE DEF f
  <2>4. v \in Tab /\ KeepsSend(v.run, tab.run)
    BY <1>1, <2>2 DEF Tab, RunState, KeepsSend
  <2> HIDE DEF v
  <2>5. tab'.run = v.run
    BY <2>3, <2>4, PersistKeepsRun
  <2> QED
    BY <1>4, <2>4, <2>5 DEF ConfirmFlush
<1>5. CASE FlushTick
  <2>1. TickOn({tab}) /\ {tab} \in SUBSET Tab
    BY <1>1, <1>5 DEF FlushTick
  <2>2. upFrames \subseteq upFrames' /\ (JustSent \/ KeepsSend(tab'.run, tab.run))
    BY <2>1, TickRun
  <2> QED
    BY <1>5, <2>2 DEF FlushTick
<1>6. CASE HistoryArrives
  <2>1. PICK c \in SUBSET Message :
          tab' \in Persist(ReleaseAwaiting([tab EXCEPT !.item = [m \in Message |->
                             IF m \in c THEN NoItem ELSE tab.item[m]]], "queued"))
    BY <1>6 DEF HistoryArrives
  <2> DEFINE f == [m \in Message |-> IF m \in c THEN NoItem ELSE tab.item[m]]
             w == [tab EXCEPT !.item = f]
  <2>2. f \in [Message -> OutboxItem]
    BY <1>1, NewItemIsItem
  <2>3. tab' \in Persist(ReleaseAwaiting(w, "queued"))
    BY <2>1
  <2> HIDE DEF f
  <2>4. w \in Tab /\ w.run = tab.run
    BY <1>1, <2>2, WithItems
  <2> HIDE DEF w
  <2>5. tab'.run = tab.run
    BY <2>3, <2>4, ReleaseKeepsRun, PersistKeepsRun
  <2> QED
    BY <1>2, <1>6, <2>5 DEF HistoryArrives
<1>7. CASE HistoryFails
  <2>1. tab'.run = tab.run
    BY <1>1, <1>7, ReleaseKeepsRun, PersistKeepsRun DEF HistoryFails
  <2> QED
    BY <1>2, <1>7, <2>1 DEF HistoryFails
<1>8. ASSUME NEW m \in Message, Drop(m) PROVE tab'.run = tab.run
  <2>1. /\ [tab EXCEPT !.item[m] = NoItem] \in Tab
        /\ [tab EXCEPT !.item[m] = NoItem].run = tab.run
    BY <1>1, NewItemIsItem, WithItem
  <2> QED
    BY <1>8, <2>1, PersistKeepsRun DEF Drop
<1>9. ASSUME NEW m \in Message, Retry(m)
      PROVE  upFrames \subseteq upFrames' /\ (JustSent \/ KeepsSend(tab'.run, tab.run))
  BY <1>9, RetryRun
<1> QED
  BY <1>2, <1>3, <1>4, <1>5, <1>6, <1>7, <1>8, <1>9 DEF Drop, Retry

\* A closed socket, a reload and a new socket wait for no send of before.
LEMMA SocketSends ==
  ASSUME OutboxTypeOK, SendIsAwaited, SocketCloses \/ Reload \/ SocketReady
  PROVE  tab'.run.phase # "pendingSend" \/ JustSent
<1>1. tab \in Tab /\ tab.run \in RunState /\ tab.item \in [Message -> OutboxItem]
  BY OutboxTypesSplit DEF Tab
<1>2. CASE SocketCloses
  <2> DEFINE f == [m \in Message |->
                    CASE tab.item[m].status = "inflight" -> [tab.item[m] EXCEPT !.status = "queued",
                                                                              !.backoff = FALSE]
                      [] tab.item[m].status = "acked" -> [tab.item[m] EXCEPT !.awaiting = TRUE]
                      [] OTHER -> tab.item[m]]
             q == SocketLost(tab.run)
             v == [tab EXCEPT !.run = q, !.item = f]
  <2>1. \A j \in OutboxItem : /\ [j EXCEPT !.awaiting = TRUE] \in OutboxItem
                              /\ [j EXCEPT !.status = "queued", !.backoff = FALSE] \in OutboxItem
    BY DEF OutboxItem
  <2>2. f \in [Message -> OutboxItem]
    BY <1>1, <2>1
  <2>3. q \in RunState /\ q.phase # "pendingSend"
    BY <1>1 DEF RunState, SocketLost, ToIdle, IdleRun
  <2>4. tab' \in Persist(v)
    BY <1>2 DEF SocketCloses
  <2> HIDE DEF f, q
  <2>5. v \in Tab /\ v.run = q
    BY <1>1, <2>2, <2>3 DEF Tab
  <2> HIDE DEF v
  <2> QED
    BY <2>3, <2>4, <2>5, PersistKeepsRun
<1>3. CASE Reload
  <2> DEFINE v == [tab EXCEPT !.item = tab.disk, !.memoryOnly = FALSE, !.run = IdleRun]
  <2>1. v \in Tab /\ v.run.phase = "idle"
    BY <1>1 DEF Tab, RunState, IdleRun
  <2>2. tab' \in Persist(v)
    BY <1>3 DEF Reload
  <2> HIDE DEF v
  <2> QED
    BY <2>1, <2>2, PersistKeepsRun
<1>4. CASE SocketReady
  <2> DEFINE runs == {m \in Message : bridge[m] = "running"}
             c == CHOOSE m \in runs : TRUE
             q == IF runs # {}
                  THEN [tab.run EXCEPT !.phase = "running", !.runOf = c]
                  ELSE IF tab.run.phase = "interruptedLocal" THEN ToIdle(tab.run) ELSE tab.run
  <2>1. runs # {} => c \in Message
    OBVIOUS
  <2>2. TickOn({[tab EXCEPT !.run = q]})
    BY <1>4 DEF SocketReady
  <2>3. tab.run.phase # "pendingSend"
    BY <1>4 DEF SocketReady, SendIsAwaited
  <2> HIDE DEF c, runs
  <2>4. q \in RunState /\ q.phase # "pendingSend"
    BY <1>1, <2>1, <2>3 DEF RunState, ToIdle, IdleRun
  <2> HIDE DEF q
  <2>5. [tab EXCEPT !.run = q] \in Tab /\ [tab EXCEPT !.run = q].run = q
    BY <1>1, <2>4, WithRun
  <2>6. PICK v \in Tab : v = [tab EXCEPT !.run = q] /\ v.run = q
    BY <2>5
  <2>7. TickOn({v}) /\ {v} \in SUBSET Tab
    BY <2>2, <2>6
  <2>8. JustSent \/ KeepsSend(tab'.run, v.run)
    BY <2>7, TickRun
  <2> QED
    BY <2>4, <2>6, <2>8 DEF KeepsSend
<1> QED
  BY <1>2, <1>3, <1>4

\* A frame that arrives is one of another message, is an ack, or ends the wait.
LEMMA ReceivedRun ==
  ASSUME OutboxTypeOK, FrameReceived, tab'.run.phase = "pendingSend"
  PROVE  /\ KeepsSend(tab'.run, tab.run)
         /\ tab.run.runOf = NoMessage /\ tab.run.active \in Message =>
              Head(downFrames).what = "ack" \/ Head(downFrames).msg # tab.run.active
<1> DEFINE m == Head(downFrames).msg
           what == Head(downFrames).what
           q == SendFailed(tab.run, m, what = "unknown")
<1>1. tab \in Tab /\ tab.run \in RunState /\ m \in Message /\ what \in Reply
  <2>1. downFrames \in Seq([msg : Message, what : Reply]) /\ downFrames # <<>>
    BY DEF OutboxTypeOK, FrameReceived
  <2>2. Head(downFrames) \in [msg : Message, what : Reply]
    BY <2>1, HeadOf
  <2> QED
    BY <2>2, OutboxTypesSplit DEF Tab
<1>2. 0 \notin Message
  BY DEF Message
<1>3. q \in RunState /\ (q.phase = "pendingSend" => q = tab.run /\ tab.run.active \notin {NoMessage, m})
  BY <1>1 DEF SendFailed, RunState, ToIdle, IdleRun
<1>4. CASE what = "ack"
  <2> DEFINE j == [tab.item[m] EXCEPT !.status = "acked", !.sent = TRUE]
  <2>1. tab' \in IF Has(tab, m)
                 THEN Persist([tab EXCEPT !.item[m].status = "acked", !.item[m].sent = TRUE])
                 ELSE {tab}
    BY <1>4 DEF FrameReceived
  <2>2. tab.item[m] \in OutboxItem
    BY <1>1 DEF Tab
  <2>3. j \in OutboxItem
    BY <2>2 DEF OutboxItem
  <2>4. [tab EXCEPT !.item[m].status = "acked", !.item[m].sent = TRUE] = [tab EXCEPT !.item[m] = j]
    BY <1>1 DEF Tab
  <2> HIDE DEF j
  <2>5. [tab EXCEPT !.item[m] = j] \in Tab /\ [tab EXCEPT !.item[m] = j].run = tab.run
    BY <1>1, <2>3, WithItem
  <2>6. tab'.run = tab.run
    BY <2>1, <2>4, <2>5, PersistKeepsRun
  <2> QED
    BY <1>4, <2>6 DEF KeepsSend
<1>5. CASE what = "started"
  <2>1. tab' = [tab EXCEPT !.run = RunStarted(@, m)]
    BY <1>5 DEF FrameReceived
  <2>2. tab'.run.phase = "running"
    BY <1>1, <2>1 DEF Tab, RunState, RunStarted
  <2> QED
    BY <2>2
<1>6. CASE what \in {"complete", "interrupted"}
  <2> DEFINE d == RunDone(tab.run, m, what)
  <2>1. tab' = [tab EXCEPT !.run = d]
    BY <1>6 DEF FrameReceived
  <2>2. d \in RunState /\ (d.phase = "pendingSend" => d = tab.run /\ tab.run.runOf # NoMessage)
    BY <1>1 DEF RunState, RunDone, IdleRun
  <2> HIDE DEF d
  <2>3. tab'.run = d
    BY <1>1, <2>1, <2>2, WithRun
  <2> QED
    BY <2>2, <2>3 DEF KeepsSend
<1>7. CASE what \notin {"ack", "started", "complete", "interrupted"}
  <2>1. tab' \in IF Has(tab, m)
                 THEN Persist([MarkFailed(tab, m, what) EXCEPT
                                 !.run = SendFailed(@, m, what = "unknown")])
                 ELSE {[tab EXCEPT !.run = q]}
    BY <1>7 DEF FrameReceived
  <2>2. PICK j \in OutboxItem : MarkFailed(tab, m, what) = [tab EXCEPT !.item[m] = j]
    BY <1>1, FailedItem
  <2> DEFINE t == [tab EXCEPT !.item[m] = j]
  <2>3. t \in Tab /\ t.run = tab.run
    BY <1>1, <2>2, WithItem
  <2>4. tab' \in Persist([t EXCEPT !.run = SendFailed(@, m, what = "unknown")])
        \/ tab' = [tab EXCEPT !.run = q]
    BY <2>1, <2>2
  <2> HIDE DEF t
  <2>5. [t EXCEPT !.run = SendFailed(@, m, what = "unknown")] = [t EXCEPT !.run = q]
    BY <2>3
  <2> HIDE DEF q
  <2>6. /\ [t EXCEPT !.run = q] \in Tab /\ [t EXCEPT !.run = q].run = q
        /\ [tab EXCEPT !.run = q].run = q
    BY <1>1, <1>3, <2>3, WithRun
  <2>7. tab'.run = q
    BY <2>4, <2>5, <2>6, PersistKeepsRun
  <2> QED
    BY <1>3, <2>7 DEF KeepsSend
<1> QED
  BY <1>4, <1>5, <1>6, <1>7

\* What was written to the socket behind the first frame is still there without it.
LEMMA BehindTheHead ==
  ASSUME NEW s \in Seq(Answer), s # <<>>, NEW k \in 1..Len(s), k # 1
  PROVE  k - 1 \in 1..Len(Tail(s)) /\ Tail(s)[k - 1] = s[k]
  OBVIOUS

\* So is everything, with more behind it.
LEMMA InFront ==
  ASSUME NEW s \in Seq(Answer), NEW t \in Seq(Answer)
  PROVE  /\ \A k \in 1..Len(s) : k \in 1..Len(s \o t) /\ (s \o t)[k] = s[k]
         /\ \A k \in 1..Len(t) : Len(s) + k \in 1..Len(s \o t) /\ (s \o t)[Len(s) + k] = t[k]
  OBVIOUS

\* A frame that is read does not take the answer away.
LEMMA ReceivedSends ==
  ASSUME OutboxTypeOK, SendIsAwaited, FrameReceived
  PROVE  SendIsAwaited'
<1> SUFFICES ASSUME tab'.run.phase = "pendingSend"
             PROVE  (/\ socket /\ tab.run.runOf = NoMessage /\ tab.run.active \in Message
                     /\ AnswerDue(tab.run.active))'
  BY DEF SendIsAwaited
<1>0. PICK a : a = tab.run.active
  OBVIOUS
<1>1. KeepsSend(tab'.run, tab.run)
  BY ReceivedRun
<1>2. /\ socket /\ tab.run.runOf = NoMessage /\ a \in Message /\ AnswerDue(a)
      /\ tab'.run.active = a /\ tab'.run.runOf = NoMessage
  BY <1>0, <1>1 DEF KeepsSend, SendIsAwaited
<1>3. Head(downFrames).what = "ack" \/ Head(downFrames).msg # a
  BY <1>0, <1>2, ReceivedRun
<1>4. /\ UNCHANGED <<socket, upFrames, bridge, watching>>
      /\ downFrames # <<>> /\ downFrames' = Tail(downFrames)
      /\ downFrames \in Seq(Answer)
  BY DEF FrameReceived, bridgeVars, OutboxTypeOK, Answer
<1>5. ASSUME NEW k \in 1..Len(downFrames), downFrames[k].msg = a, downFrames[k].what # "ack"
      PROVE  \E n \in 1..Len(downFrames') : downFrames'[n].msg = a /\ downFrames'[n].what # "ack"
  <2>1. k # 1
    BY <1>3, <1>4, <1>5
  <2>2. /\ k - 1 \in 1..Len(Tail(downFrames))
        /\ Tail(downFrames)[k - 1] = downFrames[k]
    BY <1>4, <2>1, BehindTheHead
  <2> QED
    BY <1>4, <1>5, <2>2
<1>6. AnswerDue(a)'
  BY <1>2, <1>4, <1>5 DEF AnswerDue
<1> QED
  BY <1>2, <1>4, <1>6

\* An answer in sight stays in sight when more is written behind it.
LEMMA AnswerStays ==
  ASSUME NEW m \in Message, NEW t \in Seq(Answer), downFrames \in Seq(Answer),
         downFrames' = downFrames \o t,
         \/ \E k \in 1..Len(downFrames) : downFrames[k].msg = m /\ downFrames[k].what # "ack"
         \/ \E k \in 1..Len(t) : t[k].msg = m /\ t[k].what # "ack"
  PROVE  AnswerDue(m)'
<1> DEFINE Seen == \E k \in 1..Len(downFrames') : /\ downFrames'[k].msg = m
                                                /\ downFrames'[k].what # "ack"
<1>1. Seen
  <2>1. ASSUME NEW k \in 1..Len(downFrames), downFrames[k].msg = m, downFrames[k].what # "ack"
        PROVE  Seen
    <3>1. k \in 1..Len(downFrames \o t) /\ (downFrames \o t)[k] = downFrames[k]
      BY InFront
    <3> QED
      BY <2>1, <3>1
  <2>2. ASSUME NEW k \in 1..Len(t), t[k].msg = m, t[k].what # "ack"
        PROVE  Seen
    <3>1. /\ Len(downFrames) + k \in 1..Len(downFrames \o t)
          /\ (downFrames \o t)[Len(downFrames) + k] = t[k]
      BY InFront
    <3> QED
      BY <2>2, <3>1
  <2> QED
    BY <2>1, <2>2
<1> QED
  BY <1>1 DEF AnswerDue

\* A frame the bridge handles is answered, or attaches the socket to the record it made.
LEMMA HandledAnswers ==
  ASSUME OutboxTypeOK, NEW f \in upFrames, FrameHandled(f), NEW m \in Message, AnswerDue(m)
  PROVE  AnswerDue(m)'
<1>1. /\ f \in Frame /\ f.msg \in Message /\ downFrames \in Seq(Answer)
      /\ upFrames' = upFrames \ {f} /\ watching \subseteq watching'
      /\ bridge \in [Message -> {"none", "pending", "running", "done", "interrupted",
                                 "rejected", "unknown"}]
  BY DEF Frame, OutboxTypeOK, Answer, FrameHandled
<1>2. \/ bridge' = bridge
      \/ bridge[f.msg] # "pending" /\ bridge' = [bridge EXCEPT ![f.msg] = "pending"]
  <2>1. bridge' = bridge \/ bridge' = [bridge EXCEPT ![f.msg] = "pending"]
    BY DEF FrameHandled
  <2>2. bridge' = bridge \/ bridge[f.msg] \in {"none", "rejected"}
    BY DEF FrameHandled
  <2>3. bridge[f.msg] \in {"none", "rejected"} => bridge[f.msg] # "pending"
    OBVIOUS
  <2> QED
    BY <2>1, <2>2, <2>3
<1>3. CASE \E g \in upFrames : g # f /\ g.msg = m /\ g.here
  BY <1>1, <1>3 DEF AnswerDue
<1>4. CASE m \in watching /\ bridge[m] = "pending"
  BY <1>1, <1>2, <1>4 DEF AnswerDue
<1>5. PICK whats \in Seq(Reply) :
        /\ AnswerFrame(f, whats)
        /\ f.here => \/ \E k \in 1..Len(whats) : whats[k] # "ack"
                     \/ f.msg \in watching' /\ bridge'[f.msg] = "pending"
  <2>1. /\ <<"ack">> \in Seq(Reply) /\ <<"ack", "started">> \in Seq(Reply)
        /\ <<"unknown">> \in Seq(Reply) /\ <<"busy">> \in Seq(Reply) /\ <<"refused">> \in Seq(Reply)
        /\ <<"ack", "complete">> \in Seq(Reply) /\ <<"ack", "interrupted">> \in Seq(Reply)
        /\ <<"ack", "unknown">> \in Seq(Reply)
    BY DEF Reply
  <2>2. \A w \in Reply : w # "ack" =>
          /\ \E k \in 1..Len(<<w>>) : <<w>>[k] # "ack"
          /\ \E k \in 1..Len(<<"ack", w>>) : <<"ack", w>>[k] # "ack"
    <3>1. \A w : Len(<<w>>) = 1 /\ <<w>>[1] = w /\ Len(<<"ack", w>>) = 2 /\ <<"ack", w>>[2] = w
      OBVIOUS
    <3>2. 1 \in 1..1 /\ 2 \in 1..2
      OBVIOUS
    <3> QED
      BY <3>1, <3>2
  <2> DEFINE Answered(ws) == \E k \in 1..Len(ws) : ws[k] # "ack"
  <2>3. /\ Answered(<<"unknown">>) /\ Answered(<<"busy">>) /\ Answered(<<"refused">>)
        /\ Answered(<<"ack", "started">>) /\ Answered(<<"ack", "complete">>)
        /\ Answered(<<"ack", "interrupted">>) /\ Answered(<<"ack", "unknown">>)
    BY <2>2 DEF Reply
  <2> HIDE DEF Answered
  <2>4. bridge[f.msg] \in {"done", "interrupted", "unknown"} =>
          Replay(f.msg) \in Seq(Reply) /\ Answered(Replay(f.msg))
    BY <2>1, <2>3 DEF Replay
  <2>5. \E whats \in Seq(Reply) :
          /\ AnswerFrame(f, whats)
          /\ f.here => Answered(whats) \/ (f.msg \in watching' /\ bridge'[f.msg] = "pending")
    <3> DEFINE n == f.msg
               Goal(ws) == /\ AnswerFrame(f, ws)
                           /\ f.here => Answered(ws) \/ (n \in watching' /\ bridge'[n] = "pending")
    <3>1. \/ bridge[n] = "running" /\ AnswerFrame(f, <<"ack", "started">>)
          \/ /\ bridge[n] = "pending" /\ bridge' = bridge /\ AnswerFrame(f, <<"ack">>)
             /\ f.here => n \in watching'
          \/ AnswerFrame(f, <<"unknown">>)
          \/ bridge[n] \in {"done", "interrupted", "unknown"} /\ AnswerFrame(f, Replay(n))
          \/ AnswerFrame(f, <<"busy">>)
          \/ AnswerFrame(f, <<"refused">>)
          \/ /\ bridge' = [bridge EXCEPT ![n] = "pending"] /\ AnswerFrame(f, <<"ack">>)
             /\ f.here => n \in watching'
      BY DEF FrameHandled
    <3>2. bridge' = [bridge EXCEPT ![n] = "pending"] => bridge'[n] = "pending"
      BY <1>1
    <3>3. \/ \E ws \in {<<"ack">>, <<"ack", "started">>, <<"unknown">>, <<"busy">>,
                         <<"refused">>} : Goal(ws)
          \/ /\ bridge[n] \in {"done", "interrupted", "unknown"} /\ Goal(Replay(n))
      BY <2>3, <2>4, <3>1, <3>2
    <3> QED
      BY <2>1, <2>4, <3>3
  <2> QED
    BY <2>5 DEF Answered
<1> DEFINE t == Replies(f.msg, whats)
<1>6. /\ t \in Seq(Answer) /\ Len(t) = Len(whats)
      /\ \A k \in 1..Len(whats) : t[k].msg = f.msg /\ t[k].what = whats[k]
  <2>1. Len(whats) \in Nat
    BY <1>5
  <2>2. t \in Seq(Answer)
    BY <1>1, <1>5, RepliesAreAnswers
  <2> QED
    BY <2>1, <2>2 DEF Replies
<1>7. CASE f.here
  <2>1. downFrames' = downFrames \o t
    BY <1>5, <1>7 DEF AnswerFrame
  <2> HIDE DEF t
  <2>2. CASE \E k \in 1..Len(downFrames) : downFrames[k].msg = m /\ downFrames[k].what # "ack"
    BY <1>1, <1>6, <2>1, <2>2, AnswerStays
  <2>3. CASE f.msg = m
    <3>1. CASE f.msg \in watching' /\ bridge'[f.msg] = "pending"
      BY <2>3, <3>1 DEF AnswerDue
    <3>2. CASE \E k \in 1..Len(whats) : whats[k] # "ack"
      <4>1. \E k \in 1..Len(t) : t[k].msg = m /\ t[k].what # "ack"
        BY <1>6, <2>3, <3>2
      <4> QED
        BY <1>1, <1>6, <2>1, <4>1, AnswerStays
    <3> QED
      BY <1>5, <1>7, <3>1, <3>2
  <2> QED
    BY <1>3, <1>4, <2>2, <2>3 DEF AnswerDue
<1>8. CASE ~f.here
  <2>1. downFrames' = downFrames
    BY <1>5, <1>8 DEF AnswerFrame
  <2> QED
    BY <1>3, <1>4, <1>8, <2>1 DEF AnswerDue
<1> QED
  BY <1>7, <1>8

\* What the gateway says of a record is told to the socket that is attached to it.
LEMMA GatewayAnswers ==
  ASSUME OutboxTypeOK, NEW n \in Message,
         GatewayTakes(n) \/ GatewayRefuses(n) \/ SendUnanswered(n) \/ RunFinishes(n),
         NEW m \in Message, AnswerDue(m)
  PROVE  AnswerDue(m)'
<1>1. /\ downFrames \in Seq(Answer) /\ upFrames' = upFrames
      /\ bridge \in [Message -> {"none", "pending", "running", "done", "interrupted",
                                 "rejected", "unknown"}]
  BY DEF OutboxTypeOK, Answer, GatewayTakes, GatewayRefuses, SendUnanswered, RunFinishes
<1>2. /\ \A x \in Message \ {n} : bridge'[x] = bridge[x] /\ (x \in watching => x \in watching')
      /\ \E what \in Reply \ {"ack"} : TellWatchers(n, what)
  BY <1>1 DEF GatewayTakes, GatewayRefuses, SendUnanswered, RunFinishes, Reply
<1>3. PICK what \in Reply \ {"ack"} : TellWatchers(n, what)
  BY <1>2
<1>4. PICK a \in Answer : a = [msg |-> n, what |-> what]
  BY DEF Answer
<1>5. PICK t \in Seq(Answer) : downFrames' = downFrames \o t /\ (n \in watching => t = <<a>>)
  <2>1. downFrames \o <<>> = downFrames /\ Append(downFrames, a) = downFrames \o <<a>>
    BY <1>1
  <2>2. <<>> \in Seq(Answer) /\ <<a>> \in Seq(Answer)
    OBVIOUS
  <2> QED
    BY <1>3, <1>4, <2>1, <2>2 DEF TellWatchers
<1>6. CASE \E f \in upFrames : f.msg = m /\ f.here
  BY <1>1, <1>6 DEF AnswerDue
<1>7. CASE \E k \in 1..Len(downFrames) : downFrames[k].msg = m /\ downFrames[k].what # "ack"
  BY <1>1, <1>5, <1>7, AnswerStays
<1>8. CASE m \in watching /\ bridge[m] = "pending" /\ m # n
  BY <1>2, <1>8 DEF AnswerDue
<1>9. CASE m \in watching /\ m = n
  <2>1. Len(t) = 1 /\ t[1] = a /\ a.msg = m /\ a.what # "ack"
    BY <1>3, <1>4, <1>5, <1>9
  <2>2. \E k \in 1..Len(t) : t[k].msg = m /\ t[k].what # "ack"
    BY <2>1
  <2> QED
    BY <1>1, <1>5, <2>2, AnswerStays
<1> QED
  BY <1>6, <1>7, <1>8, <1>9 DEF AnswerDue

\* No step of the bridge leaves the send without an answer on its way.
LEMMA BridgeSends ==
  ASSUME OutboxTypeOK, SendIsAwaited, BridgeStep
  PROVE  SendIsAwaited'
<1>1. tab' = tab /\ socket' = socket
  BY DEF BridgeStep, FrameHandled, FrameLost, GatewayTakes, GatewayRefuses, SendUnanswered,
         RunFinishes, BridgeRestarts
<1>2. ASSUME socket, NEW m \in Message, AnswerDue(m) PROVE AnswerDue(m)'
  <2>1. ASSUME NEW f \in upFrames, FrameHandled(f) PROVE AnswerDue(m)'
    BY <1>2, <2>1, HandledAnswers
  <2>2. ASSUME NEW f \in upFrames, FrameLost(f) PROVE AnswerDue(m)'
    BY <1>2, <2>2 DEF FrameLost, AnswerDue, bridgeVars
  <2>3. ASSUME NEW n \in Message,
               GatewayTakes(n) \/ GatewayRefuses(n) \/ SendUnanswered(n) \/ RunFinishes(n)
        PROVE  AnswerDue(m)'
    BY <1>2, <2>3, GatewayAnswers
  <2>4. ~BridgeRestarts
    BY <1>2 DEF BridgeRestarts
  <2> QED
    BY <2>1, <2>2, <2>3, <2>4 DEF BridgeStep
<1> QED
  BY <1>1, <1>2 DEF SendIsAwaited

\* A send that blocks the queue of its session has an answer on its way, whatever was lost,
\* repeated or late: the frame is read, the gateway answers its record, or the answer waits
\* on the socket.  Nothing else is needed for the queue to go on but that each of them acts.
THEOREM PendingSendIsAnswered == OutboxSpec => []SendIsAwaited
<1>1. OutboxInit => SendIsAwaited
  BY DEF OutboxInit, SendIsAwaited, IdleRun
<1>2. OutboxTypeOK /\ SendIsAwaited /\ [OutboxNext]_outboxVars => SendIsAwaited'
  <2> SUFFICES ASSUME OutboxTypeOK, SendIsAwaited, [OutboxNext]_outboxVars PROVE SendIsAwaited'
    OBVIOUS
  <2>1. CASE \/ Type \/ ConfirmFlush \/ FlushTick \/ HistoryArrives \/ HistoryFails
             \/ \E m \in Message : Retry(m) \/ Drop(m)
    <3>1. /\ upFrames \subseteq upFrames' /\ UNCHANGED <<socket, downFrames, bridge, watching>>
          /\ JustSent \/ KeepsSend(tab'.run, tab.run)
      BY <2>1, PageSends
    <3> QED
      BY <3>1 DEF JustSent, KeepsSend, SendIsAwaited, AnswerDue
  <2>2. CASE SocketCloses \/ Reload \/ SocketReady
    <3>1. tab'.run.phase # "pendingSend" \/ JustSent
      BY <2>2, SocketSends
    <3> QED
      BY <3>1 DEF JustSent, SendIsAwaited, AnswerDue
  <2>3. CASE FrameReceived
    BY <2>3, ReceivedSends
  <2>4. CASE BridgeStep
    BY <2>4, BridgeSends
  <2>5. CASE UNCHANGED outboxVars
    BY <2>5 DEF outboxVars, bridgeVars, SendIsAwaited, AnswerDue
  <2> QED
    BY <2>1, <2>2, <2>3, <2>4, <2>5 DEF OutboxNext, BridgeStep
<1> QED
  BY <1>1, <1>2, OutboxTypes, PTL DEF OutboxSpec
=============================================================================
