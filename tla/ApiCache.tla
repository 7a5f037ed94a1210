----------------------------- MODULE ApiCache -----------------------------
(***************************************************************************)
(* The browser's read cache (lib/public/js/lib/api-cache.js), for one key: *)
(* reads share a request in flight, writes and forced reads supersede it,  *)
(* and answers come back in any order.  The server, external, answers a    *)
(* request with the version it has when it handles it.                     *)
(*                                                                         *)
(* A generation is a counter that every write and every request bumps; all *)
(* that is ever asked of it is whether a request's is still the current    *)
(* one, so currentFetch names that request.                                 *)
(***************************************************************************)
EXTENDS Integers

CONSTANTS Fetch,     \* requests that may be under way at once
          NoFetch,
          MaxVersion \* bound: mutations of the server's data

ASSUME ApiCacheAssumption == NoFetch \notin Fetch /\ MaxVersion \in Nat

NoData == -1

VARIABLES
  serverVersion, \* of the data behind the key
  cached,        \* the entry's version
  error,         \* kErrorByKey: none, denied (401, 403) or other
  inFlightFetch, \* kInFlightByKey
  currentFetch,  \* the request of the current generation
  calls,         \* each request: where it is, the version it read
  required,      \* history: the version the last write or forced read made due
  joined         \* history: what was due when a caller was given the request

apiCacheVars == <<serverVersion, cached, error, inFlightFetch,
                  currentFetch, calls, required, joined>>

ApiCacheTypeOK ==
  /\ serverVersion \in 0..MaxVersion
  /\ cached \in {NoData} \cup 0..MaxVersion
  /\ error \in {"none", "denied", "other"}
  /\ inFlightFetch \in Fetch \cup {NoFetch}
  /\ currentFetch \in Fetch \cup {NoFetch}
  /\ calls \in [Fetch -> [step : {"free", "sent", "answered", "settled"},
                            saw : {NoData} \cup 0..MaxVersion]]
  /\ required \in 0..MaxVersion
  /\ joined \in [Fetch -> 0..MaxVersion]

FreeCall == [step |-> "free", saw |-> NoData]

ApiCacheInit ==
  /\ serverVersion = 0 /\ cached = NoData /\ error = "none"
  /\ inFlightFetch = NoFetch /\ currentFetch = NoFetch
  /\ calls = [r \in Fetch |-> FreeCall]
  /\ required = 0 /\ joined = [r \in Fetch |-> 0]

\* dispatch(): a request of its own generation.
Dispatch(r) ==
  /\ calls[r] = FreeCall
  /\ calls' = [calls EXCEPT ![r].step = "sent"]
  /\ inFlightFetch' = r /\ currentFetch' = r

\* A request in flight may be shared while its generation is current.
Reusable == inFlightFetch # NoFetch /\ inFlightFetch = currentFetch

\* cachedFetch() without force, where it does more than return the entry: how old
\* an entry may be is the caller's to say (a poll accepts none), so any entry may
\* be too old, and whoever gets a promise waits for the request in flight.
ReadCached ==
  /\ error # "denied"
  /\ IF Reusable
     THEN /\ joined' = [joined EXCEPT ![inFlightFetch] = required]
          /\ UNCHANGED <<calls, inFlightFetch, currentFetch>>
     ELSE \E r \in Fetch : Dispatch(r) /\ joined' = [joined EXCEPT ![r] = required]
  /\ UNCHANGED <<serverVersion, cached, error, required>>

\* cachedFetch() with force: the request in flight may predate what it is for.
ReadForced ==
  /\ \E r \in Fetch : Dispatch(r) /\ joined' = [joined EXCEPT ![r] = serverVersion]
  /\ required' = serverVersion
  /\ UNCHANGED <<serverVersion, cached, error>>

\* A mutation succeeded, of this page or of another one.
ServerChanges ==
  /\ serverVersion < MaxVersion /\ serverVersion' = serverVersion + 1
  /\ UNCHANGED <<cached, error, inFlightFetch, currentFetch, calls, required,
                 joined>>

\* Mutant: a write leaves the request in flight to later readers.
WriteCacheKeepingRequest(v) ==
  /\ cached' = v /\ error' = "none"
  /\ required' = serverVersion
  /\ UNCHANGED <<serverVersion, inFlightFetch, currentFetch, calls, joined>>

\* invalidateCache() and setCached(): requests under way are superseded, and what
\* the server has now is due to later readers.
WriteCache(v) ==
  /\ cached' = v /\ error' = "none"
  /\ inFlightFetch' = NoFetch /\ currentFetch' = NoFetch
  /\ required' = serverVersion
  /\ UNCHANGED <<serverVersion, calls, joined>>

Invalidate == WriteCache(NoData)

\* setCached() keeps what its caller holds: the answer to a mutation, to an earlier
\* read of its own, or a change merged into an older entry.
SetCached == \E v \in 0..serverVersion : WriteCache(v)

\* denyCachedKey(), of a session that was signed out: the request in flight is
\* superseded too.
Deny ==
  /\ cached' = NoData /\ error' = "denied"
  /\ inFlightFetch' = NoFetch /\ currentFetch' = NoFetch
  /\ UNCHANGED <<serverVersion, calls, required, joined>>

\* The server reads what it will answer.
ServerAnswers(r) ==
  /\ calls[r].step = "sent"
  /\ calls' = [calls EXCEPT ![r] = [step |-> "answered", saw |-> serverVersion]]
  /\ UNCHANGED <<serverVersion, cached, error, inFlightFetch, currentFetch, required,
                 joined>>

\* Mutant: every answer is written to the cache.
CommitsLate(r) == TRUE

\* Only the current generation may write.
Commits(r) == currentFetch = r

ResponseArrivesFor(r) ==
  /\ calls[r].step = "answered"
  /\ calls' = [calls EXCEPT ![r].step = "settled"]
  /\ IF Commits(r)
     THEN cached' = calls[r].saw /\ error' = "none"
     ELSE UNCHANGED <<cached, error>>
  /\ UNCHANGED <<serverVersion, inFlightFetch, currentFetch, required, joined>>

RefusedData(why) == IF why = "denied" THEN NoData ELSE cached

\* The request is refused, fails, is aborted or times out.
RequestFails(r) ==
  /\ calls[r].step \in {"sent", "answered"}
  /\ calls' = [calls EXCEPT ![r].step = "settled", ![r].saw = NoData]
  /\ IF Commits(r)
     THEN \E why \in {"denied", "other"} : error' = why /\ cached' = RefusedData(why)
     ELSE UNCHANGED <<cached, error>>
  /\ UNCHANGED <<serverVersion, inFlightFetch, currentFetch, required, joined>>

\* Its cleanup, a microtask later: only its own entry is cleared.
CleanupOf(r) == IF inFlightFetch = r THEN NoFetch ELSE inFlightFetch

RequestCleanup(r) ==
  /\ calls[r].step = "settled"
  /\ calls' = [calls EXCEPT ![r] = FreeCall]
  /\ inFlightFetch' = CleanupOf(r)
  /\ currentFetch' = IF currentFetch = r THEN NoFetch ELSE currentFetch
  /\ joined' = [joined EXCEPT ![r] = 0]
  /\ UNCHANGED <<serverVersion, cached, error, required>>

ApiCacheNext ==
  \/ ReadCached \/ ReadForced \/ ServerChanges \/ Invalidate \/ SetCached \/ Deny
  \/ \E r \in Fetch :
       ServerAnswers(r) \/ ResponseArrivesFor(r) \/ RequestFails(r) \/ RequestCleanup(r)

ApiCacheSpec == ApiCacheInit /\ [][ApiCacheNext]_apiCacheVars

----------------------------------------------------------------------------
(* Properties. *)

\* Whoever waits for a request is never given an answer older than the last write
\* or forced read before its call: cachedFetch() shares a request only while no
\* write and no other request came after it.
CallerSeesWrites ==
  \A r \in Fetch : calls[r].step \in {"answered", "settled"} /\ calls[r].saw # NoData
                       => calls[r].saw >= joined[r]

Promise == INSTANCE ReadYourWrites WITH
  source <- serverVersion, kept <- cached, due <- required

\* Only a write of the page may put something older in the cache: an answer is
\* kept when it is no older than the last write or forced read and than the entry
\* it replaces, in whatever order the answers come back (the generation check of
\* cachedFetch()).  Requests and the callers that share one are stutters.
ImplementsReadYourWrites == Promise!Spec

===========================================================================
