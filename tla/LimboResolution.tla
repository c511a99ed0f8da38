--------------------------- MODULE LimboResolution ---------------------------
(***************************************************************************)
(* core/sync_engine.cc and core/view.cc: documents in limbo.  A document   *)
(* that this device has, but that the server does not list for the query,  *)
(* is looked up by a listen of its own; SyncEngine starts a few of these   *)
(* at a time and queues the rest.                                          *)
(*                                                                         *)
(* There is one query, that of the app's collection, which every document  *)
(* matches.  "tracker" is SyncEngine's bookkeeping, on which its methods   *)
(* are operators, as one task makes many of their calls in a row.  Target  *)
(* IDs are reused here, not in the code: nothing but their being distinct  *)
(* matters.                                                                *)
(***************************************************************************)
EXTENDS Integers, FiniteSets, Sequences

CONSTANTS
  Keys,           \* documents, in the order of their numbers
  MaxConcurrent,  \* max_concurrent_limbo_resolutions_
  MaxEnqueued     \* bound on enqueued_limbo_resolutions_

ASSUME LimboAssumption ==
  /\ Keys \subseteq Nat /\ IsFiniteSet(Keys)
  /\ MaxConcurrent \in Nat \ {0} /\ MaxEnqueued \in Nat

VARIABLES
  cached,    \* documents in the remote document cache
  pending,   \* for each document, what a write not settled makes of it
  held,      \* own writes, settled, that the view shows as unsettled still
  listening, \* the query is listened to
  synced,    \* View::synced_documents_, and the target's remote keys on disk
  current,   \* View::current_
  limbo,     \* View::limbo_documents_
  tracker    \* SyncEngine's record of resolutions

vars == <<cached, pending, held, listening, synced, current, limbo, tracker>>

NewTracker ==
  [refs     |-> {},    \* limbo_document_refs_
   enqueued |-> <<>>,  \* enqueued_limbo_resolutions_
   byKey    |-> <<>>,  \* active_limbo_targets_by_key_
   byTarget |-> <<>>]  \* active_limbo_resolutions_by_target_

\* A DocumentKeySet runs through its keys in their order.
Sorted(ks) ==
  CHOOSE s \in [1..Cardinality(ks) -> ks] : \A i, j \in 1..Cardinality(ks) : i < j => s[i] < s[j]

-----------------------------------------------------------------------------
(* SyncEngine.                                                             *)

NextId(t) == CHOOSE id \in 1..(Cardinality(DOMAIN t.byTarget) + 1) : id \notin DOMAIN t.byTarget

HasSlot(t) == t.enqueued # <<>> /\ Cardinality(DOMAIN t.byKey) < MaxConcurrent

\* emplace leaves an entry that is there alone; erase takes one out.
Emplaced(f, i, x) == [j \in DOMAIN f \cup {i} |-> IF j \in DOMAIN f THEN f[j] ELSE x]
Erased(f, i)      == [j \in DOMAIN f \ {i} |-> f[j]]

\* The body of the loop of PumpEnqueuedLimboResolutions.
StartNext(t) ==
  LET k == Head(t.enqueued) id == NextId(t) IN
  [t EXCEPT !.enqueued = Tail(@), !.byTarget = Emplaced(@, id, k), !.byKey = Emplaced(@, k, id)]

Round(t) == IF HasSlot(t) THEN StartNext(t) ELSE t

PumpEnqueued(t) ==
  LET after[n \in 0..Len(t.enqueued)] == IF n = 0 THEN t ELSE Round(after[n-1])
  IN  after[Len(t.enqueued)]

\* Slip: a document for which there is no slot is forgotten.
TrackLimboChange_IfSlot(t, k) ==
  IF Cardinality(DOMAIN t.byKey) >= MaxConcurrent THEN t
  ELSE PumpEnqueued([t EXCEPT !.enqueued = Append(@, k)])

TrackLimboChange(t, k) ==
  IF k \in DOMAIN t.byKey THEN t ELSE PumpEnqueued([t EXCEPT !.enqueued = Append(@, k)])

\* Slip: the slot that comes free is not used.
RemoveLimboTarget_NoPump(t, k) ==
  IF k \notin DOMAIN t.byKey THEN t
  ELSE [t EXCEPT !.byKey = Erased(@, k), !.byTarget = Erased(@, t.byKey[k])]

RemoveLimboTarget(t, k) ==
  IF k \notin DOMAIN t.byKey THEN t
  ELSE PumpEnqueued([t EXCEPT !.byKey = Erased(@, k), !.byTarget = Erased(@, t.byKey[k])])

LimboAdded(t, k)   == TrackLimboChange([t EXCEPT !.refs = @ \cup {k}], k)
LimboRemoved(t, k) == RemoveLimboTarget([t EXCEPT !.refs = @ \ {k}], k)

\* What a key in the loops over keys meets with.
Called(t, call, k) ==
  CASE call = "added"   -> LimboAdded(t, k)
    [] call = "removed" -> LimboRemoved(t, k)
    [] call = "dropped" -> RemoveLimboTarget(t, k)

Each(t, call, ks) ==
  LET after[n \in 0..Cardinality(ks)] ==
        IF n = 0 THEN t ELSE Called(after[n-1], call, Sorted(ks)[n])
  IN  after[Cardinality(ks)]

\* Slip: only what enters limbo is seen to.
UpdateTracked_Added(t, old, new) == Each(t, "added", new \ old)

\* UpdateTrackedLimboDocuments: those that left first, in the order of keys.
UpdateTracked(t, old, new) == Each(Each(t, "removed", old \ new), "added", new \ old)

\* RemoveAndCleanupTarget: the references go, then each key's target.
CleanedUp(t) == Each([t EXCEPT !.refs = {}], "dropped", t.refs)

\* Slip: the document's own entry stays.
Rejected_KeepsKey(t, id) == PumpEnqueued([t EXCEPT !.byTarget = Erased(@, id)])

\* HandleRejectedListen of a limbo target, up to the event it makes up.
Rejected(t, id) ==
  PumpEnqueued([t EXCEPT !.byKey = Erased(@, t.byTarget[id]), !.byTarget = Erased(@, id)])

-----------------------------------------------------------------------------
(* The view.                                                               *)

Results  == { k \in Keys : pending[k] = "set" \/ (pending[k] = "none" /\ k \in cached) }
HasLocal == { k \in Keys : pending[k] = "set" } \cup held

ShouldBeInLimbo == Results \ (synced \cup HasLocal)

\* UpdateLimboDocuments: only a current view knows.
UpdatedLimbo == IF current' THEN ShouldBeInLimbo' ELSE limbo

\* View::ApplyChanges and UpdateTrackedLimboDocuments, at the end of every
\* task that changes documents, from the bookkeeping t.
ApplyChanges(t) ==
  /\ limbo' = IF listening THEN UpdatedLimbo ELSE limbo
  /\ tracker' = UpdateTracked(t, limbo, limbo')
  /\ Len(tracker'.enqueued) <= MaxEnqueued

-----------------------------------------------------------------------------
Init ==
  /\ cached \in SUBSET Keys /\ pending = [k \in Keys |-> "none"] /\ held = {}
  /\ listening = FALSE /\ synced \in SUBSET cached /\ current = FALSE
  /\ limbo = {} /\ tracker = NewTracker

\* SyncEngine::Listen: a view of what is on disk, not current.
Listen ==
  /\ ~listening /\ listening' = TRUE
  /\ UNCHANGED <<cached, pending, held, synced, current, limbo, tracker>>

\* StopListening, or HandleRejectedListen of the query.
ListenEnds ==
  /\ listening /\ listening' = FALSE
  /\ current' = FALSE /\ limbo' = {} /\ held' = {}
  /\ tracker' = CleanedUp(tracker)
  /\ UNCHANGED <<cached, pending, synced>>

Write(k) ==
  /\ pending[k] = "none"
  /\ \E x \in {"set", "delete"} : pending' = [pending EXCEPT ![k] = x]
  /\ held' = held \ {k}
  /\ UNCHANGED <<cached, listening, synced, current>> /\ ApplyChanges(tracker)

Settled(k) == pending[k] # "none" /\ pending' = [pending EXCEPT ![k] = "none"]

\* HandleSuccessfulWrite: the view waits for watch to send the document,
\* unless a target that has it has sent it already.
WriteAcknowledged(k) ==
  /\ Settled(k)
  /\ cached' = IF pending[k] = "set" THEN cached \cup {k} ELSE cached \ {k}
  /\ \/ listening /\ pending[k] = "set" /\ held' = held \cup {k}
     \/ /\ ~listening \/ pending[k] = "delete" \/ k \in synced \cup DOMAIN tracker.byKey
        /\ UNCHANGED held
  /\ UNCHANGED <<listening, synced, current>> /\ ApplyChanges(tracker)

\* Slip: the views are not told.
WriteRejected_Silently(k) ==
  /\ Settled(k)
  /\ UNCHANGED <<cached, held, listening, synced, current, limbo, tracker>>

\* HandleRejectedWrite.
WriteRejected(k) ==
  /\ Settled(k)
  /\ UNCHANGED <<cached, held, listening, synced, current>> /\ ApplyChanges(tracker)

\* ApplyRemoteEvent with a change of the query's target.
QueryChanges ==
  /\ listening
  /\ \E added, deleted \in SUBSET Keys :
       /\ added \cap deleted = {}
       /\ synced' = (synced \cup added) \ deleted
       /\ cached' = (cached \cup added) \ deleted
       /\ held' = held \ (added \cup deleted)
  /\ current' \in BOOLEAN
  /\ UNCHANGED <<pending, listening>> /\ ApplyChanges(tracker)

\* ... with a target that was reset: nothing is known to be in the query.
QueryReset ==
  /\ listening
  /\ synced' = {} /\ current' = FALSE
  /\ UNCHANGED <<cached, pending, held, listening>> /\ ApplyChanges(tracker)

\* ... with the end of a lookup: the document is there, or is not.
LookedUp(k) ==
  /\ cached' \in {cached \cup {k}, cached \ (IF k \in synced THEN {} ELSE {k})}
  /\ held' = held \ {k}
  /\ UNCHANGED <<pending, listening, synced, current>> /\ ApplyChanges(tracker)

\* HandleRejectedListen of a limbo target: taken for a deletion.
LookupRejected(id) ==
  /\ cached' = cached \ {tracker.byTarget[id]}
  /\ held' = held \ {tracker.byTarget[id]}
  /\ UNCHANGED <<pending, listening, synced, current>> /\ ApplyChanges(Rejected(tracker, id))

\* HandleOnlineStateChange to offline.
GoesOffline ==
  /\ current /\ current' = FALSE
  /\ UNCHANGED <<cached, pending, held, listening, synced, limbo, tracker>>

Next ==
  \/ Listen \/ ListenEnds \/ GoesOffline \/ QueryChanges \/ QueryReset
  \/ \E k \in Keys : Write(k) \/ WriteAcknowledged(k) \/ WriteRejected(k)
  \/ \E id \in DOMAIN tracker.byTarget :
       LookedUp(tracker.byTarget[id]) \/ LookupRejected(id)

Spec == Init /\ [][Next]_vars

=============================================================================
