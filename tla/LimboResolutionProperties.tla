---------------------- MODULE LimboResolutionProperties ----------------------
(***************************************************************************)
(* What must hold of LimboResolution.                                      *)
(***************************************************************************)
EXTENDS LimboResolution

\* SyncEngine's references name what the view has in limbo, through refusals,
\* resets and the end of a listen.
RefsAreLimbo == tracker.refs = limbo

\* No lookup waits while there is a slot for it, whichever task freed one.
SlotsUsed ==
  tracker.enqueued # <<>> => Cardinality(DOMAIN tracker.byKey) = MaxConcurrent

\* What is known by document is known by target: RemoveLimboTarget can stop
\* the target it finds, and never stops another document's.
KeysHaveTargets ==
  \A k \in DOMAIN tracker.byKey :
    LET id == tracker.byKey[k] IN id \in DOMAIN tracker.byTarget /\ tracker.byTarget[id] = k

\* A view that says it is in sync (current, nothing in limbo) shows only what
\* the server lists for the query and this device's own writes.
SyncedViewIsServers ==
  listening /\ current /\ limbo = {} => Results \subseteq synced \cup HasLocal

\* A document that enters limbo is looked up, or waits for a slot, until it
\* leaves limbo; only the server's refusal ends a lookup before, and then
\* with the document gone from the cache.
Resolving(t) == { t.enqueued[i] : i \in DOMAIN t.enqueued } \cup DOMAIN t.byKey
LookupsGoOn ==
  [][ \A k \in tracker'.refs : k \notin Resolving(tracker') =>
        k \in tracker.refs /\ (k \in Resolving(tracker) => k \notin cached') ]_vars

=============================================================================
