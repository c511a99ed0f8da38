------------------------ MODULE WatchTargetProperties ------------------------
(***************************************************************************)
(* What must hold of WatchTarget.                                          *)
(***************************************************************************)
EXTENDS WatchTarget

\* A refusal that crosses an unlisten leaves the count wrong, either way; so
\* what depends on the count is stated without one of the two.
NoRefusalCrossed == spent["refusals"] = 0 \/ spent["unlistens"] = 0

\* A current view has the documents the server had at the snapshot, whatever
\* listens, unlistens, messages of earlier listens, streams and counts have
\* crossed; unless a listen was ended in the middle of a reset (see below).
UncutViewIsServers == current /\ ~cut /\ NoRefusalCrossed => synced = asOf

\* remote_event.h:208-209 says that a target counts "The number of outstanding
\* responses (adds or removes) that we are waiting on": requests not served
\* and answers not read.
Answers(ms) == { i \in DOMAIN ms : ms[i].type \in {"added", "removed", "refused"} }
OutstandingAreCounted ==
  open /\ NoRefusalCrossed =>
    state.pending = Len(requests) + Cardinality(Answers(messages))

\* The HARD_ASSERT of ApplyTargetChange holds: what is modified was listed.
ModifiedAreListed == ~broken

\* Once every request is served and every message read, a query that is listened
\* to is current and has what the server has, however it came there: nothing
\* more would come to put it right.
SettledViewIsServers ==
  open /\ listened /\ requests = <<>> /\ messages = <<>> /\ ~cut /\ NoRefusalCrossed =>
    current /\ synced = present

\* A query that is listened to in the end has what the server has, deletions
\* it was told of by count only included.
ListenConverges ==
  <>[](listened /\ ~cut /\ NoRefusalCrossed) => <>[](current /\ synced = present)

-----------------------------------------------------------------------------
\* view.h:225-229 says "A view is considered current after it has seen the
\* current flag from the backend and did not lose consistency within the watch
\* stream (e.g. because of an existence filter mismatch)".
CurrentViewIsServers == current => synced = asOf

=============================================================================
