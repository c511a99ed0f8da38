---------------------- MODULE FirestoreClientProperties ----------------------
(***************************************************************************)
(* What must hold of FirestoreClient.                                      *)
(***************************************************************************)
EXTENDS FirestoreClient, SequencesExt

\* Every variable has its type.
TypeOK ==
  /\ queue \in Seq(Batch) /\ nextBatchID \in Nat \ {0}
  /\ cache \in [Keys -> Document] /\ lastRemote \in Nat
  /\ alive \in BOOLEAN /\ network \in BOOLEAN /\ handshake \in BOOLEAN
  /\ pipeline \in Seq(Batch) /\ write \in StreamRecord
  /\ shown \in [Keys -> Shown]
  /\ sent \in Seq(Batch \cup {Hello}) /\ replies \in Seq(Reply)
  /\ commits \in Seq(Commit)
  /\ outcome \in [1..MaxWrites -> {"none", "ok", "denied"}]
  /\ denied \subseteq 1..writes /\ writes \in 0..MaxWrites
  /\ troubles \in 0..MaxTroubles

\* What is in flight is the oldest of what is unsettled, in order, each once
\* and never more than the limit, whatever refills, failures, rejections,
\* restarts and reused batch IDs have gone before; a fresh write's ID is
\* larger than any in the queue.
PipelineHeadsQueue ==
  /\ Len(pipeline) <= Upto(0, MaxPending, Len(queue))
  /\ pipeline = SubSeq(queue, 1, Len(pipeline))
  /\ \A i, j \in DOMAIN queue : i < j => queue[i].id < queue[j].id
  /\ alive => \A i \in DOMAIN queue : queue[i].id < nextBatchID

\* The answers to come on a stream, read and unread, are those to the
\* pipeline from its head on: an answer is never taken for another write's.
Unanswered ==
  [i \in DOMAIN replies |-> replies[i].of] \o (IF Refused THEN <<>> ELSE sent)
AnswersMatchPipeline ==
  handshake => /\ IsPrefix(Unanswered, pipeline)
               /\ Refused \/ Len(Unanswered) = Len(pipeline)

\* The HARD_ASSERTs of the streams hold, and the idle timer, which closes the
\* stream for good, only runs while there is nothing to write.
StreamAssertionsHold ==
  ~write.broken /\ (write.idle => pipeline = <<>>)

\* No write is lost between WriteLocally and the server: until it has been
\* committed or refused it is in the queue, through every death and restart.
Committed(w) == \E i \in DOMAIN commits : commits[i].write = w
NoWriteLost ==
  \A w \in 1..writes :
    (\E i \in DOMAIN queue : queue[i].write = w) \/ Committed(w) \/ w \in denied

\* The app is told "ok" of committed writes only and "error" of refused ones,
\* and only when they have left the queue.
CallbacksTellTheTruth ==
  \A w \in 1..writes :
    /\ outcome[w] = "ok" => Committed(w)
    /\ outcome[w] = "denied" => w \in denied
    /\ outcome[w] # "none" => \A i \in DOMAIN queue : queue[i].write # w

\* Writes are sent again after lost answers, so the server may go back to an
\* older write of this device for a while; once nothing of a document is
\* unsettled, its last own commit is its newest write that was not refused.
LastWriteWins ==
  \A k \in Keys : ~Pending(queue, k) =>
    \A i \in DOMAIN commits :
      commits[i].key = k /\ commits[i].write # 0 /\ commits[i].write \notin denied =>
        \E j \in i..Len(commits) :
          /\ commits[j].key = k
          /\ \A n \in DOMAIN commits :
               commits[n].key = k /\ commits[n].write \notin denied
                 => commits[n].write <= commits[j].write

\* The cache holds what the server had at the version it names, although
\* acknowledgements and watch snapshots arrive in any order; and watch has
\* not passed a document that waits for its confirmation.
CacheIsServerState ==
  \A k \in Keys :
    /\ cache[k].version <= Len(commits)
    /\ cache[k].value = ServerValue(commits, k, cache[k].version)
    /\ cache[k].committed => cache[k].version > lastRemote
    /\ lastRemote = 0 \/ cache[k].value = ServerValue(commits, k, lastRemote)
         \/ cache[k].version > lastRemote

\* The list shows the documents with this device's writes on them, or an own
\* write, settled, whose confirmation by watch is still to come.
ListShowsDocuments ==
  alive => \A k \in Keys :
    \/ shown[k].value = Overlay(queue, cache, k) /\ (shown[k].local => Pending(queue, k) \/ cache[k].committed)
    \/ shown[k].local /\ cache[k].committed /\ ~Pending(queue, k)

\* No write waits for something that will not come: with the network on, what
\* is unsettled is in flight up to the limit and has a stream that is started;
\* and an open stream with nothing on its way either has nothing to settle.
NothingIsStuck ==
  network =>
    /\ Len(pipeline) = Upto(0, MaxPending, Len(queue))
    /\ pipeline # <<>> => IsStarted(write)
    /\ IsOpen(write) /\ sent = <<>> /\ replies = <<>> => queue = <<>>

\* Once this device's writes are settled and watch has come to the server's
\* last commit, the list is what the server has and says so of every document,
\* in whatever order answers, snapshots and restarts came: nothing is held
\* back, for no further snapshot would release it.
SettledListIsServers ==
  alive /\ queue = <<>> /\ lastRemote = Len(commits) =>
    \A k \in Keys : shown[k] = [value |-> ServerValue(commits, k, Len(commits)), local |-> FALSE]

-----------------------------------------------------------------------------
Collection == INSTANCE SharedCollection WITH
  log       <- commits,
  unsettled <- [i \in DOMAIN queue |-> Written(queue[i])],
  seen      <- [k \in Keys |-> cache[k].version]

\* The client keeps the promises of SharedCollection: own writes at once and
\* until settled, settled in order, documents never back to older contents.
ImplementsSharedCollection == Collection!Spec

\* A process that lives on with its network on settles every write.
WritesSettle == <>[](alive /\ network) => <>[](queue = <<>>)

\* And in the end its list shows what the server has.
ListConverges ==
  <>[](alive /\ network) =>
    <>[](\A k \in Keys : shown[k] = [value |-> ServerValue(commits, k, Len(commits)), local |-> FALSE])

=============================================================================
