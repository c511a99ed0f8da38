----------------------------- MODULE LocalStore -----------------------------
(***************************************************************************)
(* local/local_store.cc over the mutation queue and the remote document    *)
(* cache, both on disk: what one device has written and not had settled,   *)
(* and what it has last heard from the server of each document.            *)
(*                                                                         *)
(* The app writes one document at a time, whole (setData) or not at all    *)
(* (delete), without preconditions: a batch is one mutation, and the last  *)
(* batch on a document hides whatever is below it.  "write" numbers the    *)
(* app's writes and is not in the code: batch IDs start over when a        *)
(* process finds the queue empty.                                          *)
(***************************************************************************)
EXTENDS Integers, SequencesExt

CONSTANTS
  Keys,        \* documents of the collection
  MaxWrites    \* bound on this device's writes

ASSUME WritesAssumption == MaxWrites \in Nat

VARIABLES
  queue,       \* the mutation queue, in the order of its batch IDs
  nextBatchID, \* next_batch_id_, kept in memory
  cache,       \* the remote document cache
  lastRemote   \* version of the last snapshot from the server

storeVars == <<queue, nextBatchID, cache, lastRemote>>

\* Contents of a document: a write of this device has its number for content,
\* other devices' contents are negative.
Absent   == 0
Batch    == [id : Nat \ {0}, write : 1..MaxWrites, key : Keys, value : 0..MaxWrites]
Document == [value : Int, version : Nat, committed : BOOLEAN]

Unknown == [value |-> Absent, version |-> 0, committed |-> FALSE]

StoreInit ==
  /\ queue = <<>> /\ nextBatchID = 1
  /\ cache = [k \in Keys |-> Unknown] /\ lastRemote = 0

\* Slip: batch IDs start at 1 whatever is in the queue.
NextBatchIDFromDisk_One(q) == 1

\* Slip: an empty queue starts at the ID that stands for none.
NextBatchIDFromDisk_Zero(q) == IF q = <<>> THEN 0 ELSE q[Len(q)].id + 1

\* LoadNextBatchIdFromDb: one more than the largest in the queue.
NextBatchIDFromDisk(q) == IF q = <<>> THEN 1 ELSE q[Len(q)].id + 1

\* What is in memory is gone with the process; the next one reads the disk.
StoreRestarts ==
  /\ nextBatchID' = NextBatchIDFromDisk(queue)
  /\ UNCHANGED <<queue, cache, lastRemote>>

\* The batches of the queue that touch a document.
On(q, k)      == { i \in DOMAIN q : q[i].key = k }
Pending(q, k) == On(q, k) # {}

\* GetDocument: the cached document under the batches that touch it.
Overlay(q, c, k) == IF Pending(q, k) THEN q[Max(On(q, k))].value ELSE c[k].value

WriteLocally(n, k, x) ==
  /\ queue' = Append(queue, [id |-> nextBatchID, write |-> n, key |-> k, value |-> x])
  /\ nextBatchID' = nextBatchID + 1
  /\ UNCHANGED <<cache, lastRemote>>

\* RemoveMutationBatch: the row of that ID, which must be there.
RemoveBatch(b) ==
  \E i \in DOMAIN queue : queue[i].id = b.id /\ queue' = RemoveAt(queue, i)

\* Slip: an acknowledgement overwrites whatever watch has said since.
ApplyBatchResult_Always(b, version) ==
  cache' = [cache EXCEPT ![b.key] = [value |-> b.value, version |-> version, committed |-> TRUE]]

\* ApplyBatchResult: the written contents, unless watch has said more since.
ApplyBatchResult(b, version) ==
  cache' = IF cache[b.key].version < version
           THEN [cache EXCEPT ![b.key] =
                   [value |-> b.value, version |-> version, committed |-> TRUE]]
           ELSE cache

AcknowledgeBatch(b, version) ==
  /\ ApplyBatchResult(b, version) /\ RemoveBatch(b)
  /\ UNCHANGED <<nextBatchID, lastRemote>>

RejectBatch(b) ==
  /\ RemoveBatch(b)
  /\ UNCHANGED <<nextBatchID, cache, lastRemote>>

\* Slip: what watch sends is always taken.
Supersedes_Always(new, old) == TRUE

\* Slip: a document of the version known is ignored.
Supersedes_NewerOnly(new, old) == new.version > old.version

\* An update is taken when it is newer, or confirms an acknowledged write.
Supersedes(new, old) ==
  new.version > old.version \/ (new.version = old.version /\ old.committed)

\* ApplyRemoteEvent: the documents of a snapshot that are news.
News(docs) == { k \in DOMAIN docs : Supersedes(docs[k], cache[k]) }

ApplyRemoteEvent(docs, version) ==
  /\ cache' = [k \in Keys |-> IF k \in News(docs) THEN docs[k] ELSE cache[k]]
  /\ lastRemote' = version
  /\ UNCHANGED <<queue, nextBatchID>>

=============================================================================
