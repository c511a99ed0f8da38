-------------------------- MODULE FirestoreClient --------------------------
(***************************************************************************)
(* The Firestore client of one device: SyncEngine, the write half of       *)
(* RemoteStore and WriteStream over LocalStore and Stream, with the server *)
(* and the other devices around them.                                      *)
(*                                                                         *)
(* Everything of the client runs on one worker queue, so a task (a call of *)
(* the app, a message, a timer) is one action, with all the callbacks it   *)
(* makes.  Between tasks the network fails, the server takes what was      *)
(* sent, other devices write, and the process may end.                     *)
(*                                                                         *)
(* Of the server: it serves the requests of a stream in order, and none    *)
(* after the stream has closed.  Whether it has committed a request whose  *)
(* answer was lost, the client cannot know, and sends it again.            *)
(***************************************************************************)
EXTENDS LocalStore, Stream

CONSTANTS
  Deletes,     \* the writes that are deletes
  MaxPending,  \* kMaxPendingWrites, 10 in the code
  MaxTroubles  \* bound on what comes between: streams that fail, writes refused,
               \* ends of the process or of the network's use, others' writes

ASSUME ClientAssumption ==
  /\ Deletes \subseteq Nat
  /\ MaxPending \in Nat \ {0}
  /\ MaxTroubles \in Nat

VARIABLES
  alive,       \* the process runs
  network,     \* is_network_enabled_
  pipeline,    \* write_pipeline_
  write,       \* the write stream
  handshake,   \* handshake_complete_
  callbacks,   \* mutation_callbacks_: batch ID -> the write waiting for it
  shown,       \* the query view: what the listeners have been told
  sent,        \* requests of the present stream the server has not served
  replies,     \* answers to them the client has not read
  commits,     \* the server's commits, versions being positions
  outcome,     \* history: what the app was told of each write
  denied,      \* history: writes the server has refused
  writes, troubles  \* what is spent of the bounds

clientVars == <<alive, network, pipeline, write, handshake, callbacks, shown>>
wireVars   == <<sent, replies>>
bounds     == <<writes, troubles>>
vars == <<storeVars, clientVars, wireVars, commits, outcome, denied, bounds>>

Hello  == [id |-> 0]
Denied == 0
Commit == [write : 0..MaxWrites, key : Keys, value : Int]
Reply  == [of : Batch \cup {Hello}, version : Nat]
Shown  == [value : Int, local : BOOLEAN]

Upto(n, a, b) == IF a < b THEN a ELSE b

-----------------------------------------------------------------------------
(* The server.                                                             *)

\* The last commit on a document at a version of the server; 0 if none.
LastCommit(log, k, version) == Max({0} \cup { i \in 1..version : log[i].key = k })

ServerValue(log, k, version) ==
  LET i == LastCommit(log, k, version) IN IF i = 0 THEN Absent ELSE log[i].value

\* The document watch sends for a version: a deletion carries the version at
\* which it was seen, contents that of their commit.
ServerDocument(log, k, version) ==
  LET x == ServerValue(log, k, version) IN
  [value |-> x, version |-> IF x = Absent THEN version ELSE LastCommit(log, k, version),
   committed |-> FALSE]

-----------------------------------------------------------------------------
(* What the client's tasks share.                                          *)

\* Slip: the refill starts over from the head of the queue.
Unsent_FromHead(q, p) == q

\* NextMutationBatchAfterBatchId, on and on: the queue from the first batch
\* whose ID is after that of the pipeline's last.
Unsent(q, p) ==
  LET later == { i \in DOMAIN q : p = <<>> \/ q[i].id > p[Len(p)].id } IN
  IF later = {} THEN <<>> ELSE SubSeq(q, Min(later), Len(q))

\* FillWritePipeline on a pipeline p and a stream s: what it adds, and what
\* becomes of the stream.  An open stream is sent what is added, or waits to
\* be idle when there is nothing; a stopped one is started when needed.
Added(p, on) ==
  LET next == Unsent(queue', p) IN
  SubSeq(next, 1, Upto(0, Len(next), IF on THEN MaxPending - Len(p) ELSE 0))

ShouldStart(p, s, on) == on /\ ~IsStarted(s) /\ p # <<>>

\* Slip: a batch is sent as soon as the stream is open.
CanSend_Open(s, shook) == IsOpen(s)

\* Batches follow the handshake.
CanSend(s, shook) == IsOpen(s) /\ shook

FilledStream(p, s, shook, on) ==
  LET more == Added(p, on)
      used == IF more # <<>> /\ CanSend(s, shook) THEN Write(s)
              ELSE IF on /\ p \o more = <<>> THEN MarkIdle(s) ELSE s
  IN IF ShouldStart(p \o more, used, on) THEN Start(used) ELSE used

FillWritePipeline(p, s, shook, on) ==
  /\ pipeline' = p \o Added(p, on)
  /\ write' = FilledStream(p, s, shook, on)

\* Slip: the change is kept back although watch has spoken.
ShowDocument_Waits(old, new) ==
  IF old.value # Absent /\ new.value # Absent /\ old.local /\ ~new.local
  THEN old
  ELSE [value |-> new.value, local |-> new.local]

\* View::ComputeDocumentChanges for one document: the change is kept back
\* while an own write, acknowledged, waits for watch to send its document.
ShowDocument(old, new) ==
  IF /\ old.value # Absent /\ new.value # Absent
     /\ old.local /\ ~new.local /\ new.committed
  THEN old
  ELSE [value |-> new.value, local |-> new.local]

Local(q, c, k) ==
  [value |-> Overlay(q, c, k), local |-> Pending(q, k),
   committed |-> c[k].committed /\ ~Pending(q, k)]

\* EmitNewSnapshotsAndNotifyLocalStore: the documents ks have changed.
EmitNewSnapshots(ks) ==
  shown' = [k \in Keys |->
              IF k \in ks THEN ShowDocument(shown[k], Local(queue', cache', k)) ELSE shown[k]]

\* NotifyUser: restored batches have no callback.
NotifyUser(id, how) ==
  /\ outcome' = [w \in DOMAIN outcome |->
                   IF id \in DOMAIN callbacks /\ callbacks[id] = w THEN how ELSE outcome[w]]
  /\ callbacks' = [i \in DOMAIN callbacks \ {id} |-> callbacks[i]]

-----------------------------------------------------------------------------
(* Calls of the app, the process, the network switch.                      *)

Init ==
  /\ StoreInit
  /\ alive = FALSE /\ network = FALSE
  /\ pipeline = <<>> /\ write = NewStream /\ handshake = FALSE
  /\ callbacks = <<>> /\ shown = [k \in Keys |-> [value |-> Absent, local |-> FALSE]]
  /\ sent = <<>> /\ replies = <<>> /\ commits = <<>>
  /\ outcome = [w \in 1..MaxWrites |-> "none"] /\ denied = {}
  /\ writes = 0 /\ troubles = 0

\* LocalStore::Start and RemoteStore::Start, and the list's listener.
Launch ==
  /\ ~alive /\ alive' = TRUE /\ network' = TRUE
  /\ StoreRestarts
  /\ FillWritePipeline(<<>>, NewStream, FALSE, TRUE)
  /\ shown' = [k \in Keys |-> [value |-> Overlay(queue, cache, k), local |-> Pending(queue, k)]]
  /\ UNCHANGED <<handshake, callbacks, wireVars, commits, outcome, denied, bounds>>

Trouble == troubles < MaxTroubles /\ troubles' = troubles + 1

Die ==
  /\ alive /\ alive' = FALSE /\ network' = FALSE
  /\ Trouble
  /\ pipeline' = <<>> /\ write' = NewStream /\ handshake' = FALSE
  /\ callbacks' = <<>> /\ sent' = <<>> /\ replies' = <<>>
  /\ UNCHANGED <<storeVars, shown, commits, outcome, denied, writes>>

\* SyncEngine::WriteMutations.
WriteMutations(k, x) ==
  /\ alive
  /\ writes < MaxWrites /\ writes' = writes + 1
  /\ WriteLocally(writes', k, x)
  /\ callbacks' = [i \in DOMAIN callbacks \cup {nextBatchID} |->
                     IF i = nextBatchID THEN writes' ELSE callbacks[i]]
  /\ EmitNewSnapshots({k})
  /\ FillWritePipeline(pipeline, write, handshake, network)
  /\ sent' = IF CanSend(write, handshake) THEN sent \o Added(pipeline, network) ELSE sent
  /\ UNCHANGED <<alive, network, handshake, replies, commits, outcome, denied,
                 troubles>>

SetOrDelete ==
  \E k \in Keys : WriteMutations(k, IF writes + 1 \in Deletes THEN Absent ELSE writes + 1)

Switched(from, to) ==
  /\ alive /\ network = from /\ network' = to
  /\ IF from THEN Trouble ELSE UNCHANGED troubles
  /\ handshake' = FALSE /\ sent' = <<>> /\ replies' = <<>>
  /\ UNCHANGED <<storeVars, alive, callbacks, shown, commits, outcome, denied,
                 writes>>

DisableNetwork ==
  /\ Switched(TRUE, FALSE)
  /\ pipeline' = <<>> /\ write' = Stop(write)

EnableNetwork ==
  /\ Switched(FALSE, TRUE)
  /\ FillWritePipeline(pipeline, write, FALSE, TRUE)

\* RemoteStore::HandleCredentialChange: stop and start again in one task.
HandleCredentialChange ==
  /\ Switched(TRUE, TRUE)
  /\ FillWritePipeline(<<>>, Stop(write), FALSE, TRUE)

-----------------------------------------------------------------------------
(* The write stream.                                                       *)

Idling == UNCHANGED <<storeVars, alive, network, callbacks, shown, commits, outcome, denied,
                      writes>>

TokenArrives ==
  /\ \E count \in write.auth : write' = TokenCame(write, count)
  /\ UNCHANGED <<pipeline, handshake, wireVars, troubles>> /\ Idling

\* OnWriteStreamOpen: the handshake is sent.
StreamOpens ==
  /\ write.state = "Starting" /\ write.grpc
  /\ write' = Write(Opened(write))
  /\ sent' = <<Hello>>
  /\ UNCHANGED <<pipeline, handshake, replies, troubles>> /\ Idling

BackoffEnds ==
  /\ write.state = "Backoff"
  /\ write' = BackoffElapsed(write)
  /\ UNCHANGED <<pipeline, handshake, wireVars, troubles>> /\ Idling

\* The idle timer: a graceful close, which must find nothing left to write.
IdleTimeout ==
  /\ write.idle
  /\ LET s == Stop(write) IN write' = Asserting(s, ~ShouldStart(pipeline, s, network))
  /\ handshake' = FALSE /\ sent' = <<>> /\ replies' = <<>>
  /\ UNCHANGED <<pipeline, troubles>> /\ Idling

\* Slip: the stream stays closed after an error.
Reopening_Never(s) == s

\* OnWriteStreamClose after an error that leaves the pipeline alone: the
\* stream starts again, through its backoff, if there is something to write.
Reopening(s) == IF ShouldStart(pipeline, s, network) THEN Start(s) ELSE s

StreamLost(s) ==
  /\ Trouble
  /\ write' = Reopening(Close(s, FALSE))
  /\ handshake' = FALSE /\ sent' = <<>> /\ replies' = <<>>
  /\ UNCHANGED pipeline /\ Idling

TokenFails ==
  /\ write.closeCount \in write.auth
  /\ StreamLost([write EXCEPT !.auth = @ \ {write.closeCount}])

\* No connection, one that is lost, a handshake refused, or an error that is
\* not permanent.
StreamFails == write.grpc /\ StreamLost(write)

\* Slip: only what is added after the handshake is sent.
Resent_Nothing(p) == <<>>

\* Slip: the newest is sent first.
Resent_NewestFirst(p) == [i \in DOMAIN p |-> p[Len(p) + 1 - i]]

\* OnWriteStreamHandshakeComplete: the whole pipeline is sent.
Resent(p) == p

HandshakeCompletes ==
  /\ replies # <<>> /\ Head(replies).of = Hello
  /\ handshake' = TRUE
  /\ sent' = sent \o Resent(pipeline)
  /\ write' = IF pipeline # <<>> THEN Write(write) ELSE write
  /\ replies' = Tail(replies)
  /\ UNCHANGED <<pipeline, troubles>> /\ Idling

Settling == UNCHANGED <<alive, network, commits, denied, bounds>>

\* OnWriteStreamMutationResult, HandleSuccessfulWrite: the answer is taken to
\* be that to the pipeline's head.
MutationResult ==
  /\ replies # <<>> /\ Head(replies).of # Hello /\ Head(replies).version # Denied
  /\ pipeline # <<>>
  /\ LET b == Head(pipeline) IN
     /\ NotifyUser(b.id, "ok")
     /\ AcknowledgeBatch(b, Head(replies).version)
     /\ EmitNewSnapshots({b.key})
  /\ FillWritePipeline(Tail(pipeline), write, handshake, network)
  /\ sent' = sent \o Added(Tail(pipeline), network)
  /\ replies' = Tail(replies)
  /\ UNCHANGED handshake /\ Settling

\* OnWriteStreamClose with a permanent error after the handshake,
\* HandleWriteError, HandleRejectedWrite: the head is given up, and the
\* stream starts again at once.
WriteDenied ==
  /\ replies # <<>> /\ Head(replies).of # Hello /\ Head(replies).version = Denied
  /\ pipeline # <<>>
  /\ LET b == Head(pipeline) IN
     /\ RejectBatch(b)
     /\ NotifyUser(b.id, "denied")
     /\ EmitNewSnapshots({b.key})
  /\ FillWritePipeline(Tail(pipeline), InhibitBackoff(Close(write, FALSE)), FALSE, network)
  /\ handshake' = FALSE /\ sent' = <<>> /\ replies' = <<>>
  /\ Settling

-----------------------------------------------------------------------------
(* The server, watch, and the other devices.                               *)

Refused == \E i \in DOMAIN replies : replies[i].of # Hello /\ replies[i].version = Denied

Answering(version) ==
  /\ sent # <<>> /\ ~Refused
  /\ replies' = Append(replies, [of |-> Head(sent), version |-> version])
  /\ sent' = Tail(sent)
  /\ UNCHANGED <<storeVars, clientVars, outcome, writes>>

ServeHandshake ==
  Answering(Denied) /\ Head(sent) = Hello /\ UNCHANGED <<commits, denied, troubles>>

Written(b) == [write |-> b.write, key |-> b.key, value |-> b.value]

ServeWrite ==
  /\ Answering(Len(commits) + 1) /\ Head(sent) # Hello
  /\ commits' = Append(commits, Written(Head(sent)))
  /\ UNCHANGED <<denied, troubles>>

Refuse ==
  /\ Trouble
  /\ Answering(Denied) /\ Head(sent) # Hello
  /\ denied' = denied \cup {Head(sent).write}
  /\ UNCHANGED commits

OtherWrites ==
  /\ Trouble
  /\ \E k \in Keys, x \in {-troubles', Absent} :
       commits' = Append(commits, [write |-> 0, key |-> k, value |-> x])
  /\ UNCHANGED <<storeVars, clientVars, wireVars, outcome, denied, writes>>

\* The documents committed between two versions.
Changed(from, to) == { commits[i].key : i \in (from + 1)..to }

\* OnWatchStreamChange with a snapshot version, when it is not behind the
\* last: the documents changed since, and any that are sent again.
WatchSnapshot ==
  /\ alive /\ network
  /\ UNCHANGED <<alive, network, pipeline, write, handshake, callbacks, wireVars,
                 commits, outcome, denied, bounds>>
  /\ \E version \in lastRemote..Len(commits) :
       LET new == Changed(lastRemote, version) IN
       \E again \in SUBSET (Changed(0, lastRemote) \ new) :
         LET docs == [k \in new \cup again |-> ServerDocument(commits, k, version)]
         IN ApplyRemoteEvent(docs, version) /\ EmitNewSnapshots(News(docs))

-----------------------------------------------------------------------------
App     == Launch \/ SetOrDelete \/ DisableNetwork \/ EnableNetwork \/ HandleCredentialChange
Client  == TokenArrives \/ StreamOpens \/ BackoffEnds \/ HandshakeCompletes
             \/ MutationResult \/ WriteDenied
Server  == ServeHandshake \/ ServeWrite \/ Refuse
Faults  == TokenFails \/ StreamFails \/ IdleTimeout \/ Die

Next == App \/ Client \/ Server \/ Faults \/ OtherWrites \/ WatchSnapshot

Spec == Init /\ [][Next]_vars

\* The worker queue runs its tasks and timers, tokens come, a stream that is
\* asked for opens, and the server answers and sends snapshots: nothing of
\* that is put off for ever.  Users, other devices, failures and the network
\* switch owe nothing.
FairSpec ==
  Spec /\ WF_vars(Client) /\ WF_vars(Server) /\ WF_vars(WatchSnapshot)

=============================================================================
