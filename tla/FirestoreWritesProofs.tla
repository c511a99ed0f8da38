----------------------- MODULE FirestoreWritesProofs -----------------------
(***************************************************************************)
(* Proofs about FirestoreClient, second part: what becomes of each write.  *)
(* It is never lost, the app is told the truth of it, and resending does   *)
(* not put an older write over a newer one for good; then the cache holds  *)
(* what the server had, the list shows the documents, and the client       *)
(* implements SharedCollection.                                            *)
(***************************************************************************)
EXTENDS FirestoreClientProofs, SequenceTheorems

\* A commit of a write after which the server takes no older one of this device.
LastOf(w, v) ==
  /\ v \in DOMAIN commits /\ commits[v].write = w
  /\ \A j \in DOMAIN commits : j > v => commits[j].write = 0 \/ commits[j].write > w

\* An answer to a write tells the truth, and is the last to that write.
Answered(r) ==
  IF r.version = Denied THEN r.of.write \in denied
  ELSE LastOf(r.of.write, r.version) /\ commits[r.version] = Written(r.of)

\* The server's log and the queue agree on what each write is, and a write
\* that has left the queue was refused or has its last commit.
LogInv ==
  /\ \A v \in DOMAIN commits : commits[v].write <= writes
  /\ \A v \in DOMAIN commits, j \in DOMAIN queue :
       commits[v].write = queue[j].write => commits[v] = Written(queue[j])
  /\ \A u, v \in DOMAIN commits :
       commits[u].write = commits[v].write /\ commits[u].write # 0 => commits[u] = commits[v]
  /\ \A i \in DOMAIN replies : replies[i].of # Hello => Answered(replies[i])
  /\ \A w \in 1..(writes - Len(queue)) : w \in denied \/ \E v \in DOMAIN commits : LastOf(w, v)

\* A callback waits for a batch of the queue, and what the app has been told
\* of a write is told when the write is settled.
CallbackInv ==
  /\ ~alive => DOMAIN callbacks = {}
  /\ \A id \in DOMAIN callbacks :
       \E i \in DOMAIN queue : queue[i].id = id /\ queue[i].write = callbacks[id]
  /\ \A w \in 1..MaxWrites :
       /\ outcome[w] # "none" => w <= writes - Len(queue)
       /\ outcome[w] = "ok" => Committed(w)
       /\ outcome[w] = "denied" => w \in denied

\* The inductive invariant of the writes.
WInv == IInv /\ LogInv /\ CallbackInv

-----------------------------------------------------------------------------
(* Steps that leave the writes, the queue and the log alone.               *)

\* What every task but the app's writes, answers read and answers given does
\* to the writes: nothing, but that the answers, or all callbacks, may go.
LEMMA QuietGood ==
  ASSUME LogInv, CallbackInv,
         UNCHANGED <<queue, writes, commits, denied, outcome>>,
         replies' = replies \/ replies' = <<>>,
         DOMAIN callbacks' = {} \/ (callbacks' = callbacks /\ (alive => alive'))
  PROVE  LogInv' /\ CallbackInv'
<1>1. LogInv'
  <2>1. \A r : Answered(r) => Answered(r)'
    BY DEF Answered, LastOf
  <2>2. \A w, v : LastOf(w, v) => LastOf(w, v)'
    BY DEF LastOf
  <2>3. \A i \in DOMAIN replies' : replies'[i].of # Hello => Answered(replies'[i])
    BY DEF LogInv
  <2> QED
    BY <2>3 DEF LogInv, Answered, LastOf
<1>2. CallbackInv'
  BY DEF CallbackInv, Committed
<1> QED
  BY <1>1, <1>2

LEMMA QuietAppStep ==
  ASSUME WInv, Launch \/ DisableNetwork \/ EnableNetwork \/ HandleCredentialChange
  PROVE  LogInv' /\ CallbackInv'
<1>1. /\ UNCHANGED <<queue, writes, commits, denied, outcome, callbacks>>
      /\ replies' = replies \/ replies' = <<>>
      /\ alive => alive'
  <2>1. CASE Launch
    BY <2>1 DEF Launch, StoreRestarts, wireVars, bounds
  <2>2. ASSUME NEW from, NEW to, Switched(from, to)
        PROVE  /\ UNCHANGED <<queue, writes, commits, denied, outcome, callbacks>>
               /\ replies' = <<>> /\ alive' = alive
    BY <2>2 DEF Switched, storeVars
  <2>3. CASE DisableNetwork \/ EnableNetwork \/ HandleCredentialChange
    <3>1. PICK from, to : Switched(from, to)
      BY <2>3 DEF DisableNetwork, EnableNetwork, HandleCredentialChange
    <3> QED
      BY <2>2, <3>1
  <2> QED
    BY <2>1, <2>3
<1> QED
  BY <1>1, QuietGood DEF WInv

LEMMA QuietStreamStep ==
  ASSUME WInv, TokenArrives \/ StreamOpens \/ BackoffEnds \/ HandshakeCompletes
                 \/ TokenFails \/ StreamFails \/ IdleTimeout
  PROVE  LogInv' /\ CallbackInv'
<1>1. Idling
  BY DEF TokenArrives, StreamOpens, BackoffEnds, HandshakeCompletes, TokenFails, StreamFails,
         IdleTimeout, StreamLost
<1>2. UNCHANGED <<queue, writes, commits, denied, outcome, callbacks, alive>>
  BY <1>1 DEF Idling, storeVars
<1>3. replies' = replies \/ replies' = <<>>
  <2>1. CASE HandshakeCompletes
    BY <2>1, FirstAnswer DEF HandshakeCompletes, WInv
  <2>2. CASE TokenArrives \/ StreamOpens \/ BackoffEnds
    BY <2>2 DEF TokenArrives, StreamOpens, BackoffEnds, wireVars
  <2>3. CASE TokenFails \/ StreamFails \/ IdleTimeout
    BY <2>3 DEF TokenFails, StreamFails, IdleTimeout, StreamLost
  <2> QED
    BY <2>1, <2>2, <2>3
<1> QED
  BY <1>2, <1>3, QuietGood DEF WInv

LEMMA QuietRestStep ==
  ASSUME WInv, Die \/ WatchSnapshot \/ UNCHANGED vars
  PROVE  LogInv' /\ CallbackInv'
<1>1. UNCHANGED <<queue, writes, commits, denied, outcome>>
  <2>1. CASE Die
    BY <2>1 DEF Die, storeVars
  <2>2. CASE WatchSnapshot
    BY <2>2 DEF WatchSnapshot, ApplyRemoteEvent, bounds
  <2>3. CASE UNCHANGED vars
    BY <2>3 DEF vars, storeVars, bounds
  <2> QED
    BY <2>1, <2>2, <2>3
<1>2. /\ replies' = replies \/ replies' = <<>>
      /\ DOMAIN callbacks' = {} \/ (callbacks' = callbacks /\ (alive => alive'))
  BY DEF Die, WatchSnapshot, vars, clientVars, wireVars
<1> QED
  BY <1>1, <1>2, QuietGood DEF WInv

-----------------------------------------------------------------------------
(* Steps that change them.                                                 *)

LEMMA QueueWrites ==
  ASSUME IInv
  PROVE  /\ Len(queue) \in Nat /\ DOMAIN queue = 1..Len(queue)
         /\ writes \in Nat /\ Len(queue) <= writes
         /\ \A i \in DOMAIN queue :
              /\ queue[i] \in Batch
              /\ queue[i].write = writes - Len(queue) + i /\ queue[i].write \in 1..writes
<1>1. queue \in Seq(Batch) /\ Len(queue) \in Nat /\ DOMAIN queue = 1..Len(queue)
  BY DEF IInv, TypeOK
<1>2. writes \in Nat /\ Len(queue) <= writes
  BY WritesAssumption DEF IInv, TypeOK, QueueInv
<1>3. \A i \in DOMAIN queue : queue[i] \in Batch /\ queue[i].write = writes - Len(queue) + i
  BY <1>1 DEF IInv, QueueInv
<1> QED
  BY <1>1, <1>2, <1>3

\* The types of what the log says.
LEMMA CommitFields ==
  ASSUME IInv, NEW v \in DOMAIN commits
  PROVE  /\ v \in 1..Len(commits) /\ Len(commits) \in Nat
         /\ commits[v] \in Commit /\ commits[v].write \in Nat
<1>1. v \in 1..Len(commits) /\ Len(commits) \in Nat /\ commits[v] \in Commit
  BY DEF IInv, TypeOK
<1> QED
  BY <1>1, WritesAssumption DEF Commit

\* A fresh write.
LEMMA FreshStep == WInv /\ SetOrDelete => LogInv' /\ CallbackInv'
<1> SUFFICES ASSUME WInv, SetOrDelete PROVE LogInv' /\ CallbackInv'
  OBVIOUS
<1> USE DEF WInv
<1>1. PICK k \in Keys : WriteMutations(k, IF writes + 1 \in Deletes THEN Absent ELSE writes + 1)
  BY DEF SetOrDelete
<1>2. PICK x : WriteMutations(k, x)
  BY <1>1
<1> DEFINE b == [id |-> nextBatchID, write |-> writes + 1, key |-> k, value |-> x]
<1>3. /\ alive /\ alive' /\ writes' = writes + 1
      /\ queue' = Append(queue, b)
      /\ callbacks' = [i \in DOMAIN callbacks \cup {nextBatchID} |->
                         IF i = nextBatchID THEN writes' ELSE callbacks[i]]
      /\ UNCHANGED <<replies, commits, outcome, denied>>
  BY <1>2 DEF WriteMutations, WriteLocally
<1>4. b.id = nextBatchID /\ b.write = writes + 1
  OBVIOUS
<1> HIDE DEF b
<1>5. PICK n \in Nat : n = Len(queue)
  BY QueueWrites
<1>6. /\ Len(queue') = n + 1 /\ DOMAIN queue = 1..n /\ DOMAIN queue' = 1..(n + 1)
      /\ \A i \in 1..n : queue'[i] = queue[i]
      /\ queue'[n + 1] = b
  <2>1. queue \in Seq(Batch)
    BY DEF IInv, TypeOK
  <2> QED
    BY <1>3, <1>5, <2>1
<1>7. writes \in Nat /\ writes' - Len(queue') = writes - Len(queue)
  BY <1>3, <1>5, <1>6, QueueWrites
<1>8. \A v \in DOMAIN commits : commits[v].write \in Nat /\ commits[v].write <= writes
  BY CommitFields DEF LogInv
<1>9. \A v \in DOMAIN commits', j \in DOMAIN queue' :
        commits'[v].write = queue'[j].write => commits'[v] = Written(queue'[j])
  <2> SUFFICES ASSUME NEW v \in DOMAIN commits, NEW j \in 1..(n + 1),
                      commits[v].write = queue'[j].write
               PROVE  commits[v] = Written(queue'[j])
    BY <1>3, <1>6
  <2>1. CASE j \in 1..n
    BY <1>6, <2>1 DEF LogInv
  <2>2. CASE j = n + 1
    BY <1>4, <1>6, <1>7, <1>8, <2>2
  <2> QED
    BY <2>1, <2>2
<1>10. \A v \in DOMAIN commits' : commits'[v].write <= writes'
  BY <1>3, <1>7, <1>8
<1>11. LogInv'
  BY <1>3, <1>7, <1>9, <1>10 DEF LogInv, Answered, LastOf
<1>12. \A id \in DOMAIN callbacks' :
         \E i \in DOMAIN queue' : queue'[i].id = id /\ queue'[i].write = callbacks'[id]
  <2> SUFFICES ASSUME NEW id \in DOMAIN callbacks \cup {nextBatchID}
               PROVE  \E i \in 1..(n + 1) :
                        queue'[i].id = id /\ queue'[i].write = callbacks'[id]
    BY <1>3, <1>6
  <2>1. CASE id = nextBatchID
    <3>1. n + 1 \in 1..(n + 1) /\ callbacks'[id] = writes + 1
      BY <1>3, <2>1
    <3> QED
      BY <1>4, <1>6, <2>1, <3>1
  <2>2. CASE id # nextBatchID
    <3>1. id \in DOMAIN callbacks /\ callbacks'[id] = callbacks[id]
      BY <1>3, <2>2
    <3>2. PICK i \in 1..n : queue[i].id = id /\ queue[i].write = callbacks[id]
      BY <1>6, <3>1 DEF CallbackInv
    <3>3. i \in 1..(n + 1) /\ queue'[i] = queue[i]
      BY <1>6
    <3> QED
      BY <3>1, <3>2, <3>3
  <2> QED
    BY <2>1, <2>2
<1>13. CallbackInv'
  BY <1>3, <1>7, <1>12 DEF CallbackInv, Committed
<1> QED
  BY <1>11, <1>13

\* An answer given before, and a new one, tell the truth afterwards.
LEMMA AnswersStillTrue ==
  ASSUME WInv, NEW r \in Reply, replies' = Append(replies, r), r.of # Hello => Answered(r)',
         \A i \in DOMAIN replies, a \in Reply :
           a = replies[i] /\ a.of # Hello /\ Answered(a) => Answered(a)'
  PROVE  \A i \in DOMAIN replies' : replies'[i].of # Hello => Answered(replies[i])'
<1>1. PICK n \in Nat : n = Len(replies)
  BY DEF WInv, IInv, TypeOK
<1>2. /\ DOMAIN replies = 1..n /\ DOMAIN replies' = 1..(n + 1)
      /\ \A i \in 1..n : replies'[i] = replies[i] /\ replies[i] \in Reply
      /\ replies'[n + 1] = r
  <2>1. replies \in Seq(Reply)
    BY DEF WInv, IInv, TypeOK
  <2> QED
    BY <1>1, <2>1
<1>3. ASSUME NEW i \in DOMAIN replies', replies'[i].of # Hello
      PROVE  \E a \in Reply : replies'[i] = a /\ Answered(a)'
  <2>1. CASE i \in 1..n
    <3>1. PICK a \in Reply : a = replies[i]
      BY <1>2, <2>1
    <3>2. Answered(a)
      BY <1>2, <1>3, <2>1, <3>1 DEF WInv, LogInv
    <3> QED
      BY <1>2, <1>3, <2>1, <3>1, <3>2
  <2>2. CASE i = n + 1
    BY <1>2, <1>3, <2>2
  <2> QED
    BY <1>2, <2>1, <2>2
<1> QED
  BY <1>3 DEF Answered, LastOf

\* The server answers the handshake, or refuses.
LEMMA ServedNothing ==
  ASSUME WInv, NEW v \in Nat, Answering(v), commits' = commits,
         denied \subseteq denied', Head(sent) # Hello => v = Denied /\ Head(sent).write \in denied'
  PROVE  LogInv' /\ CallbackInv'
<1> USE DEF WInv
<1>1. UNCHANGED <<queue, writes, callbacks, alive, outcome>>
  BY DEF Answering, storeVars, clientVars
<1>2. PICK h \in Batch \cup {Hello} : h = Head(sent)
  BY DEF Answering, IInv, TypeOK
<1>3. PICK r \in Reply : r = [of |-> h, version |-> v]
  BY DEF Reply
<1>4. replies' = Append(replies, r)
  BY <1>2, <1>3 DEF Answering
<1>5. r.of # Hello => Answered(r)'
  BY <1>2, <1>3 DEF Answered
<1>6. \A a \in Reply : Answered(a) => Answered(a)'
  BY DEF Answered, LastOf
<1>7. \A i \in DOMAIN replies' : replies'[i].of # Hello => Answered(replies[i])'
  BY <1>4, <1>5, <1>6, AnswersStillTrue
<1>8. \A w, u : LastOf(w, u) => LastOf(w, u)'
  BY DEF LastOf
<1>9. LogInv'
  BY <1>1, <1>7, <1>8 DEF LogInv
<1>10. CallbackInv'
  BY <1>1 DEF CallbackInv, Committed
<1> QED
  BY <1>9, <1>10

LEMMA ServedNothingStep == WInv /\ (ServeHandshake \/ Refuse) => LogInv' /\ CallbackInv'
<1> SUFFICES ASSUME WInv, ServeHandshake \/ Refuse PROVE LogInv' /\ CallbackInv'
  OBVIOUS
<1>1. Denied \in Nat
  BY DEF Denied
<1>2. /\ Answering(Denied) /\ commits' = commits /\ denied \subseteq denied'
      /\ Head(sent) # Hello => Head(sent).write \in denied'
  BY DEF ServeHandshake, Refuse
<1> QED
  BY <1>1, <1>2, ServedNothing

\* The log grows by a commit that is another device's, or newer than what
\* was settled.
LEMMA LastOfKept ==
  ASSUME IInv, NEW c \in Commit, commits' = Append(commits, c), NEW w \in Nat, NEW v,
         LastOf(w, v), c.write = 0 \/ c.write > w
  PROVE  LastOf(w, v)'
<1>1. PICK n \in Nat : n = Len(commits)
  BY DEF IInv, TypeOK
<1>2. /\ DOMAIN commits = 1..n /\ DOMAIN commits' = 1..(n + 1)
      /\ \A i \in 1..n : commits'[i] = commits[i]
      /\ commits'[n + 1] = c
  <2>1. commits \in Seq(Commit)
    BY DEF IInv, TypeOK
  <2> QED
    BY <1>1, <2>1
<1>3. v \in DOMAIN commits' /\ commits'[v] = commits[v]
  BY <1>2 DEF LastOf
<1>4. ASSUME NEW j \in DOMAIN commits', j > v PROVE commits'[j].write = 0 \/ commits'[j].write > w
  <2>1. CASE j \in 1..n
    BY <1>2, <1>4, <2>1 DEF LastOf
  <2>2. CASE j = n + 1
    BY <1>2, <2>2
  <2> QED
    BY <1>2, <2>1, <2>2
<1> QED
  BY <1>3, <1>4 DEF LastOf

LEMMA AnsweredKept ==
  ASSUME IInv, NEW c \in Commit, commits' = Append(commits, c), denied' = denied,
         NEW a \in Reply, a.of # Hello, Answered(a), c.write = 0 \/ c.write > a.of.write
  PROVE  Answered(a)'
<1>1. a.of.write \in Nat
  BY WritesAssumption DEF Reply, Batch
<1>2. CASE a.version = Denied
  BY <1>2 DEF Answered
<1>3. CASE a.version # Denied
  <2>1. LastOf(a.of.write, a.version) /\ commits[a.version] = Written(a.of)
    BY <1>3 DEF Answered
  <2>2. LastOf(a.of.write, a.version)'
    BY <1>1, <2>1, LastOfKept
  <2>3. commits'[a.version] = commits[a.version]
    <3>1. a.version \in DOMAIN commits /\ commits \in Seq(Commit)
      BY <2>1 DEF LastOf, IInv, TypeOK
    <3> QED
      BY <3>1
  <2> QED
    BY <1>3, <2>1, <2>2, <2>3 DEF Answered
<1> QED
  BY <1>2, <1>3

LEMMA LogGrows ==
  ASSUME WInv, NEW c \in Commit, commits' = Append(commits, c),
         UNCHANGED <<queue, writes, callbacks, alive, outcome, denied>>,
         c.write = 0 \/ \E j \in DOMAIN queue : c = Written(queue[j]),
         \A i \in DOMAIN replies' : replies'[i].of # Hello => Answered(replies[i])'
  PROVE  LogInv' /\ CallbackInv'
<1> USE DEF WInv
<1>1. PICK n \in Nat : n = Len(commits)
  BY DEF IInv, TypeOK
<1>2. /\ DOMAIN commits = 1..n /\ DOMAIN commits' = 1..(n + 1)
      /\ \A i \in 1..n : commits'[i] = commits[i]
      /\ commits'[n + 1] = c
  <2>1. commits \in Seq(Commit)
    BY DEF IInv, TypeOK
  <2> QED
    BY <1>1, <2>1
<1>3. \A i \in 1..(n + 1) : i \in 1..n \/ i = n + 1
  OBVIOUS
<1>4. \A j \in DOMAIN queue :
        /\ Written(queue[j]).write = queue[j].write
        /\ queue[j].write \in 1..writes /\ writes \in Nat
  BY QueueWrites DEF Written
<1>5. \A v \in DOMAIN commits' : commits'[v].write <= writes'
  <2>1. c.write <= writes
    BY <1>4, QueueWrites
  <2> QED
    BY <1>2, <1>3, <2>1 DEF LogInv
<1>6. ASSUME NEW j \in DOMAIN queue, c.write = queue[j].write PROVE c = Written(queue[j])
  <2>1. PICK i \in DOMAIN queue : c = Written(queue[i])
    BY <1>4, <1>6
  <2>2. i = j
    <3>1. queue[i].write = queue[j].write
      BY <1>4, <1>6, <2>1
    <3> QED
      BY <3>1, QueueWrites
  <2> QED
    BY <2>1, <2>2
<1>7. \A v \in DOMAIN commits', j \in DOMAIN queue' :
        commits'[v].write = queue'[j].write => commits'[v] = Written(queue'[j])
  BY <1>2, <1>3, <1>6 DEF LogInv
<1>8. \A v \in 1..n : commits[v].write = c.write /\ c.write # 0 => commits[v] = c
  BY <1>2, <1>4 DEF LogInv
<1>9. \A u, v \in DOMAIN commits' :
        commits'[u].write = commits'[v].write /\ commits'[u].write # 0 => commits'[u] = commits'[v]
  BY <1>2, <1>3, <1>8 DEF LogInv
<1>10. ASSUME NEW w \in 1..(writes - Len(queue))
       PROVE  w \in denied \/ \E v \in DOMAIN commits' : LastOf(w, v)'
  <2>1. w \in Nat /\ (c.write = 0 \/ c.write > w)
    BY <1>4, QueueWrites
  <2>2. CASE w \notin denied
    <3>1. PICK v \in 1..n : LastOf(w, v)
      BY <1>2, <2>2 DEF LogInv
    <3>2. v \in 1..(n + 1) /\ LastOf(w, v)'
      BY <2>1, <3>1, LastOfKept
    <3> QED
      BY <1>2, <3>2
  <2> QED
    BY <2>2
<1>11. LogInv'
  BY <1>5, <1>7, <1>9, <1>10 DEF LogInv
<1>12. CallbackInv'
  <2>1. \A w : Committed(w) => Committed(w)'
    BY <1>2 DEF Committed
  <2> QED
    BY <2>1 DEF CallbackInv
<1> QED
  BY <1>11, <1>12

LEMMA OtherCommitStep == WInv /\ OtherWrites => LogInv' /\ CallbackInv'
<1> SUFFICES ASSUME WInv, OtherWrites PROVE LogInv' /\ CallbackInv'
  OBVIOUS
<1> USE DEF WInv
<1>1. UNCHANGED <<queue, writes, callbacks, alive, outcome, replies, denied>>
  BY DEF OtherWrites, storeVars, clientVars, wireVars
<1>2. PICK k \in Keys, x \in {-troubles', Absent} :
        commits' = Append(commits, [write |-> 0, key |-> k, value |-> x])
  BY DEF OtherWrites
<1>3. PICK c : c = [write |-> 0, key |-> k, value |-> x]
  OBVIOUS
<1>4. c \in Commit /\ c.write = 0 /\ commits' = Append(commits, c)
  <2>1. x \in Int /\ 0 \in 0..MaxWrites
    BY WritesAssumption, ClientAssumption DEF OtherWrites, Trouble, Absent, IInv, TypeOK
  <2> QED
    BY <1>2, <1>3, <2>1 DEF Commit
<1>5. ASSUME NEW i \in DOMAIN replies, replies[i].of # Hello PROVE Answered(replies[i])'
  <2>1. PICK a \in Reply : a = replies[i]
    BY DEF IInv, TypeOK
  <2>2. Answered(a)'
    BY <1>1, <1>4, <1>5, <2>1, AnsweredKept DEF LogInv
  <2> QED
    BY <1>1, <2>1, <2>2
<1> QED
  BY <1>1, <1>4, <1>5, LogGrows

\* The writes in flight are in their order.
LEMMA PipelineWrites ==
  ASSUME IInv, NEW i \in DOMAIN pipeline
  PROVE  i \in DOMAIN queue /\ pipeline[i] = queue[i] /\ i \in Nat
BY QueueWrites DEF IInv, TypeOK, QueueInv, Heads

LEMMA OwnCommitStep == WInv /\ ServeWrite => LogInv' /\ CallbackInv'
<1> SUFFICES ASSUME WInv, ServeWrite PROVE LogInv' /\ CallbackInv'
  OBVIOUS
<1> USE DEF WInv
<1>1. PICK n \in Nat : n = Len(commits)
  BY DEF IInv, TypeOK
<1>2. /\ Answering(n + 1) /\ Head(sent) # Hello /\ n + 1 \in Nat /\ n + 1 # Denied
      /\ commits' = Append(commits, Written(Head(sent)))
      /\ UNCHANGED <<queue, writes, callbacks, alive, outcome, denied, pipeline>>
  BY <1>1 DEF ServeWrite, Answering, storeVars, clientVars, Denied
<1>3. PICK b \in Batch : b = Head(sent)
  BY <1>2, ServedBatch
<1>4. /\ handshake /\ Len(replies) + 1 \in DOMAIN pipeline
      /\ b = pipeline[Len(replies) + 1]
  BY <1>2, <1>3, AnsweringGood
<1>5. PICK m \in Nat : m = Len(replies)
  BY DEF IInv, TypeOK
<1>6. m + 1 \in DOMAIN queue /\ b = queue[m + 1]
  BY <1>4, <1>5, PipelineWrites
<1>7. PICK c \in Commit : c = Written(b)
  <2>1. b.write \in 0..MaxWrites /\ b.value \in Int /\ b.key \in Keys
    BY WritesAssumption DEF Batch
  <2> QED
    BY <2>1 DEF Written, Commit
<1>8. c.write = b.write /\ commits' = Append(commits, c)
  BY <1>2, <1>3, <1>7 DEF Written
<1>9. \A i \in DOMAIN commits : commits[i].write \in Nat /\ i \in 1..n
  BY <1>1, CommitFields
<1>10. /\ DOMAIN commits' = 1..(n + 1) /\ commits'[n + 1] = c
  <2>1. commits \in Seq(Commit)
    BY DEF IInv, TypeOK
  <2> QED
    BY <1>1, <1>8, <2>1
<1>11. PICK r \in Reply : r = [of |-> b, version |-> n + 1]
  BY <1>2 DEF Reply
<1>12. replies' = Append(replies, r)
  BY <1>2, <1>3, <1>11 DEF Answering
<1>13. Answered(r)'
  <2>1. LastOf(b.write, n + 1)'
    BY <1>8, <1>10 DEF LastOf
  <2> QED
    BY <1>2, <1>7, <1>10, <1>11, <2>1 DEF Answered
<1>14. ASSUME NEW i \in DOMAIN replies, NEW a \in Reply, a = replies[i], a.of # Hello, Answered(a)
       PROVE  Answered(a)'
  <2>1. i \in 1..m /\ i \in DOMAIN pipeline /\ a.of = pipeline[i]
    BY <1>4, <1>5, <1>14 DEF IInv, AnswersInv, TypeOK
  <2>2. i \in DOMAIN queue /\ a.of = queue[i]
    BY <2>1, PipelineWrites
  <2>3. /\ a.of.write = writes - Len(queue) + i /\ b.write = writes - Len(queue) + (m + 1)
        /\ writes \in Nat /\ Len(queue) \in Nat
    BY <1>6, <2>2, QueueWrites
  <2>4. c.write > a.of.write
    BY <1>8, <2>1, <2>3
  <2> QED
    BY <1>2, <1>8, <1>14, <2>4, AnsweredKept
<1>15. \A i \in DOMAIN replies' : replies'[i].of # Hello => Answered(replies[i])'
  BY <1>12, <1>13, <1>14, AnswersStillTrue
<1> QED
  BY <1>2, <1>6, <1>7, <1>8, <1>15, LogGrows

\* The head of the queue is settled, and whoever waits for it is told.
LEMMA SettleGood ==
  ASSUME WInv, pipeline # <<>>, RemoveBatch(Head(pipeline)), alive,
         UNCHANGED <<writes, commits, denied, alive>>,
         NEW how \in {"ok", "denied"}, NotifyUser(Head(pipeline).id, how),
         how = "ok" => \E v \in DOMAIN commits : LastOf(Head(pipeline).write, v),
         how = "denied" => Head(pipeline).write \in denied,
         \A i \in DOMAIN replies' : \E j \in DOMAIN replies : replies'[i] = replies[j]
  PROVE  LogInv' /\ CallbackInv'
<1> USE DEF WInv
<1>1. PICK b \in Batch : b = Head(pipeline)
  BY DEF IInv, TypeOK
<1>2. PICK n \in Nat : n = Len(queue)
  BY QueueWrites
<1>3. /\ n > 0 /\ DOMAIN queue = 1..n /\ b = queue[1]
      /\ Len(queue') = n - 1 /\ DOMAIN queue' = 1..(n - 1)
      /\ \A i \in 1..(n - 1) : queue'[i] = queue[i + 1]
  <2>1. queue' \in Seq(Batch) /\ queue \in Seq(Batch)
    BY TailsGood DEF IInv, TypeOK
  <2>2. Len(queue) > 0 /\ Head(pipeline) = queue[1]
    BY RemoveHead
  <2>3. /\ Len(queue') = Len(queue) - 1
        /\ \A i \in DOMAIN queue' : queue'[i] = queue[i + 1]
    BY TailsGood
  <2> QED
    BY <1>1, <1>2, <2>1, <2>2, <2>3
<1>4. b.write = writes - n + 1 /\ writes \in Nat /\ n <= writes
  BY <1>2, <1>3, QueueWrites
<1>5. \A i \in 1..n : queue[i].id = b.id => i = 1
  <2>1. \A i \in 1..n : queue[i].id \in Nat
    BY <1>3, BatchFields DEF IInv, TypeOK
  <2>2. \A i \in 1..n : i > 1 => queue[1].id < queue[i].id
    BY <1>3 DEF IInv, QueueInv, Sorted
  <2> QED
    BY <1>3, <2>1, <2>2
<1>6. how = "ok" => \E v \in DOMAIN commits : LastOf(b.write, v)
  BY <1>1
<1>7. how = "denied" => b.write \in denied
  BY <1>1
<1>8. LogInv'
  <2>1. \A v \in DOMAIN commits', j \in DOMAIN queue' :
          commits'[v].write = queue'[j].write => commits'[v] = Written(queue'[j])
    <3> SUFFICES ASSUME NEW v \in DOMAIN commits, NEW j \in 1..(n - 1),
                        commits[v].write = queue[j + 1].write
                 PROVE  commits[v] = Written(queue[j + 1])
      BY <1>3
    <3>1. j + 1 \in DOMAIN queue
      BY <1>3
    <3> QED
      BY <3>1 DEF LogInv
  <2>2. ASSUME NEW i \in DOMAIN replies', replies'[i].of # Hello PROVE Answered(replies[i])'
    <3>1. PICK j \in DOMAIN replies : replies'[i] = replies[j]
      OBVIOUS
    <3>2. PICK a : a = replies[j]
      OBVIOUS
    <3>3. Answered(a)
      BY <2>2, <3>1, <3>2 DEF LogInv
    <3>4. Answered(a)'
      BY <3>3 DEF Answered, LastOf
    <3> QED
      BY <3>1, <3>2, <3>4
  <2>3. ASSUME NEW w \in 1..(writes - (n - 1))
        PROVE  w \in denied \/ \E v \in DOMAIN commits : LastOf(w, v)
    <3>1. CASE w \in 1..(writes - n)
      BY <1>2, <3>1 DEF LogInv
    <3>2. CASE w \notin 1..(writes - n)
      <4>1. w = b.write
        BY <1>4, <3>2
      <4> QED
        BY <1>6, <1>7, <4>1
    <3> QED
      BY <3>1, <3>2
  <2>4. \A w \in 1..(writes' - Len(queue')) : w \in denied' \/ \E v \in DOMAIN commits' : LastOf(w, v)'
    BY <1>3, <2>3 DEF LastOf
  <2> QED
    BY <2>1, <2>2, <2>4 DEF LogInv
<1>9. ASSUME NEW id \in DOMAIN callbacks'
      PROVE  \E i \in DOMAIN queue' : queue'[i].id = id /\ queue'[i].write = callbacks'[id]
  <2>1. id \in DOMAIN callbacks /\ id # b.id /\ callbacks'[id] = callbacks[id]
    BY <1>1 DEF NotifyUser
  <2>2. PICK i \in 1..n : queue[i].id = id /\ queue[i].write = callbacks[id]
    BY <1>3, <2>1 DEF CallbackInv
  <2>3. i # 1
    BY <1>3, <2>1, <2>2
  <2>4. i - 1 \in 1..(n - 1) /\ (i - 1) + 1 = i
    BY <2>3
  <2>5. queue'[i - 1] = queue[i]
    BY <1>3, <2>4
  <2> QED
    BY <1>3, <2>1, <2>2, <2>4, <2>5
<1>10. ASSUME NEW w \in 1..MaxWrites
       PROVE  /\ outcome'[w] # "none" => w <= writes - (n - 1)
              /\ outcome'[w] = "ok" => Committed(w)
              /\ outcome'[w] = "denied" => w \in denied
  <2>1. DOMAIN outcome = 1..MaxWrites
    BY DEF IInv, TypeOK
  <2>2. CASE b.id \in DOMAIN callbacks /\ callbacks[b.id] = w
    <3>1. outcome'[w] = how
      BY <1>1, <2>1, <2>2 DEF NotifyUser
    <3>2. PICK i \in 1..n : queue[i].id = b.id /\ queue[i].write = w
      BY <1>3, <2>2 DEF CallbackInv
    <3>3. w = b.write
      BY <1>3, <1>5, <3>2
    <3>4. w <= writes - (n - 1)
      BY <1>4, <3>3
    <3>5. how = "ok" => Committed(w)
      BY <1>6, <3>3 DEF LastOf, Committed
    <3> QED
      BY <1>7, <3>1, <3>3, <3>4, <3>5
  <2>3. CASE ~(b.id \in DOMAIN callbacks /\ callbacks[b.id] = w)
    <3>1. outcome'[w] = outcome[w]
      BY <1>1, <2>1, <2>3 DEF NotifyUser
    <3>2. outcome[w] # "none" => w <= writes - n
      BY <1>2 DEF CallbackInv
    <3>3. w <= writes - n => w <= writes - (n - 1)
      BY <1>4
    <3> QED
      BY <3>1, <3>2, <3>3 DEF CallbackInv
  <2> QED
    BY <2>2, <2>3
<1>11. CallbackInv'
  BY <1>3, <1>9, <1>10 DEF CallbackInv, Committed
<1> QED
  BY <1>8, <1>11

LEMMA SettledStep == WInv /\ (MutationResult \/ WriteDenied) => LogInv' /\ CallbackInv'
<1> SUFFICES ASSUME WInv, MutationResult \/ WriteDenied PROVE LogInv' /\ CallbackInv'
  OBVIOUS
<1> USE DEF WInv
<1>1. /\ replies # <<>> /\ Head(replies).of # Hello /\ pipeline # <<>>
      /\ RemoveBatch(Head(pipeline))
      /\ UNCHANGED <<writes, commits, denied, alive>>
  BY DEF MutationResult, WriteDenied, AcknowledgeBatch, RejectBatch, Settling, bounds
<1>2. alive /\ Head(replies).of = Head(pipeline)
  BY <1>1, FirstAnswer
<1>3. Head(replies) = replies[1] /\ 1 \in DOMAIN replies /\ replies \in Seq(Reply)
  BY <1>1 DEF IInv, TypeOK
<1>4. Answered(replies[1])
  BY <1>1, <1>3 DEF LogInv
<1>5. CASE MutationResult
  <2>1. NotifyUser(Head(pipeline).id, "ok") /\ replies[1].version # Denied /\ replies' = Tail(replies)
    BY <1>3, <1>5 DEF MutationResult
  <2>2. \E v \in DOMAIN commits : LastOf(Head(pipeline).write, v)
    BY <1>2, <1>3, <1>4, <2>1 DEF Answered, LastOf
  <2>3. \A i \in DOMAIN replies' : \E j \in DOMAIN replies : replies'[i] = replies[j]
    <3>1. \A i \in DOMAIN replies' : i + 1 \in DOMAIN replies /\ replies'[i] = replies[i + 1]
      BY <1>1, <1>3, <2>1
    <3> QED
      BY <3>1
  <2> QED
    BY <1>1, <1>2, <2>1, <2>2, <2>3, SettleGood
<1>6. CASE WriteDenied
  <2>1. NotifyUser(Head(pipeline).id, "denied") /\ replies[1].version = Denied /\ replies' = <<>>
    BY <1>3, <1>6 DEF WriteDenied
  <2>2. Head(pipeline).write \in denied
    BY <1>2, <1>3, <1>4, <2>1 DEF Answered
  <2>3. \A i \in DOMAIN replies' : \E j \in DOMAIN replies : replies'[i] = replies[j]
    BY <2>1
  <2> QED
    BY <1>1, <1>2, <2>1, <2>2, <2>3, SettleGood
<1> QED
  BY <1>5, <1>6

-----------------------------------------------------------------------------
(* The invariant, and what follows from it.                                *)

LEMMA WInitInv == Init => WInv
<1> SUFFICES ASSUME Init PROVE WInv
  OBVIOUS
<1>1. LogInv
  <2>1. queue = <<>> /\ commits = <<>> /\ replies = <<>> /\ writes = 0
    BY DEF Init, StoreInit
  <2> QED
    BY <2>1 DEF LogInv
<1>2. CallbackInv
  BY DEF Init, CallbackInv
<1> QED
  BY <1>1, <1>2, InitInv DEF WInv

LEMMA WNextInv == WInv /\ [Next]_vars => WInv'
<1> SUFFICES ASSUME WInv, [Next]_vars PROVE WInv'
  OBVIOUS
<1>1. IInv'
  BY NextInv DEF WInv
<1>2. LogInv' /\ CallbackInv'
  <2>1. CASE App
    BY <2>1, QuietAppStep, FreshStep DEF App
  <2>2. CASE Client
    BY <2>2, QuietStreamStep, SettledStep DEF Client
  <2>3. CASE Server
    BY <2>3, ServedNothingStep, OwnCommitStep DEF Server
  <2>4. CASE Faults
    BY <2>4, QuietStreamStep, QuietRestStep DEF Faults
  <2>5. CASE OtherWrites
    BY <2>5, OtherCommitStep
  <2>6. CASE WatchSnapshot \/ UNCHANGED vars
    BY <2>6, QuietRestStep
  <2> QED
    BY <2>1, <2>2, <2>3, <2>4, <2>5, <2>6 DEF Next
<1> QED
  BY <1>1, <1>2 DEF WInv

LEMMA WInvariance == Spec => []WInv
<1>1. Init => WInv
  BY WInitInv
<1>2. WInv /\ [Next]_vars => WInv'
  BY WNextInv
<1> QED
  BY <1>1, <1>2, PTL DEF Spec

\* Until it is committed or refused a write is in the queue, through every
\* death and restart.
THEOREM NoWriteIsLost == Spec => []NoWriteLost
<1>1. WInv => NoWriteLost
  <2> SUFFICES ASSUME WInv, NEW w \in 1..writes
               PROVE  (\E i \in DOMAIN queue : queue[i].write = w) \/ Committed(w) \/ w \in denied
    BY DEF NoWriteLost
  <2>1. /\ Len(queue) \in Nat /\ DOMAIN queue = 1..Len(queue) /\ writes \in Nat
        /\ Len(queue) <= writes
        /\ \A i \in DOMAIN queue : queue[i].write = writes - Len(queue) + i
    BY QueueWrites DEF WInv
  <2>2. CASE w \in 1..(writes - Len(queue))
    BY <2>2 DEF WInv, LogInv, LastOf, Committed
  <2>3. CASE w \notin 1..(writes - Len(queue))
    <3>1. PICK i \in 1..Len(queue) : w = writes - Len(queue) + i
      <4>1. w - (writes - Len(queue)) \in 1..Len(queue)
        BY <2>1, <2>3
      <4>2. w = writes - Len(queue) + (w - (writes - Len(queue)))
        BY <2>1
      <4> QED
        BY <4>1, <4>2
    <3> QED
      BY <2>1, <3>1
  <2> QED
    BY <2>2, <2>3
<1> QED
  BY <1>1, WInvariance, PTL

\* The app is told of a write what became of it, and only once it is settled,
\* though batch IDs are used again and callbacks die with the process.
THEOREM CallbacksCorrect == Spec => []CallbacksTellTheTruth
<1>1. WInv => CallbacksTellTheTruth
  <2> SUFFICES ASSUME WInv, NEW w \in 1..writes
               PROVE  /\ outcome[w] = "ok" => Committed(w)
                      /\ outcome[w] = "denied" => w \in denied
                      /\ outcome[w] # "none" => \A i \in DOMAIN queue : queue[i].write # w
    BY DEF CallbacksTellTheTruth
  <2>1. w \in 1..MaxWrites /\ writes \in Nat
    BY WritesAssumption DEF WInv, IInv, TypeOK
  <2>2. ASSUME outcome[w] # "none", NEW i \in DOMAIN queue PROVE queue[i].write # w
    <3>1. w <= writes - Len(queue)
      BY <2>1, <2>2 DEF WInv, CallbackInv
    <3>2. /\ queue[i].write = writes - Len(queue) + i /\ i \in 1..Len(queue) /\ Len(queue) \in Nat
      BY QueueWrites DEF WInv
    <3> QED
      BY <2>1, <3>1, <3>2
  <2> QED
    BY <2>1, <2>2 DEF WInv, CallbackInv
<1> QED
  BY <1>1, WInvariance, PTL

\* The newest of the writes on a document that the server was not made to refuse.
LEMMA NewestOwn ==
  ASSUME WInv, NEW k, NEW i \in DOMAIN commits, commits[i].key = k,
         commits[i].write # 0, commits[i].write \notin denied
  PROVE  \E n \in DOMAIN commits :
           /\ commits[n].key = k /\ commits[n].write # 0 /\ commits[n].write \notin denied
           /\ \A m \in DOMAIN commits :
                commits[m].key = k /\ commits[m].write \notin denied
                  => commits[m].write <= commits[n].write
<1> DEFINE own == { n \in DOMAIN commits :
                      commits[n].key = k /\ commits[n].write # 0 /\ commits[n].write \notin denied }
           T   == { commits[n].write : n \in own }
<1>1. \A n \in DOMAIN commits : commits[n].write \in Nat /\ commits[n].write <= writes
  BY CommitFields DEF WInv, LogInv
<1>2. writes \in Nat
  BY QueueWrites DEF WInv
<1>3. T \in SUBSET (0..writes) /\ commits[i].write \in T
  BY <1>1, <1>2
<1>4. Max(T) \in T /\ \A y \in T : y <= Max(T)
  BY <1>2, <1>3, MaxIsGreatest
<1>5. PICK n \in own : Max(T) = commits[n].write
  BY <1>4
<1>6. ASSUME NEW m \in DOMAIN commits, commits[m].key = k, commits[m].write \notin denied
      PROVE  commits[m].write <= commits[n].write
  <2>1. CASE commits[m].write = 0
    BY <1>1, <2>1
  <2>2. CASE commits[m].write # 0
    <3>1. commits[m].write \in T
      BY <1>6, <2>2
    <3> QED
      BY <1>4, <1>5, <3>1
  <2> QED
    BY <2>1, <2>2
<1> QED
  BY <1>5, <1>6

\* Once nothing of a document is unsettled, its last own commit is its newest
\* write that was not refused, though lost answers have older writes sent again.
THEOREM LastWriteWinsCorrect == Spec => []LastWriteWins
<1>1. WInv => LastWriteWins
  <2> SUFFICES ASSUME WInv, NEW k \in Keys, ~Pending(queue, k), NEW i \in DOMAIN commits,
                      commits[i].key = k, commits[i].write # 0, commits[i].write \notin denied
               PROVE  \E j \in i..Len(commits) :
                        /\ commits[j].key = k
                        /\ \A n \in DOMAIN commits :
                             commits[n].key = k /\ commits[n].write \notin denied
                               => commits[n].write <= commits[j].write
    BY DEF LastWriteWins
  <2>1. PICK n \in DOMAIN commits :
          /\ commits[n].key = k /\ commits[n].write # 0 /\ commits[n].write \notin denied
          /\ \A m \in DOMAIN commits :
               commits[m].key = k /\ commits[m].write \notin denied
                 => commits[m].write <= commits[n].write
    BY NewestOwn
  <2>2. PICK w \in Nat : w = commits[n].write /\ w # 0 /\ w <= writes
    BY <2>1, CommitFields DEF WInv, LogInv
  <2>3. w \in 1..(writes - Len(queue))
    <3>1. \A j \in DOMAIN queue : queue[j].write # w
      <4> SUFFICES ASSUME NEW j \in DOMAIN queue, queue[j].write = w PROVE FALSE
        OBVIOUS
      <4>1. commits[n] = Written(queue[j])
        BY <2>2 DEF WInv, LogInv
      <4>2. queue[j].key = k
        BY <2>1, <4>1 DEF Written
      <4> QED
        BY <4>2 DEF Pending, On
    <3>2. /\ Len(queue) \in Nat /\ DOMAIN queue = 1..Len(queue) /\ writes \in Nat
          /\ \A j \in DOMAIN queue : queue[j].write = writes - Len(queue) + j
      BY QueueWrites DEF WInv
    <3>3. CASE w > writes - Len(queue)
      <4>1. Len(queue) <= writes
        BY QueueWrites DEF WInv
      <4>2. w - (writes - Len(queue)) \in 1..Len(queue)
        BY <2>2, <3>2, <3>3, <4>1
      <4>3. w = writes - Len(queue) + (w - (writes - Len(queue)))
        BY <2>2, <3>2
      <4> QED
        BY <3>1, <3>2, <4>2, <4>3
    <3> QED
      BY <2>2, <3>2, <3>3
  <2>4. PICK j \in DOMAIN commits : LastOf(w, j)
    BY <2>1, <2>2, <2>3 DEF WInv, LogInv
  <2>5. commits[j].write = w /\ commits[j] = commits[n]
    BY <2>2, <2>4 DEF LastOf, WInv, LogInv
  <2>6. ~(i > j)
    <3>1. i > j => commits[i].write > w
      BY <2>4 DEF LastOf
    <3>2. commits[i].write <= w /\ commits[i].write \in Nat
      BY <2>1, <2>2, CommitFields DEF WInv
    <3> QED
      BY <2>2, <3>1, <3>2
  <2>7. j \in i..Len(commits)
    BY <2>6, CommitFields DEF WInv
  <2> QED
    BY <2>1, <2>5, <2>7
<1> QED
  BY <1>1, WInvariance, PTL

-----------------------------------------------------------------------------
(* The cache and the list.                                                 *)

\* A document in the cache is the server's at its version, which is not
\* before the last commit that watch has passed; one that waits for watch
\* to confirm it is at an own commit that watch has yet to pass.
CachedGood(k) ==
  /\ cache[k].version <= Len(commits)
  /\ cache[k].value = ServerValue(commits, k, cache[k].version)
  /\ LastCommit(commits, k, lastRemote) <= cache[k].version
  /\ cache[k].committed => cache[k].version > lastRemote /\ commits[cache[k].version].key = k

CacheInv == lastRemote <= Len(commits) /\ \A k \in Keys : CachedGood(k)

\* The inductive invariant of the cache.
CInv == WInv /\ CacheInv /\ ListShowsDocuments

-----------------------------------------------------------------------------
(* The last commit on a document, and the contents at a version.           *)

LEMMA LastCommitIs ==
  ASSUME NEW log \in Seq(Commit), NEW k, NEW version \in 0..Len(log), NEW x \in 0..version,
         x # 0 => log[x].key = k,
         \A i \in 1..version : log[i].key = k => i <= x
  PROVE  LastCommit(log, k, version) = x
<1> DEFINE on == {0} \cup { i \in 1..version : log[i].key = k }
<1>1. version \in Nat /\ on \in SUBSET (0..version) /\ x \in on
  OBVIOUS
<1>2. \A y \in on : y <= x
  OBVIOUS
<1> HIDE DEF on
<1>3. Max(on) = x
  BY <1>1, <1>2, MaxIs
<1> QED
  BY <1>3 DEF LastCommit, on

\* A version between the last commit on a document and another shows the same.
LEMMA SameLastCommit ==
  ASSUME NEW log \in Seq(Commit), NEW k, NEW version \in 0..Len(log), NEW v \in 0..version,
         LastCommit(log, k, version) <= v
  PROVE  /\ LastCommit(log, k, v) = LastCommit(log, k, version)
         /\ ServerValue(log, k, v) = ServerValue(log, k, version)
<1> DEFINE x == LastCommit(log, k, version)
<1>1. /\ x \in 0..version /\ (x # 0 => log[x].key = k)
      /\ \A i \in 1..version : log[i].key = k => i <= x
  BY LastCommitType
<1>2. x <= v
  OBVIOUS
<1> HIDE DEF x
<1>3. v \in 0..Len(log) /\ x \in 0..v /\ \A i \in 1..v : log[i].key = k => i <= x
  <2>1. Len(log) \in Nat /\ v \in Nat /\ v <= version /\ version <= Len(log)
    OBVIOUS
  <2>2. \A i \in 1..v : i \in 1..version
    BY <2>1
  <2> QED
    BY <1>1, <1>2, <2>1, <2>2
<1>4. LastCommit(log, k, v) = x
  BY <1>1, <1>3, LastCommitIs
<1> QED
  BY <1>4 DEF ServerValue, x

LEMMA LastCommitGrows ==
  ASSUME NEW log \in Seq(Commit), NEW k, NEW version \in 0..Len(log), NEW v \in 0..version
  PROVE  LastCommit(log, k, v) <= LastCommit(log, k, version)
<1>1. v \in 0..Len(log)
  <2>1. Len(log) \in Nat
    OBVIOUS
  <2> QED
    BY <2>1
<1>2. /\ LastCommit(log, k, v) \in 0..v
      /\ LastCommit(log, k, v) # 0 => log[LastCommit(log, k, v)].key = k
  BY <1>1, LastCommitType
<1>3. /\ LastCommit(log, k, version) \in 0..version
      /\ \A i \in 1..version : log[i].key = k => i <= LastCommit(log, k, version)
  BY LastCommitType
<1>4. PICK x \in 0..v : x = LastCommit(log, k, v)
  BY <1>2
<1>5. PICK y \in 0..version : y = LastCommit(log, k, version)
  BY <1>3
<1>6. CASE x = 0
  BY <1>4, <1>5, <1>6
<1>7. CASE x # 0
  <2>1. x \in 1..version /\ log[x].key = k
    BY <1>2, <1>4, <1>7
  <2> QED
    BY <1>3, <1>4, <2>1
<1> QED
  BY <1>6, <1>7

\* What the server takes next changes no version it has had.
LEMMA PastStays ==
  ASSUME NEW log \in Seq(Commit), NEW c \in Commit, NEW k, NEW version \in 0..Len(log)
  PROVE  /\ LastCommit(Append(log, c), k, version) = LastCommit(log, k, version)
         /\ ServerValue(Append(log, c), k, version) = ServerValue(log, k, version)
<1> DEFINE x == LastCommit(log, k, version)
<1>1. /\ x \in 0..version /\ (x # 0 => log[x].key = k)
      /\ \A i \in 1..version : log[i].key = k => i <= x
  BY LastCommitType
<1> HIDE DEF x
<1>2. PICK more : more = Append(log, c)
  OBVIOUS
<1>3. /\ more \in Seq(Commit) /\ version \in Nat /\ version \in 0..Len(more)
      /\ \A i \in 1..version : more[i] = log[i]
  BY <1>2
<1>4. x # 0 => x \in 1..version
  BY <1>1
<1>5. LastCommit(more, k, version) = x
  BY <1>1, <1>3, <1>4, LastCommitIs
<1>6. x # 0 => more[x] = log[x]
  BY <1>3, <1>4
<1>7. ServerValue(more, k, version) = ServerValue(log, k, version)
  BY <1>5, <1>6 DEF ServerValue, x
<1> QED
  BY <1>2, <1>5, <1>7 DEF x

\* What watch sends of a document for a version is the server's, and no older.
LEMMA ServerDocumentGood ==
  ASSUME NEW log \in Seq(Commit), NEW k, NEW version \in 0..Len(log)
  PROVE  LET d == ServerDocument(log, k, version) IN
         /\ d.version \in 0..version
         /\ LastCommit(log, k, version) <= d.version
         /\ d.value = ServerValue(log, k, d.version)
         /\ d.committed = FALSE
<1> DEFINE x == LastCommit(log, k, version)
           d == ServerDocument(log, k, version)
<1>1. x \in 0..version
  BY LastCommitType
<1>2. /\ d.value = ServerValue(log, k, version) /\ d.committed = FALSE
      /\ d.version = version \/ d.version = x
  BY DEF ServerDocument
<1> HIDE DEF x, d
<1>3. version \in Nat /\ d.version \in 0..version /\ x <= d.version
  BY <1>1, <1>2
<1>4. ServerValue(log, k, d.version) = ServerValue(log, k, version)
  BY <1>3, SameLastCommit DEF x
<1> QED
  BY <1>2, <1>3, <1>4 DEF d, x

-----------------------------------------------------------------------------
(* The cache.                                                              *)

LEMMA CacheType ==
  ASSUME IInv, NEW k \in Keys
  PROVE  /\ cache[k] \in Document /\ cache[k].version \in Nat /\ cache[k].value \in Int
         /\ cache[k].committed \in BOOLEAN
         /\ commits \in Seq(Commit) /\ Len(commits) \in Nat /\ lastRemote \in Nat
<1>1. cache[k] \in Document
  BY DEF IInv, TypeOK
<1>2. commits \in Seq(Commit) /\ Len(commits) \in Nat /\ lastRemote \in Nat
  BY DEF IInv, TypeOK
<1> QED
  BY <1>1, <1>2 DEF Document

LEMMA CacheQuiet ==
  ASSUME CacheInv, UNCHANGED <<cache, lastRemote, commits>>
  PROVE  CacheInv'
BY DEF CacheInv, CachedGood

\* What the server commits.
LEMMA CommitIs ==
  ASSUME IInv, ServeWrite \/ OtherWrites
  PROVE  /\ \E c \in Commit :
              /\ commits' = Append(commits, c)
              /\ c.write # 0 => \E i \in DOMAIN queue : c = Written(queue[i])
         /\ UNCHANGED <<queue, cache, lastRemote, alive, shown>>
<1>1. UNCHANGED <<queue, cache, lastRemote, alive, shown>>
  BY DEF ServeWrite, OtherWrites, Answering, storeVars, clientVars
<1>2. CASE ServeWrite
  <2>1. Len(commits) + 1 \in Nat
    BY DEF IInv, TypeOK
  <2>2. /\ Answering(Len(commits) + 1) /\ Head(sent) # Hello
        /\ commits' = Append(commits, Written(Head(sent)))
    BY <1>2 DEF ServeWrite
  <2>3. PICK i \in DOMAIN queue : queue[i] = Head(sent)
    BY <2>1, <2>2, ServedBatch
  <2>4. Written(queue[i]) \in Commit
    <3>1. queue[i] \in Batch
      BY DEF IInv, TypeOK
    <3> QED
      BY <3>1, WritesAssumption DEF Written, Batch, Commit
  <2> QED
    BY <1>1, <2>2, <2>3, <2>4
<1>3. CASE OtherWrites
  <2>1. PICK k \in Keys, x \in {-troubles', Absent} :
          commits' = Append(commits, [write |-> 0, key |-> k, value |-> x])
    BY <1>3 DEF OtherWrites
  <2>2. [write |-> 0, key |-> k, value |-> x] \in Commit
    <3>1. x \in Int /\ 0 \in 0..MaxWrites
      BY <1>3, WritesAssumption, ClientAssumption DEF OtherWrites, Trouble, Absent, IInv, TypeOK
    <3> QED
      BY <3>1 DEF Commit
  <2> QED
    BY <1>1, <2>1, <2>2
<1> QED
  BY <1>2, <1>3

LEMMA CacheLogGrows == CInv /\ (ServeWrite \/ OtherWrites) => CacheInv'
<1> SUFFICES ASSUME CInv, ServeWrite \/ OtherWrites PROVE CacheInv'
  OBVIOUS
<1> USE DEF CInv, WInv
<1>1. PICK c \in Commit : commits' = Append(commits, c)
  BY CommitIs
<1>2. UNCHANGED <<cache, lastRemote>>
  BY CommitIs
<1>3. commits \in Seq(Commit) /\ lastRemote \in 0..Len(commits)
  BY DEF IInv, TypeOK, CacheInv
<1>4. Len(commits') = Len(commits) + 1 /\ \A i \in 1..Len(commits) : commits'[i] = commits[i]
  BY <1>1, <1>3
<1>5. ASSUME NEW k \in Keys PROVE CachedGood(k)'
  <2>1. /\ cache[k].version \in 0..Len(commits) /\ cache[k].value = ServerValue(commits, k, cache[k].version)
        /\ LastCommit(commits, k, lastRemote) <= cache[k].version
        /\ cache[k].committed => cache[k].version > lastRemote /\ commits[cache[k].version].key = k
    BY CacheType DEF CacheInv, CachedGood
  <2>2. /\ ServerValue(commits', k, cache[k].version) = ServerValue(commits, k, cache[k].version)
        /\ LastCommit(commits', k, lastRemote) = LastCommit(commits, k, lastRemote)
    BY <1>1, <1>3, <2>1, PastStays
  <2>3. cache[k].version <= Len(commits')
    BY <1>3, <1>4, <2>1
  <2>4. cache[k].committed => commits'[cache[k].version].key = k
    <3>1. cache[k].committed => cache[k].version \in 1..Len(commits)
      BY <1>3, <2>1
    <3> QED
      BY <1>4, <2>1, <3>1
  <2> QED
    BY <1>2, <2>1, <2>2, <2>3, <2>4 DEF CachedGood
<1>6. lastRemote' <= Len(commits')
  BY <1>2, <1>3, <1>4
<1> QED
  BY <1>5, <1>6 DEF CacheInv

\* The commit an acknowledgement names.
LEMMA AcknowledgedIs ==
  ASSUME WInv, MutationResult
  PROVE  \E v \in DOMAIN commits, b \in Batch :
           /\ b = Head(pipeline) /\ v = Head(replies).version
           /\ commits[v] = Written(b) /\ ApplyBatchResult(b, v)
           /\ UNCHANGED <<lastRemote, commits>>
<1> USE DEF WInv
<1>1. /\ replies # <<>> /\ Head(replies).of # Hello /\ Head(replies).version # Denied
      /\ pipeline # <<>> /\ ApplyBatchResult(Head(pipeline), Head(replies).version)
      /\ UNCHANGED <<lastRemote, commits>>
  BY DEF MutationResult, AcknowledgeBatch, Settling
<1>2. Head(replies).of = Head(pipeline) /\ Head(pipeline) \in Batch
  BY <1>1, FirstAnswer DEF IInv, TypeOK
<1>3. Head(replies) = replies[1] /\ 1 \in DOMAIN replies
  BY <1>1 DEF IInv, TypeOK
<1>4. Answered(replies[1])
  BY <1>1, <1>3 DEF LogInv
<1>5. Head(replies).version \in DOMAIN commits /\ commits[Head(replies).version] = Written(Head(pipeline))
  BY <1>1, <1>2, <1>3, <1>4 DEF Answered, LastOf
<1> QED
  BY <1>1, <1>2, <1>5

LEMMA CacheAcknowledged == CInv /\ MutationResult => CacheInv'
<1> SUFFICES ASSUME CInv, MutationResult PROVE CacheInv'
  OBVIOUS
<1> USE DEF CInv
<1>1. PICK v \in DOMAIN commits, b \in Batch :
        commits[v] = Written(b) /\ ApplyBatchResult(b, v) /\ UNCHANGED <<lastRemote, commits>>
  BY AcknowledgedIs
<1>2. commits[v].key = b.key /\ commits[v].value = b.value /\ b.key \in Keys
  BY <1>1 DEF Written, Batch
<1>3. commits \in Seq(Commit) /\ v \in 1..Len(commits) /\ lastRemote \in 0..Len(commits)
  BY DEF WInv, IInv, TypeOK, CacheInv
<1>4. ASSUME NEW k \in Keys PROVE CachedGood(k)'
  <2>1. CASE cache'[k] = cache[k]
    BY <1>1, <2>1 DEF CacheInv, CachedGood
  <2>2. CASE cache'[k] # cache[k]
    <3>1. /\ k = b.key /\ cache[k].version < v
          /\ cache'[k] = [value |-> b.value, version |-> v, committed |-> TRUE]
      BY <1>1, <1>2, <2>2 DEF ApplyBatchResult, WInv, IInv, TypeOK
    <3>2. LastCommit(commits, k, v) = v
      BY <1>2, <1>3, <3>1, LastCommitIs
    <3>3. ServerValue(commits, k, v) = b.value
      BY <1>2, <1>3, <3>2 DEF ServerValue
    <3>4. PICK l \in 0..lastRemote : l = LastCommit(commits, k, lastRemote)
      BY <1>3, LastCommitType
    <3>5. l < v
      BY <1>3, <3>1, <3>4, CacheType DEF CacheInv, CachedGood, WInv
    <3>6. lastRemote < v
      <4>1. CASE v \in 1..lastRemote
        BY <1>2, <1>3, <3>1, <3>4, <3>5, <4>1, LastCommitType
      <4> QED
        BY <1>3, <4>1
    <3>7. /\ cache'[k].value = b.value /\ cache'[k].version = v /\ cache'[k].committed
      BY <3>1
    <3>8. v <= Len(commits) /\ LastCommit(commits, k, lastRemote) <= v /\ v > lastRemote
      BY <1>3, <3>4, <3>5, <3>6
    <3> QED
      BY <1>1, <1>2, <3>1, <3>3, <3>7, <3>8 DEF CachedGood
  <2> QED
    BY <2>1, <2>2
<1> QED
  BY <1>1, <1>4 DEF CacheInv

\* A snapshot: of which documents watch sends what, and what is done with it.
LEMMA SnapshotIs ==
  ASSUME WatchSnapshot
  PROVE  \E version \in lastRemote..Len(commits) : \E docs :
           /\ docs = [k \in DOMAIN docs |-> ServerDocument(commits, k, version)]
           /\ \A i \in (lastRemote + 1)..version : commits[i].key \in DOMAIN docs
           /\ ApplyRemoteEvent(docs, version) /\ EmitNewSnapshots(News(docs))
<1>1. PICK version \in lastRemote..Len(commits) :
        \E again \in SUBSET (Changed(0, lastRemote) \ Changed(lastRemote, version)) :
          LET docs == [k \in Changed(lastRemote, version) \cup again
                         |-> ServerDocument(commits, k, version)]
          IN ApplyRemoteEvent(docs, version) /\ EmitNewSnapshots(News(docs))
  BY DEF WatchSnapshot
<1>2. PICK again \in SUBSET (Changed(0, lastRemote) \ Changed(lastRemote, version)) :
        LET docs == [k \in Changed(lastRemote, version) \cup again
                       |-> ServerDocument(commits, k, version)]
        IN ApplyRemoteEvent(docs, version) /\ EmitNewSnapshots(News(docs))
  BY <1>1
<1>3. PICK docs : docs = [k \in Changed(lastRemote, version) \cup again
                            |-> ServerDocument(commits, k, version)]
  OBVIOUS
<1>4. \A i \in (lastRemote + 1)..version : commits[i].key \in DOMAIN docs
  BY <1>3 DEF Changed
<1>5. docs = [k \in DOMAIN docs |-> ServerDocument(commits, k, version)]
  BY <1>3
<1>6. ApplyRemoteEvent(docs, version) /\ EmitNewSnapshots(News(docs))
  BY <1>2, <1>3
<1> QED
  BY <1>4, <1>5, <1>6

\* What a snapshot makes of one document.
LEMMA DocumentLearnt ==
  ASSUME CInv, NEW version \in lastRemote..Len(commits), NEW docs, NEW k \in Keys,
         docs = [j \in DOMAIN docs |-> ServerDocument(commits, j, version)],
         \A i \in (lastRemote + 1)..version : commits[i].key \in DOMAIN docs,
         ApplyRemoteEvent(docs, version), commits' = commits
  PROVE  CachedGood(k)' /\ cache'[k].version \in Nat /\ cache'[k].version >= cache[k].version
<1> USE DEF CInv, WInv
<1>1. /\ commits \in Seq(Commit) /\ version \in 0..Len(commits) /\ version \in Nat
      /\ lastRemote \in 0..version /\ lastRemote' = version /\ Len(commits) \in Nat
  BY CacheType DEF ApplyRemoteEvent
<1>2. PICK old : old = cache[k]
  OBVIOUS
<1>3. /\ old.version \in 0..Len(commits) /\ old.committed \in BOOLEAN
      /\ old.value = ServerValue(commits, k, old.version)
      /\ LastCommit(commits, k, lastRemote) <= old.version
      /\ old.committed => old.version > lastRemote /\ commits[old.version].key = k
  BY <1>2, CacheType DEF CacheInv, CachedGood
<1>4. PICK l \in 0..version : l = LastCommit(commits, k, version)
  BY <1>1, LastCommitType
<1>5. \A i \in 1..version : commits[i].key = k => i <= l
  BY <1>1, <1>4, LastCommitType
<1>6. SUFFICES ASSUME NEW new, new = cache'[k]
               PROVE  /\ new.version \in Nat /\ new.version >= old.version
                      /\ new.version <= Len(commits)
                      /\ new.value = ServerValue(commits, k, new.version)
                      /\ l <= new.version
                      /\ new.committed => new.version > version /\ commits[new.version].key = k
  BY <1>1, <1>2, <1>4 DEF CachedGood
<1>7. CASE k \in News(docs)
  <2>1. PICK d : d = ServerDocument(commits, k, version)
    OBVIOUS
  <2>2. new = d /\ Supersedes(d, old)
    BY <1>2, <1>6, <1>7, <2>1 DEF ApplyRemoteEvent, News
  <2>3. /\ d.version \in 0..version /\ l <= d.version
        /\ d.value = ServerValue(commits, k, d.version) /\ d.committed = FALSE
    BY <1>1, <1>4, <2>1, ServerDocumentGood
  <2>4. d.version \in Nat /\ d.version <= Len(commits)
    BY <1>1, <2>3
  <2>5. d.version >= old.version
    BY <1>1, <1>3, <2>2, <2>4 DEF Supersedes
  <2> QED
    BY <2>2, <2>3, <2>4, <2>5
<1>8. CASE k \notin News(docs)
  <2>1. new = old
    BY <1>2, <1>6, <1>8 DEF ApplyRemoteEvent
  <2>2. CASE k \in DOMAIN docs
    <3>1. PICK d : d = ServerDocument(commits, k, version)
      OBVIOUS
    <3>2. ~Supersedes(d, old)
      BY <1>2, <1>8, <2>2, <3>1 DEF News
    <3>3. d.version \in 0..version /\ l <= d.version
      BY <1>1, <1>4, <3>1, ServerDocumentGood
    <3>4. /\ d.version <= old.version
          /\ old.committed => d.version < old.version
      BY <1>1, <1>3, <3>2, <3>3 DEF Supersedes
    <3>5. old.committed => old.version > version
      <4>1. old.version \in 1..version => ~old.committed
        BY <1>1, <1>3, <1>4, <1>5, <3>3, <3>4
      <4> QED
        BY <1>1, <1>3, <4>1
    <3>6. l <= old.version
      BY <1>1, <1>3, <1>4, <3>3, <3>4
    <3> QED
      BY <1>1, <1>3, <2>1, <3>5, <3>6
  <2>3. CASE k \notin DOMAIN docs
    <3>1. \A i \in 1..version : commits[i].key = k => i <= lastRemote
      <4> SUFFICES ASSUME NEW i \in 1..version, commits[i].key = k, i > lastRemote PROVE FALSE
        BY <1>1
      <4>1. i \in (lastRemote + 1)..version
        BY <1>1
      <4> QED
        BY <2>3, <4>1
    <3>2. l # 0 => commits[l].key = k /\ l \in 1..version
      BY <1>1, <1>4, LastCommitType
    <3>3. l <= lastRemote
      BY <1>1, <3>1, <3>2
    <3>4. LastCommit(commits, k, lastRemote) = l
      BY <1>1, <1>4, <3>3, SameLastCommit
    <3>5. old.committed => old.version > version
      <4>1. old.version \in 1..version => ~old.committed
        BY <1>1, <1>3, <3>1
      <4> QED
        BY <1>1, <1>3, <4>1
    <3>6. l <= old.version
      BY <1>3, <3>4
    <3> QED
      BY <1>1, <1>3, <2>1, <3>5, <3>6
  <2> QED
    BY <2>2, <2>3
<1> QED
  BY <1>7, <1>8

LEMMA CacheSnapshot == CInv /\ WatchSnapshot => CacheInv'
<1> SUFFICES ASSUME CInv, WatchSnapshot PROVE CacheInv'
  OBVIOUS
<1>0. PICK version \in lastRemote..Len(commits) :
        \E docs :
          /\ docs = [k \in DOMAIN docs |-> ServerDocument(commits, k, version)]
          /\ \A i \in (lastRemote + 1)..version : commits[i].key \in DOMAIN docs
          /\ ApplyRemoteEvent(docs, version)
  BY SnapshotIs
<1>1. PICK docs :
        /\ docs = [k \in DOMAIN docs |-> ServerDocument(commits, k, version)]
        /\ \A i \in (lastRemote + 1)..version : commits[i].key \in DOMAIN docs
        /\ ApplyRemoteEvent(docs, version)
  BY <1>0
<1>2. commits' = commits
  BY DEF WatchSnapshot
<1>3. \A k \in Keys : CachedGood(k)'
  BY <1>1, <1>2, DocumentLearnt
<1>4. lastRemote' <= Len(commits')
  <2>1. Len(commits) \in Nat /\ lastRemote \in Nat
    BY DEF CInv, WInv, IInv, TypeOK
  <2> QED
    BY <1>1, <1>2, <2>1 DEF ApplyRemoteEvent
<1> QED
  BY <1>3, <1>4 DEF CacheInv

-----------------------------------------------------------------------------
(* The list.                                                               *)

\* What is shown of a document fits the queue and the cache.
Fits(s, q, c, k) ==
  \/ s.value = Overlay(q, c, k) /\ (s.local => Pending(q, k) \/ c[k].committed)
  \/ s.local /\ c[k].committed /\ ~Pending(q, k)

\* View::ComputeDocumentChanges lets it fit.
LEMMA ShownFits ==
  ASSUME NEW q, NEW c, NEW k, NEW old, c[k].committed \in BOOLEAN
  PROVE  Fits(ShowDocument(old, Local(q, c, k)), q, c, k)
<1> DEFINE new == Local(q, c, k)
<1>1. /\ new.value = Overlay(q, c, k) /\ new.local = Pending(q, k)
      /\ new.committed = (c[k].committed /\ ~Pending(q, k))
  BY DEF Local
<1> HIDE DEF new
<1>2. CASE ShowDocument(old, new) = [value |-> new.value, local |-> new.local]
  <2>1. ShowDocument(old, new).value = new.value /\ ShowDocument(old, new).local = new.local
    BY <1>2
  <2> QED
    BY <1>1, <2>1, Zenon DEF Fits, new
<1>3. CASE ShowDocument(old, new) # [value |-> new.value, local |-> new.local]
  <2>1. ShowDocument(old, new) = old /\ old.local /\ new.committed
    BY <1>3, Zenon DEF ShowDocument
  <2> QED
    BY <1>1, <2>1, Zenon DEF Fits, new
<1> QED
  BY <1>2, <1>3

\* A batch on another document, new or settled, does not show.
LEMMA OverlayAppend ==
  ASSUME NEW q \in Seq(Batch), NEW b \in Batch, NEW c, NEW k, b.key # k
  PROVE  /\ Pending(Append(q, b), k) = Pending(q, k)
         /\ Overlay(Append(q, b), c, k) = Overlay(q, c, k)
<1>1. PICK t : t = Append(q, b)
  OBVIOUS
<1>2. PICK n \in Nat : n = Len(q)
  OBVIOUS
<1>3. /\ DOMAIN q = 1..n /\ DOMAIN t = 1..(n + 1)
      /\ \A i \in 1..n : t[i] = q[i]
      /\ t[n + 1] = b
  BY <1>1, <1>2
<1>4. On(t, k) = On(q, k)
  <2>1. \A i \in 1..(n + 1) : i \in 1..n \/ i = n + 1
    OBVIOUS
  <2>2. \A i \in 1..n : i \in 1..(n + 1)
    OBVIOUS
  <2> QED
    BY <1>3, <2>1, <2>2 DEF On
<1>5. Pending(t, k) = Pending(q, k)
  BY <1>4 DEF Pending
<1>6. Overlay(t, c, k) = Overlay(q, c, k)
  <2>1. CASE Pending(q, k)
    <3>1. On(q, k) \in SUBSET (0..n) /\ On(q, k) # {}
      BY <1>3, <2>1 DEF On, Pending
    <3>2. Max(On(q, k)) \in On(q, k)
      BY <3>1, MaxIsGreatest
    <3>3. Max(On(q, k)) \in 1..n
      BY <1>3, <3>2 DEF On
    <3>4. t[Max(On(t, k))] = q[Max(On(q, k))]
      BY <1>3, <1>4, <3>3
    <3> QED
      BY <1>5, <2>1, <3>4 DEF Overlay
  <2>2. CASE ~Pending(q, k)
    BY <1>5, <2>2 DEF Overlay
  <2> QED
    BY <2>1, <2>2
<1> QED
  BY <1>1, <1>5, <1>6

LEMMA OverlayTail ==
  ASSUME NEW q \in Seq(Batch), q # <<>>, NEW c, NEW k, q[1].key # k
  PROVE  /\ Pending(Tail(q), k) = Pending(q, k)
         /\ Overlay(Tail(q), c, k) = Overlay(q, c, k)
<1>1. PICK t : t = Tail(q)
  OBVIOUS
<1>2. PICK n \in Nat : n = Len(q) /\ n > 0
  OBVIOUS
<1>3. /\ DOMAIN q = 1..n /\ DOMAIN t = 1..(n - 1)
      /\ \A i \in 1..(n - 1) : t[i] = q[i + 1]
  BY <1>1, <1>2
<1>4. \A i \in On(q, k) : i - 1 \in On(t, k)
  <2> SUFFICES ASSUME NEW i \in 1..n, q[i].key = k PROVE i - 1 \in On(t, k)
    BY <1>3 DEF On
  <2>1. i # 1
    OBVIOUS
  <2>2. i - 1 \in 1..(n - 1) /\ (i - 1) + 1 = i
    BY <2>1
  <2>3. t[i - 1] = q[i]
    BY <1>3, <2>2
  <2> QED
    BY <1>3, <2>2, <2>3 DEF On
<1>5. \A i \in On(t, k) : i + 1 \in On(q, k)
  <2> SUFFICES ASSUME NEW i \in 1..(n - 1), t[i].key = k PROVE i + 1 \in On(q, k)
    BY <1>3 DEF On
  <2>1. i + 1 \in 1..n
    BY <1>2
  <2> QED
    BY <1>3, <2>1 DEF On
<1>6. On(q, k) \in SUBSET (0..n) /\ On(q, k) \subseteq Int /\ On(t, k) \in SUBSET (0..n)
  BY <1>3 DEF On
<1>7. Pending(t, k) = Pending(q, k)
  BY <1>4, <1>5 DEF Pending
<1>8. Overlay(t, c, k) = Overlay(q, c, k)
  <2>1. CASE Pending(q, k)
    <3>1. Max(On(q, k)) \in On(q, k) /\ \A y \in On(q, k) : y <= Max(On(q, k))
      BY <1>6, <2>1, MaxIsGreatest DEF Pending
    <3>2. PICK m \in On(q, k) : m = Max(On(q, k)) /\ \A y \in On(q, k) : y <= m
      BY <3>1
    <3>3. m - 1 \in On(t, k) /\ m \in 1..n /\ q[m].key = k
      BY <1>3, <1>4 DEF On
    <3>4. \A y \in On(t, k) : y <= m - 1
      <4> SUFFICES ASSUME NEW y \in On(t, k) PROVE y <= m - 1
        OBVIOUS
      <4>1. y + 1 <= m /\ y \in Int
        BY <1>5, <1>6, <3>2
      <4> QED
        BY <3>3, <4>1
    <3>5. Max(On(t, k)) = m - 1
      BY <1>6, <3>3, <3>4, MaxIs
    <3>6. t[m - 1] = q[m]
      <4>1. m - 1 \in 1..(n - 1) /\ (m - 1) + 1 = m
        BY <1>3, <3>3 DEF On
      <4> QED
        BY <1>3, <4>1
    <3> QED
      BY <1>7, <2>1, <3>2, <3>5, <3>6 DEF Overlay
  <2>2. CASE ~Pending(q, k)
    BY <1>7, <2>2 DEF Overlay
  <2> QED
    BY <2>1, <2>2
<1> QED
  BY <1>1, <1>7, <1>8

\* The documents of ks have changed, and no other.
LEMMA EmitFits ==
  ASSUME ListShowsDocuments, alive, cache' \in [Keys -> Document], NEW ks, EmitNewSnapshots(ks),
         \A k \in Keys \ ks :
           /\ Overlay(queue', cache', k) = Overlay(queue, cache, k)
           /\ Pending(queue', k) = Pending(queue, k)
           /\ cache'[k].committed = cache[k].committed
  PROVE  ListShowsDocuments'
<1>1. ASSUME NEW k \in Keys PROVE Fits(shown'[k], queue', cache', k)
  <2>1. CASE k \in ks
    <3>1. shown'[k] = ShowDocument(shown[k], Local(queue', cache', k))
      BY <2>1 DEF EmitNewSnapshots
    <3>2. cache'[k] \in Document
      OBVIOUS
    <3>3. cache'[k].committed \in BOOLEAN
      BY <3>2 DEF Document
    <3> QED
      BY <3>1, <3>3, ShownFits
  <2>2. CASE k \notin ks
    <3>1. shown'[k] = shown[k]
      BY <2>2 DEF EmitNewSnapshots
    <3>2. Fits(shown[k], queue, cache, k)
      BY DEF ListShowsDocuments, Fits
    <3> QED
      BY <2>2, <3>1, <3>2 DEF Fits
  <2> QED
    BY <2>1, <2>2
<1> QED
  BY <1>1 DEF ListShowsDocuments, Fits

LEMMA ListQuiet ==
  ASSUME ListShowsDocuments, UNCHANGED <<queue, cache, shown>>, alive' => alive
  PROVE  ListShowsDocuments'
BY DEF ListShowsDocuments

LEMMA ListLaunch == Launch => ListShowsDocuments'
<1> SUFFICES ASSUME Launch PROVE ListShowsDocuments'
  OBVIOUS
<1>1. /\ queue' = queue /\ cache' = cache
      /\ shown' = [k \in Keys |-> [value |-> Overlay(queue, cache, k), local |-> Pending(queue, k)]]
  BY DEF Launch, StoreRestarts
<1>2. ASSUME NEW k \in Keys
      PROVE  shown'[k].value = Overlay(queue', cache', k) /\ shown'[k].local = Pending(queue', k)
  BY <1>1
<1> QED
  BY <1>2, Zenon DEF ListShowsDocuments

LEMMA ListWrite == CInv /\ SetOrDelete => ListShowsDocuments'
<1> SUFFICES ASSUME CInv, SetOrDelete PROVE ListShowsDocuments'
  OBVIOUS
<1> USE DEF CInv, WInv
<1>1. PICK k \in Keys : WriteMutations(k, IF writes + 1 \in Deletes THEN Absent ELSE writes + 1)
  BY DEF SetOrDelete
<1>2. PICK x \in 0..MaxWrites : WriteMutations(k, x)
  <2>1. (IF writes + 1 \in Deletes THEN Absent ELSE writes + 1) \in 0..MaxWrites
    BY <1>1, WritesAssumption DEF WriteMutations, IInv, TypeOK, Absent
  <2> QED
    BY <1>1, <2>1
<1>3. PICK b : b = [id |-> nextBatchID, write |-> writes + 1, key |-> k, value |-> x]
  OBVIOUS
<1>4. b \in Batch /\ b.key = k
  <2>1. writes + 1 \in 1..MaxWrites /\ nextBatchID \in Nat \ {0}
    BY <1>2, WritesAssumption DEF WriteMutations, IInv, TypeOK
  <2> QED
    BY <1>3, <2>1 DEF Batch
<1>5. /\ alive /\ queue' = Append(queue, b) /\ cache' = cache /\ EmitNewSnapshots({k})
  BY <1>2, <1>3 DEF WriteMutations, WriteLocally
<1>6. queue \in Seq(Batch) /\ cache \in [Keys -> Document]
  BY DEF IInv, TypeOK
<1>7. \A j \in Keys \ {k} :
        Overlay(queue', cache', j) = Overlay(queue, cache, j) /\ Pending(queue', j) = Pending(queue, j)
  BY <1>4, <1>5, <1>6, OverlayAppend
<1> QED
  BY <1>5, <1>6, <1>7, EmitFits

\* A batch leaves the queue from its head.
LEMMA ListSettled ==
  ASSUME CInv, pipeline # <<>>, RemoveBatch(Head(pipeline)), alive,
         EmitNewSnapshots({Head(pipeline).key}), cache' \in [Keys -> Document],
         \A k \in Keys : k # Head(pipeline).key => cache'[k] = cache[k]
  PROVE  ListShowsDocuments'
<1> USE DEF CInv, WInv
<1>1. queue' = Tail(queue) /\ queue # <<>> /\ Head(pipeline) = queue[1] /\ queue \in Seq(Batch)
  BY RemoveHead DEF IInv, TypeOK
<1>2. ASSUME NEW k \in Keys, k # Head(pipeline).key
      PROVE  /\ Overlay(queue', cache', k) = Overlay(queue, cache, k)
             /\ Pending(queue', k) = Pending(queue, k)
             /\ cache'[k].committed = cache[k].committed
  <2>1. /\ Pending(Tail(queue), k) = Pending(queue, k)
        /\ Overlay(Tail(queue), cache, k) = Overlay(queue, cache, k)
    BY <1>1, <1>2, OverlayTail
  <2>2. Overlay(queue', cache', k) = Overlay(queue', cache, k)
    BY <1>2 DEF Overlay
  <2> QED
    BY <1>1, <1>2, <2>1, <2>2
<1> QED
  BY <1>2, EmitFits

LEMMA ListAcknowledged == CInv /\ MutationResult => ListShowsDocuments'
<1> SUFFICES ASSUME CInv, MutationResult PROVE ListShowsDocuments'
  OBVIOUS
<1> USE DEF CInv, WInv
<1>1. PICK v \in DOMAIN commits, b \in Batch : b = Head(pipeline) /\ ApplyBatchResult(b, v)
  BY AcknowledgedIs
<1>2. /\ replies # <<>> /\ pipeline # <<>> /\ RemoveBatch(Head(pipeline))
      /\ EmitNewSnapshots({Head(pipeline).key})
  BY DEF MutationResult, AcknowledgeBatch
<1>3. alive
  BY <1>2, FirstAnswer
<1>4. \A k \in Keys : k # b.key => cache'[k] = cache[k]
  BY <1>1 DEF ApplyBatchResult, IInv, TypeOK
<1>5. cache' \in [Keys -> Document]
  BY NextInv DEF Next, Client, IInv, TypeOK
<1> QED
  BY <1>1, <1>2, <1>3, <1>4, <1>5, ListSettled

LEMMA ListDenied == CInv /\ WriteDenied => ListShowsDocuments'
<1> SUFFICES ASSUME CInv, WriteDenied PROVE ListShowsDocuments'
  OBVIOUS
<1> USE DEF CInv, WInv
<1>1. /\ replies # <<>> /\ pipeline # <<>> /\ RemoveBatch(Head(pipeline))
      /\ EmitNewSnapshots({Head(pipeline).key}) /\ cache' = cache
  BY DEF WriteDenied, RejectBatch
<1>2. alive
  BY <1>1, FirstAnswer
<1>3. cache' \in [Keys -> Document]
  BY <1>1 DEF IInv, TypeOK
<1> QED
  BY <1>1, <1>2, <1>3, ListSettled

LEMMA ListSnapshot == CInv /\ WatchSnapshot => ListShowsDocuments'
<1> SUFFICES ASSUME CInv, WatchSnapshot PROVE ListShowsDocuments'
  OBVIOUS
<1> USE DEF CInv, WInv
<1>0. PICK version \in lastRemote..Len(commits) :
        \E docs :
          ApplyRemoteEvent(docs, version) /\ EmitNewSnapshots(News(docs))
  BY SnapshotIs
<1>1. PICK docs :
        ApplyRemoteEvent(docs, version) /\ EmitNewSnapshots(News(docs))
  BY <1>0
<1>2. alive
  BY DEF WatchSnapshot
<1>3. cache' \in [Keys -> Document]
  BY WatchSnapshotStep DEF IInv, TypeOK
<1>4. queue' = queue /\ \A k \in Keys \ News(docs) : cache'[k] = cache[k]
  BY <1>1 DEF ApplyRemoteEvent
<1>5. \A k \in Keys \ News(docs) : Overlay(queue', cache', k) = Overlay(queue, cache, k)
  BY <1>4 DEF Overlay
<1> QED
  BY <1>1, <1>2, <1>3, <1>4, <1>5, EmitFits

-----------------------------------------------------------------------------
(* The invariant, and what follows from it.                                *)

\* What the other tasks do not change.
LEMMA StoreQuiet ==
  ASSUME CInv, \/ DisableNetwork \/ EnableNetwork \/ HandleCredentialChange
               \/ TokenArrives \/ StreamOpens \/ BackoffEnds \/ HandshakeCompletes
               \/ ServeHandshake \/ Refuse
               \/ TokenFails \/ StreamFails \/ IdleTimeout \/ Die \/ UNCHANGED vars
  PROVE  UNCHANGED <<queue, cache, lastRemote, shown, commits>> /\ (alive' => alive)
<1>1. CASE DisableNetwork \/ EnableNetwork \/ HandleCredentialChange
  <2>1. PICK from, to : Switched(from, to)
    BY <1>1 DEF DisableNetwork, EnableNetwork, HandleCredentialChange
  <2> QED
    BY <2>1 DEF Switched, storeVars
<1>2. CASE \/ TokenArrives \/ StreamOpens \/ BackoffEnds \/ HandshakeCompletes
           \/ TokenFails \/ StreamFails \/ IdleTimeout
  <2>1. Idling
    BY <1>2 DEF TokenArrives, StreamOpens, BackoffEnds, HandshakeCompletes, TokenFails,
                StreamFails, IdleTimeout, StreamLost
  <2> QED
    BY <2>1 DEF Idling, storeVars
<1>3. CASE ServeHandshake \/ Refuse
  BY <1>3 DEF ServeHandshake, Refuse, Answering, storeVars, clientVars
<1>4. CASE Die
  BY <1>4 DEF Die, storeVars
<1>5. CASE UNCHANGED vars
  BY <1>5 DEF vars, storeVars, clientVars
<1> QED
  BY <1>1, <1>2, <1>3, <1>4, <1>5

LEMMA CInitInv == Init => CInv
<1> SUFFICES ASSUME Init PROVE CInv
  OBVIOUS
<1>1. CacheInv
  <2>1. /\ commits = <<>> /\ lastRemote = 0
        /\ cache = [k \in Keys |-> [value |-> 0, version |-> 0, committed |-> FALSE]]
    BY DEF Init, StoreInit, Unknown, Absent
  <2>2. commits \in Seq(Commit) /\ Len(commits) = 0 /\ 0 \in 0..Len(commits)
    BY <2>1
  <2>3. ASSUME NEW k PROVE LastCommit(commits, k, 0) = 0 /\ ServerValue(commits, k, 0) = 0
    <3>1. LastCommit(commits, k, 0) \in 0..0
      BY <2>2, LastCommitType
    <3>2. LastCommit(commits, k, 0) = 0
      BY <3>1
    <3> QED
      BY <3>2 DEF ServerValue, Absent
  <2> QED
    BY <2>1, <2>2, <2>3 DEF CacheInv, CachedGood
<1>2. ListShowsDocuments
  BY DEF Init, ListShowsDocuments
<1> QED
  BY <1>1, <1>2, WInitInv DEF CInv

LEMMA CNextInv == CInv /\ [Next]_vars => CInv'
<1> SUFFICES ASSUME CInv, [Next]_vars PROVE CInv'
  OBVIOUS
<1>1. WInv'
  BY WNextInv DEF CInv
<1>2. CacheInv' /\ ListShowsDocuments'
  <2>1. CASE Launch
    <3>1. UNCHANGED <<cache, lastRemote, commits>>
      BY <2>1 DEF Launch, StoreRestarts
    <3> QED
      BY <2>1, <3>1, CacheQuiet, ListLaunch DEF CInv
  <2>2. CASE SetOrDelete
    <3>1. UNCHANGED <<cache, lastRemote, commits>>
      BY <2>2 DEF SetOrDelete, WriteMutations, WriteLocally
    <3> QED
      BY <2>2, <3>1, CacheQuiet, ListWrite DEF CInv
  <2>3. CASE MutationResult
    BY <2>3, CacheAcknowledged, ListAcknowledged
  <2>4. CASE WriteDenied
    <3>1. UNCHANGED <<cache, lastRemote, commits>>
      BY <2>4 DEF WriteDenied, RejectBatch, Settling
    <3> QED
      BY <2>4, <3>1, CacheQuiet, ListDenied DEF CInv
  <2>5. CASE ServeWrite \/ OtherWrites
    BY <2>5, CacheLogGrows, CommitIs, ListQuiet DEF CInv, WInv
  <2>6. CASE WatchSnapshot
    BY <2>6, CacheSnapshot, ListSnapshot
  <2>7. CASE \/ DisableNetwork \/ EnableNetwork \/ HandleCredentialChange
             \/ TokenArrives \/ StreamOpens \/ BackoffEnds \/ HandshakeCompletes
             \/ ServeHandshake \/ Refuse
             \/ TokenFails \/ StreamFails \/ IdleTimeout \/ Die \/ UNCHANGED vars
    BY <2>7, StoreQuiet, CacheQuiet, ListQuiet DEF CInv
  <2> QED
    BY <2>1, <2>2, <2>3, <2>4, <2>5, <2>6, <2>7 DEF Next, App, Client, Server, Faults
<1> QED
  BY <1>1, <1>2 DEF CInv

LEMMA CInvariance == Spec => []CInv
<1>1. Init => CInv
  BY CInitInv
<1>2. CInv /\ [Next]_vars => CInv'
  BY CNextInv
<1> QED
  BY <1>1, <1>2, PTL DEF Spec

\* The cache holds what the server had at the version it names, in whatever
\* order acknowledgements and snapshots have come.
THEOREM CacheCorrect == Spec => []CacheIsServerState
<1>1. CInv => CacheIsServerState
  <2> SUFFICES ASSUME CInv, NEW k \in Keys
               PROVE  /\ cache[k].version <= Len(commits)
                      /\ cache[k].value = ServerValue(commits, k, cache[k].version)
                      /\ cache[k].committed => cache[k].version > lastRemote
                      /\ \/ lastRemote = 0
                         \/ cache[k].value = ServerValue(commits, k, lastRemote)
                         \/ cache[k].version > lastRemote
    BY DEF CacheIsServerState
  <2>1. CachedGood(k) /\ lastRemote \in 0..Len(commits) /\ cache[k].version \in Nat
    BY CacheType DEF CInv, WInv, CacheInv
  <2>2. CASE cache[k].version \in 0..lastRemote
    <3>1. ServerValue(commits, k, cache[k].version) = ServerValue(commits, k, lastRemote)
      BY <2>1, <2>2, CacheType, SameLastCommit DEF CInv, WInv, CachedGood
    <3> QED
      BY <2>1, <3>1 DEF CachedGood
  <2>3. CASE cache[k].version \notin 0..lastRemote
    <3>1. cache[k].version > lastRemote
      BY <2>1, <2>3
    <3> QED
      BY <2>1, <3>1 DEF CachedGood
  <2> QED
    BY <2>2, <2>3
<1> QED
  BY <1>1, CInvariance, PTL

\* The list shows every document with this device's writes on it.
THEOREM ListCorrect == Spec => []ListShowsDocuments
<1>1. CInv => ListShowsDocuments
  BY DEF CInv
<1> QED
  BY <1>1, CInvariance, PTL

\* Once this device's writes are settled and watch has come to the server's
\* last commit, no document in the cache waits for watch, so the list is what
\* the server has.
THEOREM SettledListCorrect == Spec => []SettledListIsServers
<1>1. CInv => SettledListIsServers
  <2> SUFFICES ASSUME CInv, alive, queue = <<>>, lastRemote = Len(commits), NEW k \in Keys
               PROVE  shown[k] = [value |-> ServerValue(commits, k, Len(commits)), local |-> FALSE]
    BY DEF SettledListIsServers
  <2>1. ~Pending(queue, k) /\ Overlay(queue, cache, k) = cache[k].value
    BY DEF Pending, On, Overlay
  <2>2. CachedGood(k) /\ lastRemote \in 0..Len(commits) /\ cache[k].version \in Nat
    BY CacheType DEF CInv, WInv, CacheInv
  <2>3. ~cache[k].committed /\ cache[k].version \in 0..lastRemote
    BY <2>2 DEF CachedGood
  <2>4. shown[k] \in Shown
    BY DEF CInv, WInv, IInv, TypeOK
  <2>5. shown[k].value = cache[k].value /\ shown[k].local = FALSE
    BY <2>1, <2>3, <2>4 DEF CInv, ListShowsDocuments, Shown
  <2>6. ServerValue(commits, k, cache[k].version) = ServerValue(commits, k, lastRemote)
    BY <2>2, <2>3, CacheType, SameLastCommit DEF CInv, WInv, CachedGood
  <2> QED
    BY <2>2, <2>4, <2>5, <2>6 DEF CachedGood, Shown
<1> QED
  BY <1>1, CInvariance, PTL

-----------------------------------------------------------------------------
(* The client implements SharedCollection.                                 *)

Settleable == { Written(b) : b \in Batch }

\* What SharedCollection sees of a queue.
Unsettled(q) == [i \in DOMAIN q |-> Written(q[i])]
Seen         == [k \in Keys |-> cache[k].version]

LEMMA UnsettledType ==
  ASSUME NEW q \in Seq(Batch)
  PROVE  /\ Unsettled(q) \in Seq(Settleable) /\ Len(Unsettled(q)) = Len(q)
         /\ \A i \in 1..Len(q) : Unsettled(q)[i] = Written(q[i])
<1>1. PICK n \in Nat : n = Len(q) /\ DOMAIN q = 1..n
  OBVIOUS
<1>2. \A i \in 1..n : Written(q[i]) \in Settleable
  BY <1>1 DEF Settleable
<1> QED
  BY <1>1, <1>2 DEF Unsettled

LEMMA UnsettledAppend ==
  ASSUME NEW q \in Seq(Batch), NEW b \in Batch
  PROVE  /\ Unsettled(Append(q, b)) = Append(Unsettled(q), Written(b))
         /\ Unsettled(Append(q, b)) # <<>>
         /\ Unsettled(Append(q, b))[Len(Unsettled(Append(q, b)))] = Written(b)
<1>1. PICK n \in Nat : n = Len(q)
  OBVIOUS
<1>2. PICK t : t = Append(q, b)
  OBVIOUS
<1>3. /\ t \in Seq(Batch) /\ Len(t) = n + 1
      /\ \A i \in 1..n : t[i] = q[i]
      /\ t[n + 1] = b
  BY <1>1, <1>2
<1>4. PICK u, w : u = Unsettled(t) /\ w = Append(Unsettled(q), Written(b))
  OBVIOUS
<1>5. Written(b) \in Settleable
  BY DEF Settleable
<1>6. /\ u \in Seq(Settleable) /\ Len(u) = n + 1
      /\ \A i \in 1..(n + 1) : u[i] = Written(t[i])
  BY <1>3, <1>4, UnsettledType
<1>7. /\ w \in Seq(Settleable) /\ Len(w) = n + 1
      /\ \A i \in 1..n : w[i] = Written(q[i])
      /\ w[n + 1] = Written(b)
  <2>1. PICK v \in Seq(Settleable) : v = Unsettled(q)
    BY UnsettledType
  <2>2. Len(v) = n /\ \A i \in 1..n : v[i] = Written(q[i])
    BY <1>1, <2>1, UnsettledType
  <2>3. w = Append(v, Written(b))
    BY <1>4, <2>1
  <2> QED
    BY <1>5, <2>2, <2>3
<1>8. \A i \in 1..Len(u) : u[i] = w[i]
  <2>1. \A i \in 1..(n + 1) : i \in 1..n \/ i = n + 1
    OBVIOUS
  <2> QED
    BY <1>3, <1>6, <1>7, <2>1
<1>9. u = w
  BY <1>6, <1>7, <1>8, SeqEqual
<1>10. u # <<>> /\ u[Len(u)] = Written(b)
  BY <1>6, <1>7, <1>9
<1> QED
  BY <1>2, <1>4, <1>9, <1>10

LEMMA UnsettledTail ==
  ASSUME NEW q \in Seq(Batch), q # <<>>
  PROVE  /\ Unsettled(Tail(q)) = Tail(Unsettled(q)) /\ Unsettled(q) # <<>>
         /\ Head(Unsettled(q)) = Written(q[1])
<1>1. PICK n \in Nat : n = Len(q) /\ n > 0
  OBVIOUS
<1>2. PICK t : t = Tail(q)
  OBVIOUS
<1>3. t \in Seq(Batch) /\ Len(t) = n - 1 /\ \A i \in 1..(n - 1) : t[i] = q[i + 1]
  BY <1>1, <1>2, TailParts
<1>4. PICK u \in Seq(Settleable) : u = Unsettled(q)
  BY UnsettledType
<1>5. Len(u) = n /\ \A i \in 1..n : u[i] = Written(q[i])
  BY <1>1, <1>4, UnsettledType
<1>6. u # <<>> /\ Head(u) = Written(q[1])
  BY <1>1, <1>5
<1>7. PICK v : v = Tail(u)
  OBVIOUS
<1>8. v \in Seq(Settleable) /\ Len(v) = n - 1 /\ \A i \in 1..(n - 1) : v[i] = u[i + 1]
  BY <1>5, <1>6, <1>7, TailParts
<1>9. PICK w \in Seq(Settleable) : w = Unsettled(t)
  BY <1>3, UnsettledType
<1>10. Len(w) = n - 1 /\ \A i \in 1..(n - 1) : w[i] = Written(t[i])
  BY <1>3, <1>9, UnsettledType
<1>11. \A i \in 1..(n - 1) : v[i] = w[i]
  <2>1. \A i \in 1..(n - 1) : i + 1 \in 1..n
    OBVIOUS
  <2> QED
    BY <1>3, <1>5, <1>8, <1>10, <2>1
<1>12. v = w
  BY <1>8, <1>9, <1>10, <1>11, SeqEqual
<1> QED
  BY <1>2, <1>4, <1>6, <1>7, <1>9, <1>12

LEMMA InitRefined == Init => Collection!Init
<1> SUFFICES ASSUME Init PROVE Collection!Init
  OBVIOUS
<1>1. /\ commits = <<>> /\ queue = <<>>
      /\ cache = [k \in Keys |-> [value |-> 0, version |-> 0, committed |-> FALSE]]
  BY DEF Init, StoreInit, Unknown, Absent
<1>2. Unsettled(queue) = <<>>
  <2>1. queue \in Seq(Batch) /\ Len(queue) = 0
    BY <1>1
  <2>2. Unsettled(queue) \in Seq(Settleable) /\ Len(Unsettled(queue)) = 0
    BY <2>1, UnsettledType
  <2> QED
    BY <2>2
<1>3. Seen = [k \in Keys |-> 0]
  BY <1>1 DEF Seen
<1> QED
  BY <1>1, <1>2, <1>3 DEF Collection!Init, Unsettled, Seen

\* An own write.
LEMMA WriteRefined == CInv /\ SetOrDelete => Collection!Write
<1> SUFFICES ASSUME CInv, SetOrDelete PROVE Collection!Write
  OBVIOUS
<1> USE DEF CInv, WInv
<1>1. PICK k \in Keys, x \in 0..MaxWrites : WriteMutations(k, x)
  <2>1. PICK k \in Keys : WriteMutations(k, IF writes + 1 \in Deletes THEN Absent ELSE writes + 1)
    BY DEF SetOrDelete
  <2>2. (IF writes + 1 \in Deletes THEN Absent ELSE writes + 1) \in 0..MaxWrites
    BY <2>1, WritesAssumption DEF WriteMutations, IInv, TypeOK, Absent
  <2> QED
    BY <2>1, <2>2
<1>2. PICK b : b = [id |-> nextBatchID, write |-> writes + 1, key |-> k, value |-> x]
  OBVIOUS
<1>3. b \in Batch
  <2>1. writes + 1 \in 1..MaxWrites /\ nextBatchID \in Nat \ {0}
    BY <1>1, WritesAssumption DEF WriteMutations, IInv, TypeOK
  <2> QED
    BY <1>2, <2>1 DEF Batch
<1>4. queue' = Append(queue, b) /\ cache' = cache /\ commits' = commits /\ queue \in Seq(Batch)
  BY <1>1, <1>2 DEF WriteMutations, WriteLocally, IInv, TypeOK
<1>5. /\ Unsettled(queue') = Append(Unsettled(queue), Unsettled(queue')[Len(Unsettled(queue'))])
      /\ Unsettled(queue') # <<>>
  BY <1>3, <1>4, UnsettledAppend
<1> QED
  BY <1>4, <1>5 DEF Collection!Write, Collection!Extends, Unsettled

\* The server takes a write.
LEMMA CommitRefined == CInv /\ (ServeWrite \/ OtherWrites) => Collection!Commit
<1> SUFFICES ASSUME CInv, ServeWrite \/ OtherWrites PROVE Collection!Commit
  OBVIOUS
<1> USE DEF CInv, WInv
<1>1. PICK c \in Commit : /\ commits' = Append(commits, c)
                          /\ c.write # 0 => \E i \in DOMAIN queue : c = Written(queue[i])
  BY CommitIs
<1>2. queue' = queue /\ cache' = cache
  BY CommitIs
<1>3. commits' # <<>> /\ commits'[Len(commits')] = c
  <2>1. commits \in Seq(Commit)
    BY DEF IInv, TypeOK
  <2>2. commits' # <<>> /\ Len(commits') = Len(commits) + 1 /\ commits'[Len(commits) + 1] = c
    BY <1>1, <2>1, AppendProperties
  <2> QED
    BY <2>2
<1> QED
  BY <1>1, <1>2, <1>3 DEF Collection!Commit, Collection!Extends

\* An answer settles the oldest write.
LEMMA SettleRefined == CInv /\ (MutationResult \/ WriteDenied) => Collection!Settle
<1> SUFFICES ASSUME CInv, MutationResult \/ WriteDenied PROVE Collection!Settle
  OBVIOUS
<1> USE DEF CInv, WInv
<1>1. /\ pipeline # <<>> /\ RemoveBatch(Head(pipeline)) /\ commits' = commits
  BY DEF MutationResult, WriteDenied, AcknowledgeBatch, RejectBatch, Settling
<1>2. queue' = Tail(queue) /\ queue # <<>> /\ Head(pipeline) = queue[1] /\ queue \in Seq(Batch)
  BY <1>1, RemoveHead DEF IInv, TypeOK
<1>3. /\ Unsettled(queue') = Tail(Unsettled(queue)) /\ Unsettled(queue) # <<>>
      /\ Head(Unsettled(queue)) = Written(queue[1])
  BY <1>2, UnsettledTail
<1>4. Collection!Acknowledged(Head(Unsettled(queue))) \/ Seen' = Seen
  <2>1. CASE MutationResult
    <3>1. PICK v \in DOMAIN commits, b \in Batch :
            b = Head(pipeline) /\ commits[v] = Written(b) /\ ApplyBatchResult(b, v)
      BY <2>1, AcknowledgedIs
    <3>2. PICK w : w = Written(b)
      OBVIOUS
    <3>3. w.key = b.key /\ b.key \in Keys /\ w = Head(Unsettled(queue)) /\ commits[v] = w
      BY <1>2, <1>3, <3>1, <3>2 DEF Written, Batch
    <3>4. Seen' = IF Seen[w.key] < v THEN [Seen EXCEPT ![w.key] = v] ELSE Seen
      <4>1. cache \in [Keys -> Document] /\ Seen[b.key] = cache[b.key].version
        BY <3>3 DEF IInv, TypeOK, Seen
      <4>2. CASE cache[b.key].version < v
        <5>1. cache' = [cache EXCEPT ![b.key] = [value |-> b.value, version |-> v, committed |-> TRUE]]
          BY <3>1, <4>2 DEF ApplyBatchResult
        <5>2. \A k \in Keys : cache'[k].version = IF k = b.key THEN v ELSE cache[k].version
          BY <4>1, <5>1
        <5> QED
          BY <3>3, <4>1, <4>2, <5>2 DEF Seen
      <4>3. CASE ~(cache[b.key].version < v)
        BY <3>1, <3>3, <4>1, <4>3 DEF ApplyBatchResult, Seen
      <4> QED
        BY <4>2, <4>3
    <3> QED
      BY <3>3, <3>4 DEF Collection!Acknowledged, Seen
  <2>2. CASE WriteDenied
    BY <2>2 DEF WriteDenied, RejectBatch, Seen
  <2> QED
    BY <2>1, <2>2
<1> QED
  BY <1>1, <1>3, <1>4 DEF Collection!Settle, Unsettled, Seen

\* A snapshot moves the documents on, and none back.
LEMMA LearnRefined == CInv /\ WatchSnapshot => Collection!Learn
<1> SUFFICES ASSUME CInv, WatchSnapshot PROVE Collection!Learn
  OBVIOUS
<1>0. PICK version \in lastRemote..Len(commits) :
        \E docs :
          /\ docs = [k \in DOMAIN docs |-> ServerDocument(commits, k, version)]
          /\ \A i \in (lastRemote + 1)..version : commits[i].key \in DOMAIN docs
          /\ ApplyRemoteEvent(docs, version)
  BY SnapshotIs
<1>1. PICK docs :
        /\ docs = [k \in DOMAIN docs |-> ServerDocument(commits, k, version)]
        /\ \A i \in (lastRemote + 1)..version : commits[i].key \in DOMAIN docs
        /\ ApplyRemoteEvent(docs, version)
  BY <1>0
<1>2. commits' = commits /\ queue' = queue
  BY <1>1 DEF WatchSnapshot, ApplyRemoteEvent
<1>3. ASSUME NEW k \in Keys
      PROVE  cache'[k].version \in 0..Len(commits) /\ cache'[k].version >= cache[k].version
  <2>1. CachedGood(k)' /\ cache'[k].version \in Nat /\ cache'[k].version >= cache[k].version
    BY <1>1, <1>2, DocumentLearnt
  <2>2. Len(commits) \in Nat /\ cache'[k].version <= Len(commits)
    BY <1>2, <2>1, CacheType DEF CInv, WInv, CachedGood
  <2> QED
    BY <2>1, <2>2
<1>4. Seen' \in [Keys -> 0..Len(commits)] /\ \A k \in Keys : Seen'[k] >= Seen[k]
  BY <1>3 DEF Seen
<1> QED
  BY <1>2, <1>4 DEF Collection!Learn, Seen

\* The other tasks do not show.
LEMMA NextRefined ==
  CInv /\ [Next]_vars => [Collection!Next]_<<commits, Unsettled(queue), Seen>>
<1> SUFFICES ASSUME CInv, [Next]_vars
             PROVE  Collection!Next \/ UNCHANGED <<commits, Unsettled(queue), Seen>>
  OBVIOUS
<1>1. CASE Launch
  BY <1>1 DEF Launch, StoreRestarts, Unsettled, Seen
<1>2. CASE SetOrDelete
  BY <1>2, WriteRefined DEF Collection!Next
<1>3. CASE MutationResult \/ WriteDenied
  BY <1>3, SettleRefined DEF Collection!Next
<1>4. CASE ServeWrite \/ OtherWrites
  BY <1>4, CommitRefined DEF Collection!Next
<1>5. CASE WatchSnapshot
  BY <1>5, LearnRefined DEF Collection!Next
<1>6. CASE \/ DisableNetwork \/ EnableNetwork \/ HandleCredentialChange
           \/ TokenArrives \/ StreamOpens \/ BackoffEnds \/ HandshakeCompletes
           \/ ServeHandshake \/ Refuse
           \/ TokenFails \/ StreamFails \/ IdleTimeout \/ Die \/ UNCHANGED vars
  BY <1>6, StoreQuiet DEF Unsettled, Seen
<1> QED
  BY <1>1, <1>2, <1>3, <1>4, <1>5, <1>6 DEF Next, App, Client, Server, Faults

\* The client keeps what SharedCollection promises the app: own writes at
\* once and until settled, settled in order, and no document back to older
\* contents than those seen.
THEOREM ClientImplementsSharedCollection == Spec => ImplementsSharedCollection
<1>1. Init => Collection!Init
  BY InitRefined
<1>2. CInv /\ [Next]_vars => [Collection!Next]_<<commits, Unsettled(queue), Seen>>
  BY NextRefined
<1>3. CInv /\ [Next]_vars =>
        [Collection!Next]_<<commits, [i \in DOMAIN queue |-> Written(queue[i])],
                            [k \in Keys |-> cache[k].version]>>
  BY <1>2 DEF Unsettled, Seen
<1> QED
  BY <1>1, <1>3, CInvariance, PTL DEF Spec, ImplementsSharedCollection, Collection!Spec
=============================================================================
