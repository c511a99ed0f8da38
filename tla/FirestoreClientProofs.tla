----------------------- MODULE FirestoreClientProofs -----------------------
(***************************************************************************)
(* Proofs about FirestoreClient, first part: the types, what is in flight, *)
(* which answer belongs to which write, and the assertions of the stream,  *)
(* for any number of writes, failures and restarts and any limit on what   *)
(* is in flight.                                                           *)
(***************************************************************************)
EXTENDS FirestoreClientProperties, StreamProofs, WellFoundedInduction

\* A pipeline that is the head of a queue.
Heads(q, p) == Len(p) <= Len(q) /\ \A i \in DOMAIN p : p[i] = q[i]

Sorted(q) == \A i, j \in DOMAIN q : i < j => q[i].id < q[j].id

\* The queue, oldest first, is the newest of the writes; what is in flight is
\* its head.
QueueInv ==
  /\ Heads(queue, pipeline) /\ Len(pipeline) <= MaxPending
  /\ Sorted(queue)
  /\ alive => \A i \in DOMAIN queue : queue[i].id < nextBatchID
  /\ Len(queue) <= writes
  /\ \A i \in DOMAIN queue : queue[i].write = writes - Len(queue) + i

\* The life of the write stream: none without the network, and on an open one
\* the handshake comes first, sent and then answered.
WireInv ==
  /\ StreamInv(write)
  /\ network => alive
  /\ ~network => pipeline = <<>> /\ ~IsStarted(write)
  /\ write.idle => handshake /\ pipeline = <<>>
  /\ ~IsOpen(write) => ~handshake /\ sent = <<>> /\ replies = <<>>
  /\ IsOpen(write) /\ ~handshake =>
       \/ sent = <<Hello>> /\ replies = <<>>
       \/ sent = <<>> /\ replies = <<[of |-> Hello, version |-> Denied]>>

\* After the handshake: the answers, in order, are those to the pipeline's
\* head, only the last can be a refusal, and without one the rest is on its way.
AnswersInv ==
  handshake =>
    /\ Len(replies) <= Len(pipeline)
    /\ \A i \in DOMAIN replies : replies[i].of = pipeline[i]
    /\ \A i \in DOMAIN replies : i < Len(replies) => replies[i].version # Denied
    /\ \A i \in DOMAIN sent : sent[i] # Hello
    /\ ~Refused => /\ Len(replies) + Len(sent) = Len(pipeline)
                   /\ \A i \in DOMAIN sent : sent[i] = pipeline[Len(replies) + i]

\* The inductive invariant of this part.
IInv == TypeOK /\ QueueInv /\ WireInv /\ AnswersInv

-----------------------------------------------------------------------------
(* Least and greatest members, which the helpers choose.                   *)

LEMMA LeastNatural ==
  ASSUME NEW T \in SUBSET Nat, T # {}
  PROVE  \E x \in T : \A y \in T : x <= y
<1>1. PICK x \in T : \A y \in T : ~(<<y, x>> \in OpToRel(<, Nat))
  BY NatLessThanWellFounded, WFMin, Zenon
<1>2. \A y \in T : ~(y < x)
  BY <1>1 DEF OpToRel
<1> QED
  BY <1>2

LEMMA MinIsLeast ==
  ASSUME NEW T \in SUBSET Nat, T # {}
  PROVE  Min(T) \in T /\ \A y \in T : Min(T) <= y
BY LeastNatural, Zenon DEF Min

LEMMA MaxIsGreatest ==
  ASSUME NEW m \in Nat, NEW T \in SUBSET (0..m), T # {}
  PROVE  Max(T) \in T /\ \A y \in T : y <= Max(T)
<1> DEFINE U == { i \in Nat : m - i \in T }
<1>1. U # {}
  <2>1. PICK y \in T : TRUE
    OBVIOUS
  <2>2. m - y \in Nat /\ m - (m - y) = y
    BY <2>1
  <2>3. m - y \in U
    BY <2>2
  <2> QED
    BY <2>3
<1>2. PICK x \in U : \A y \in U : x <= y
  BY <1>1, LeastNatural
<1>3. m - x \in T
  OBVIOUS
<1>4. ASSUME NEW y \in T PROVE m - x >= y
  <2>1. m - y \in Nat /\ m - (m - y) = y
    OBVIOUS
  <2>2. m - y \in U
    BY <2>1
  <2> QED
    BY <1>2, <2>2
<1>5. \E z \in T : \A y \in T : z >= y
  BY <1>3, <1>4
<1>6. Max(T) \in T /\ \A y \in T : Max(T) >= y
  BY <1>5, Zenon DEF Max
<1> QED
  BY <1>6

\* What a greatest member is known by.
LEMMA MaxIs ==
  ASSUME NEW m \in Nat, NEW T \in SUBSET (0..m), NEW x \in T, \A y \in T : y <= x
  PROVE  Max(T) = x
<1>1. Max(T) \in T /\ \A y \in T : y <= Max(T)
  BY MaxIsGreatest
<1>2. PICK z \in T : z = Max(T) /\ \A y \in T : y <= z
  BY <1>1
<1>3. x \in Int /\ z \in Int /\ x <= z /\ z <= x
  BY <1>2
<1> QED
  BY <1>2, <1>3

LEMMA MinIs ==
  ASSUME NEW T \in SUBSET Nat, NEW x \in T, \A y \in T : x <= y
  PROVE  Min(T) = x
<1>1. Min(T) \in T /\ \A y \in T : Min(T) <= y
  BY MinIsLeast
<1>2. PICK z \in T : z = Min(T) /\ \A y \in T : z <= y
  BY <1>1
<1>3. x \in Int /\ z \in Int /\ x <= z /\ z <= x
  BY <1>2
<1> QED
  BY <1>2, <1>3

\* The parts of a concatenation.
LEMMA ConcatParts ==
  ASSUME NEW S, NEW s \in Seq(S), NEW t \in Seq(S)
  PROVE  /\ s \o t \in Seq(S) /\ Len(s \o t) = Len(s) + Len(t)
         /\ \A i \in 1..Len(s) : (s \o t)[i] = s[i]
         /\ \A i \in 1..Len(t) : (s \o t)[Len(s) + i] = t[i]
OBVIOUS

-----------------------------------------------------------------------------
(* What the helpers of the store and the pipeline return.                  *)

\* NextMutationBatchAfterBatchId: what the head of a queue leaves over.
LEMMA UnsentIs ==
  ASSUME NEW q \in Seq(Batch), NEW p \in Seq(Batch), Heads(q, p), Sorted(q)
  PROVE  Unsent(q, p) = SubSeq(q, Len(p) + 1, Len(q))
<1> DEFINE later == { i \in DOMAIN q : p = <<>> \/ q[i].id > p[Len(p)].id }
<1>1. later = (Len(p) + 1)..Len(q)
  <2>1. CASE p = <<>>
    BY <2>1
  <2>2. CASE p # <<>>
    <3>1. Len(p) \in DOMAIN q /\ p[Len(p)] = q[Len(p)]
      BY <2>2 DEF Heads
    <3>2. \A i \in DOMAIN q : q[i].id \in Nat
      <4>1. \A i \in DOMAIN q : q[i] \in Batch
        OBVIOUS
      <4> QED
        BY <4>1 DEF Batch
    <3>3. \A i \in DOMAIN q : q[i].id > q[Len(p)].id <=> i > Len(p)
      BY <3>1, <3>2 DEF Sorted
    <3> QED
      BY <2>2, <3>1, <3>3
  <2> QED
    BY <2>1, <2>2
<1>2. CASE later = {}
  <2>1. Len(p) = Len(q)
    BY <1>1, <1>2 DEF Heads
  <2> QED
    BY <1>2, <2>1 DEF Unsent
<1>3. CASE later # {}
  <2>1. Len(p) + 1 \in later /\ \A y \in later : Len(p) + 1 <= y
    BY <1>1, <1>3
  <2>2. later \in SUBSET Nat
    BY <1>1
  <2>3. Min(later) = Len(p) + 1
    BY <2>1, <2>2, MinIs
  <2> QED
    BY <1>3, <2>3 DEF Unsent
<1> QED
  BY <1>2, <1>3

\* FillWritePipeline adds what follows in the queue, up to the limit, and
\* something if it can.
LEMMA AddedGood ==
  ASSUME NEW p \in Seq(Batch), queue' \in Seq(Batch), Heads(queue', p), Sorted(queue'),
         NEW on \in BOOLEAN, Len(p) <= MaxPending
  PROVE  /\ Added(p, on) \in Seq(Batch)
         /\ Len(p) + Len(Added(p, on)) <= Len(queue')
         /\ Len(p) + Len(Added(p, on)) <= MaxPending
         /\ \A i \in 1..Len(Added(p, on)) : Added(p, on)[i] = queue'[Len(p) + i]
         /\ ~on => Added(p, on) = <<>>
         /\ on /\ p = <<>> /\ queue' # <<>> => Added(p, on) # <<>>
<1> DEFINE next == Unsent(queue', p)
           k == Upto(0, Len(next), IF on THEN MaxPending - Len(p) ELSE 0)
<1>1. next = SubSeq(queue', Len(p) + 1, Len(queue'))
  BY UnsentIs
<1>2. next \in Seq(Batch) /\ Len(next) = Len(queue') - Len(p)
  BY <1>1 DEF Heads
<1>3. \A i \in 1..Len(next) : next[i] = queue'[Len(p) + i]
  BY <1>1, <1>2 DEF Heads
<1> HIDE DEF next
<1>4. MaxPending \in Nat \ {0}
  BY ClientAssumption
<1>5. /\ k \in Nat /\ k <= Len(next) /\ k <= MaxPending - Len(p)
      /\ ~on => k = 0
      /\ on /\ p = <<>> /\ Len(next) > 0 => k > 0
  BY <1>2, <1>4 DEF Upto
<1> HIDE DEF k
<1>6. Added(p, on) = SubSeq(next, 1, k)
  BY DEF Added, next, k
<1>7. /\ SubSeq(next, 1, k) \in Seq(Batch) /\ Len(SubSeq(next, 1, k)) = k
      /\ \A i \in 1..k : SubSeq(next, 1, k)[i] = next[i]
  BY <1>2, <1>5
<1> DEFINE a == SubSeq(next, 1, k)
<1>8. a \in Seq(Batch) /\ Len(a) = k /\ \A i \in 1..k : a[i] = queue'[Len(p) + i]
  BY <1>2, <1>3, <1>5, <1>7
<1>9. ~on => a = <<>>
  BY <1>5, <1>8
<1>10. on /\ p = <<>> /\ queue' # <<>> => a # <<>>
  BY <1>2, <1>5, <1>8
<1>11. Added(p, on) = a
  BY <1>6
<1>12. Len(p) + Len(a) <= Len(queue') /\ Len(p) + Len(a) <= MaxPending
  BY <1>2, <1>4, <1>5, <1>8
<1> HIDE DEF a
<1> QED
  BY <1>8, <1>9, <1>10, <1>11, <1>12

\* The pipeline it makes.
LEMMA FilledGood ==
  ASSUME NEW p \in Seq(Batch), queue' \in Seq(Batch), Heads(queue', p), Sorted(queue'),
         NEW on \in BOOLEAN, Len(p) <= MaxPending
  PROVE  /\ p \o Added(p, on) \in Seq(Batch)
         /\ Heads(queue', p \o Added(p, on)) /\ Len(p \o Added(p, on)) <= MaxPending
         /\ Len(p \o Added(p, on)) = Len(p) + Len(Added(p, on))
         /\ \A i \in 1..Len(p) : (p \o Added(p, on))[i] = p[i]
         /\ \A i \in 1..Len(Added(p, on)) : (p \o Added(p, on))[Len(p) + i] = Added(p, on)[i]
<1> DEFINE a == Added(p, on)
<1>1. /\ a \in Seq(Batch) /\ Len(p) + Len(a) <= Len(queue') /\ Len(p) + Len(a) <= MaxPending
      /\ \A i \in 1..Len(a) : a[i] = queue'[Len(p) + i]
  BY AddedGood
<1> HIDE DEF a
<1>2. /\ p \o a \in Seq(Batch) /\ Len(p \o a) = Len(p) + Len(a)
      /\ \A i \in 1..Len(p) : (p \o a)[i] = p[i]
      /\ \A i \in 1..Len(a) : (p \o a)[Len(p) + i] = a[i]
  BY <1>1
<1>3. Heads(queue', p \o a)
  <2>1. ASSUME NEW i \in 1..(Len(p) + Len(a)) PROVE (p \o a)[i] = queue'[i]
    <3>1. CASE i <= Len(p)
      BY <1>2, <3>1 DEF Heads
    <3>2. CASE i > Len(p)
      <4>1. i - Len(p) \in 1..Len(a) /\ Len(p) + (i - Len(p)) = i
        BY <1>1, <3>2
      <4> QED
        BY <1>1, <1>2, <4>1
    <3> QED
      BY <3>1, <3>2
  <2>2. DOMAIN (p \o a) = 1..(Len(p) + Len(a))
    BY <1>1, <1>2
  <2> QED
    BY <1>1, <1>2, <2>1, <2>2 DEF Heads
<1> QED
  BY <1>1, <1>2, <1>3 DEF a

\* What becomes of the stream: it stays open or closed, asserts nothing false,
\* and waits to be idle only over an empty pipeline.
LEMMA StreamFilledGood ==
  ASSUME NEW p \in Seq(Batch), NEW s \in StreamRecord, StreamInv(s),
         NEW shook \in BOOLEAN, NEW on \in BOOLEAN,
         Added(p, on) \in Seq(Batch), ~on => Added(p, on) = <<>>,
         s.idle => shook /\ p = <<>>
  PROVE  /\ FilledStream(p, s, shook, on) \in StreamRecord
         /\ StreamInv(FilledStream(p, s, shook, on))
         /\ IsOpen(FilledStream(p, s, shook, on)) <=> IsOpen(s)
         /\ ~on => (IsStarted(FilledStream(p, s, shook, on)) <=> IsStarted(s))
         /\ FilledStream(p, s, shook, on).idle => IsOpen(s) /\ p \o Added(p, on) = <<>>
<1> DEFINE more == Added(p, on)
           used == IF more # <<>> /\ CanSend(s, shook) THEN Write(s)
                   ELSE IF on /\ p \o more = <<>> THEN MarkIdle(s) ELSE s
           t    == IF ShouldStart(p \o more, used, on) THEN Start(used) ELSE used
<1>1. FilledStream(p, s, shook, on) = t
  BY DEF FilledStream
<1>2. more \in Seq(Batch) /\ (~on => more = <<>>)
  OBVIOUS
<1> HIDE DEF more
<1>3. p = <<>> /\ more = <<>> => p \o more = <<>>
  OBVIOUS
<1>4. /\ used \in StreamRecord /\ StreamInv(used)
      /\ used.state = s.state
      /\ used.idle => IsOpen(s) /\ p \o more = <<>>
  <2>1. CASE more # <<>> /\ CanSend(s, shook)
    <3>1. used = Write(s) /\ IsOpen(s)
      BY <2>1 DEF CanSend
    <3>2. /\ Write(s) \in StreamRecord /\ StreamInv(Write(s))
          /\ IsOpen(Write(s)) /\ ~Write(s).idle
      BY <3>1, WriteGood
    <3> QED
      BY <3>1, <3>2 DEF IsOpen
  <2>2. CASE ~(more # <<>> /\ CanSend(s, shook)) /\ on /\ p \o more = <<>>
    <3>1. used = MarkIdle(s)
      BY <2>2
    <3>2. /\ MarkIdle(s) \in StreamRecord /\ StreamInv(MarkIdle(s))
          /\ MarkIdle(s).state = s.state
      BY MarkIdleGood
    <3>3. MarkIdle(s).idle => IsOpen(s)
      BY <3>2 DEF StreamInv, IsOpen
    <3> QED
      BY <2>2, <3>1, <3>2, <3>3
  <2>3. CASE ~(more # <<>> /\ CanSend(s, shook)) /\ ~(on /\ p \o more = <<>>)
    <3>1. used = s
      BY <2>3
    <3>2. s.idle => IsOpen(s) /\ p \o more = <<>>
      BY <1>2, <1>3, <2>3 DEF StreamInv, CanSend
    <3> QED
      BY <3>1, <3>2
  <2> QED
    BY <2>1, <2>2, <2>3
<1> HIDE DEF used
<1>5. CASE ShouldStart(p \o more, used, on)
  <2>1. on /\ ~IsStarted(used) /\ t = Start(used)
    BY <1>5 DEF ShouldStart
  <2>2. /\ t \in StreamRecord /\ StreamInv(t) /\ ~t.idle /\ IsStarted(t)
    BY <1>4, <2>1, StartGood
  <2>3. ~IsOpen(t)
    BY <1>4, <2>1, StartOpensLater
  <2>4. ~IsOpen(s)
    BY <1>4, <2>1 DEF IsOpen, IsStarted
  <2> QED
    BY <1>1, <2>1, <2>2, <2>3, <2>4 DEF more
<1>6. CASE ~ShouldStart(p \o more, used, on)
  <2>1. t = used
    BY <1>6
  <2> QED
    BY <1>1, <1>4, <2>1 DEF IsOpen, IsStarted, more
<1> QED
  BY <1>5, <1>6

-----------------------------------------------------------------------------
(* What the tasks leave of the right type.                                 *)

LEMMA OverlayType ==
  ASSUME NEW q \in Seq(Batch), NEW c \in [Keys -> Document], NEW k \in Keys
  PROVE  Overlay(q, c, k) \in Int /\ Pending(q, k) \in BOOLEAN
<1>1. CASE Pending(q, k)
  <2>1. Len(q) \in Nat /\ On(q, k) \in SUBSET (0..Len(q)) /\ On(q, k) # {}
    BY <1>1 DEF On, Pending
  <2>2. Max(On(q, k)) \in On(q, k)
    BY <2>1, MaxIsGreatest
  <2>3. q[Max(On(q, k))] \in Batch
    BY <2>2 DEF On
  <2> QED
    BY <1>1, <2>3, WritesAssumption DEF Overlay, Batch, Pending
<1>2. CASE ~Pending(q, k)
  BY <1>2 DEF Overlay, Document, Pending
<1> QED
  BY <1>1, <1>2

LEMMA EmitType ==
  ASSUME queue' \in Seq(Batch), cache' \in [Keys -> Document], shown \in [Keys -> Shown],
         NEW ks, EmitNewSnapshots(ks)
  PROVE  shown' \in [Keys -> Shown]
<1>1. ASSUME NEW k \in Keys
      PROVE  ShowDocument(shown[k], Local(queue', cache', k)) \in Shown
  <2> DEFINE new == Local(queue', cache', k)
  <2>1. new.value = Overlay(queue', cache', k) /\ new.local = Pending(queue', k)
    BY DEF Local
  <2>2. new.value \in Int /\ new.local \in BOOLEAN
    BY <2>1, OverlayType
  <2> HIDE DEF new
  <2>3. ShowDocument(shown[k], new) \in Shown
    BY <2>2 DEF ShowDocument, Shown
  <2> QED
    BY <2>3 DEF new
<1> QED
  BY <1>1 DEF EmitNewSnapshots

LEMMA LastCommitType ==
  ASSUME NEW log \in Seq(Commit), NEW k, NEW version \in 0..Len(log)
  PROVE  /\ LastCommit(log, k, version) \in 0..version
         /\ LastCommit(log, k, version) # 0 => log[LastCommit(log, k, version)].key = k
         /\ \A i \in 1..version : log[i].key = k => i <= LastCommit(log, k, version)
<1> DEFINE on == {0} \cup { i \in 1..version : log[i].key = k }
<1>1. on \in SUBSET (0..version) /\ on # {} /\ version \in Nat
  OBVIOUS
<1>2. Max(on) \in on /\ \A y \in on : y <= Max(on)
  BY <1>1, MaxIsGreatest
<1> QED
  BY <1>2 DEF LastCommit

LEMMA ServerDocumentType ==
  ASSUME NEW log \in Seq(Commit), NEW k, NEW version \in 0..Len(log)
  PROVE  ServerDocument(log, k, version) \in Document
<1> DEFINE i == LastCommit(log, k, version)
<1>1. i \in 0..Len(log)
  BY LastCommitType
<1> HIDE DEF i
<1>2. ServerValue(log, k, version) = IF i = 0 THEN Absent ELSE log[i].value
  BY DEF ServerValue, i
<1>3. ServerValue(log, k, version) \in Int
  <2>1. i # 0 => log[i] \in Commit
    BY <1>1
  <2> QED
    BY <1>2, <2>1 DEF Absent, Commit
<1>4. ServerDocument(log, k, version) =
        [value |-> ServerValue(log, k, version),
         version |-> IF ServerValue(log, k, version) = Absent THEN version ELSE i,
         committed |-> FALSE]
  BY DEF ServerDocument, i
<1> QED
  BY <1>1, <1>3, <1>4 DEF Document

-----------------------------------------------------------------------------
(* The invariant holds at the start, and every task keeps it.              *)

LEMMA InitInv == Init => IInv
<1> SUFFICES ASSUME Init PROVE IInv
  OBVIOUS
<1>1. TypeOK
  <2>1. /\ queue \in Seq(Batch) /\ pipeline \in Seq(Batch) /\ sent \in Seq(Batch \cup {Hello})
        /\ replies \in Seq(Reply) /\ commits \in Seq(Commit)
    BY DEF Init, StoreInit
  <2>2. cache \in [Keys -> Document] /\ shown \in [Keys -> Shown]
    BY DEF Init, StoreInit, Unknown, Document, Absent, Shown
  <2>3. write \in StreamRecord
    BY DEF Init, NewStream, StreamRecord, StreamStates
  <2>4. outcome \in [1..MaxWrites -> {"none", "ok", "denied"}]
    BY DEF Init
  <2>5. nextBatchID \in Nat \ {0} /\ lastRemote \in Nat
    BY DEF Init, StoreInit
  <2>6. alive \in BOOLEAN /\ network \in BOOLEAN /\ handshake \in BOOLEAN
    BY DEF Init
  <2>7. denied \subseteq 1..writes /\ writes \in 0..MaxWrites /\ troubles \in 0..MaxTroubles
    BY WritesAssumption, ClientAssumption DEF Init
  <2> QED
    BY <2>1, <2>2, <2>3, <2>4, <2>5, <2>6, <2>7 DEF TypeOK
<1>2. QueueInv
  BY ClientAssumption DEF Init, StoreInit, QueueInv, Heads, Sorted
<1>3. WireInv
  BY DEF Init, NewStream, WireInv, StreamInv, IsOpen, IsStarted
<1>4. AnswersInv
  BY DEF Init, AnswersInv
<1> QED
  BY <1>1, <1>2, <1>3, <1>4 DEF IInv

\* FillWritePipeline as a whole.
LEMMA FillGood ==
  ASSUME NEW p \in Seq(Batch), NEW s \in StreamRecord, StreamInv(s),
         NEW shook \in BOOLEAN, NEW on \in BOOLEAN,
         queue' \in Seq(Batch), Heads(queue', p), Sorted(queue'), Len(p) <= MaxPending,
         s.idle => shook /\ p = <<>>,
         FillWritePipeline(p, s, shook, on)
  PROVE  /\ pipeline' \in Seq(Batch) /\ Heads(queue', pipeline') /\ Len(pipeline') <= MaxPending
         /\ write' \in StreamRecord /\ StreamInv(write')
         /\ IsOpen(write') <=> IsOpen(s)
         /\ ~on => pipeline' = p /\ (IsStarted(write') <=> IsStarted(s))
         /\ write'.idle => IsOpen(s) /\ pipeline' = <<>>
         /\ on /\ queue' # <<>> => pipeline' # <<>>
<1> DEFINE more == Added(p, on)
<1>1. /\ more \in Seq(Batch) /\ (~on => more = <<>>)
      /\ on /\ p = <<>> /\ queue' # <<>> => more # <<>>
  BY AddedGood
<1>2. /\ p \o more \in Seq(Batch) /\ Heads(queue', p \o more) /\ Len(p \o more) <= MaxPending
  BY FilledGood
<1>3. /\ FilledStream(p, s, shook, on) \in StreamRecord
      /\ StreamInv(FilledStream(p, s, shook, on))
      /\ IsOpen(FilledStream(p, s, shook, on)) <=> IsOpen(s)
      /\ ~on => (IsStarted(FilledStream(p, s, shook, on)) <=> IsStarted(s))
      /\ FilledStream(p, s, shook, on).idle => IsOpen(s) /\ p \o more = <<>>
  BY <1>1, StreamFilledGood
<1>4. pipeline' = p \o more /\ write' = FilledStream(p, s, shook, on)
  BY DEF FillWritePipeline
<1> HIDE DEF more
<1>5. more = <<>> => p \o more = p
  OBVIOUS
<1>6. p # <<>> \/ more # <<>> => p \o more # <<>>
  BY <1>1
<1> QED
  BY <1>1, <1>2, <1>3, <1>4, <1>5, <1>6

\* The empty pipeline heads any queue.
LEMMA EmptyHeads ==
  ASSUME NEW q \in Seq(Batch)
  PROVE  <<>> \in Seq(Batch) /\ Heads(q, <<>>) /\ Len(<<>>) <= MaxPending
BY ClientAssumption DEF Heads

\* A stream that is not started, and a wire that is down.
LEMMA DownGood ==
  ASSUME NEW s \in StreamRecord, StreamInv(s), ~IsStarted(s)
  PROVE  ~IsOpen(s) /\ ~s.idle
BY DEF StreamInv, IsOpen, IsStarted

LEMMA NewStreamGood == NewStream \in StreamRecord /\ StreamInv(NewStream) /\ ~IsStarted(NewStream)
BY DEF NewStream, StreamRecord, StreamStates, StreamInv, IsStarted, IsOpen

\* The fields of what is in a queue.
LEMMA BatchFields ==
  ASSUME NEW q \in Seq(Batch), NEW i \in DOMAIN q
  PROVE  /\ q[i] \in Batch /\ q[i].id \in Nat \ {0} /\ q[i].write \in 1..MaxWrites
         /\ q[i].key \in Keys /\ q[i].value \in 0..MaxWrites
<1>1. q[i] \in Batch
  OBVIOUS
<1> QED
  BY <1>1 DEF Batch

LEMMA LastIsLargest ==
  ASSUME NEW q \in Seq(Batch), q # <<>>, Sorted(q)
  PROVE  /\ q[Len(q)].id \in Nat
         /\ \A i \in DOMAIN q : q[i].id \in Nat /\ q[i].id <= q[Len(q)].id
<1>1. Len(q) \in Nat /\ DOMAIN q = 1..Len(q) /\ Len(q) \in DOMAIN q
  OBVIOUS
<1>2. \A i \in DOMAIN q : q[i].id \in Nat
  BY BatchFields
<1>3. ASSUME NEW i \in DOMAIN q, i # Len(q) PROVE q[i].id < q[Len(q)].id
  <2>1. i < Len(q)
    BY <1>1, <1>3
  <2> QED
    BY <1>1, <2>1 DEF Sorted
<1> QED
  BY <1>1, <1>2, <1>3

LEMMA LaunchStep == IInv /\ Launch => IInv'
<1> SUFFICES ASSUME IInv, Launch PROVE IInv'
  OBVIOUS
<1> USE DEF IInv
<1>1. ~network /\ ~handshake /\ sent = <<>> /\ replies = <<>>
  BY DownGood DEF Launch, WireInv, TypeOK
<1>2. /\ queue' = queue /\ cache' = cache /\ lastRemote' = lastRemote
      /\ nextBatchID' = NextBatchIDFromDisk(queue)
  BY DEF Launch, StoreRestarts
<1>3. /\ nextBatchID' \in Nat \ {0}
      /\ \A i \in DOMAIN queue : queue[i].id < nextBatchID'
  <2>1. CASE queue = <<>>
    BY <1>2, <2>1 DEF NextBatchIDFromDisk
  <2>2. CASE queue # <<>>
    <3>1. nextBatchID' = queue[Len(queue)].id + 1
      BY <1>2, <2>2 DEF NextBatchIDFromDisk
    <3>2. /\ queue[Len(queue)].id \in Nat
          /\ \A i \in DOMAIN queue : queue[i].id \in Nat /\ queue[i].id <= queue[Len(queue)].id
      BY <2>2, LastIsLargest DEF TypeOK, QueueInv
    <3> QED
      BY <3>1, <3>2
  <2> QED
    BY <2>1, <2>2
<1>4. /\ pipeline' \in Seq(Batch) /\ Heads(queue', pipeline') /\ Len(pipeline') <= MaxPending
      /\ write' \in StreamRecord /\ StreamInv(write') /\ ~IsOpen(write') /\ ~write'.idle
  BY <1>2, EmptyHeads, NewStreamGood, DownGood, FillGood DEF Launch, TypeOK, QueueInv
<1>5. shown' \in [Keys -> Shown]
  BY OverlayType DEF Launch, TypeOK, Shown
<1>6. /\ alive' = TRUE /\ network' = TRUE
      /\ UNCHANGED <<handshake, sent, replies, commits, outcome, denied, writes, troubles>>
  BY DEF Launch, wireVars, bounds
<1>7. TypeOK'
  BY <1>2, <1>3, <1>4, <1>5, <1>6 DEF TypeOK
<1>8. QueueInv'
  BY <1>2, <1>3, <1>4, <1>6 DEF QueueInv
<1>9. WireInv'
  BY <1>1, <1>4, <1>6 DEF WireInv
<1>10. AnswersInv'
  BY <1>1, <1>6 DEF AnswersInv
<1> QED
  BY <1>7, <1>8, <1>9, <1>10

\* A wire that is down after a task keeps the rest of the invariant.
LEMMA Down ==
  ASSUME write' \in StreamRecord, StreamInv(write'), ~IsOpen(write'), ~handshake',
         sent' = <<>>, replies' = <<>>, network' => alive',
         ~network' => pipeline' = <<>> /\ ~IsStarted(write')
  PROVE  WireInv' /\ AnswersInv'
BY DEF WireInv, AnswersInv, StreamInv, IsOpen

LEMMA TroubleType == TypeOK /\ Trouble => troubles' \in 0..MaxTroubles
BY ClientAssumption DEF TypeOK, Trouble

LEMMA DieStep == IInv /\ Die => IInv'
<1> SUFFICES ASSUME IInv, Die PROVE IInv'
  OBVIOUS
<1> USE DEF IInv
<1>1. WireInv' /\ AnswersInv'
  BY NewStreamGood, DownGood, Down DEF Die
<1>2. QueueInv'
  BY EmptyHeads DEF Die, QueueInv, TypeOK, storeVars
<1>3. alive' = FALSE /\ network' = FALSE /\ handshake' = FALSE /\ Trouble
  BY DEF Die
<1>4. /\ pipeline' \in Seq(Batch) /\ write' \in StreamRecord
      /\ sent' \in Seq(Batch \cup {Hello}) /\ replies' \in Seq(Reply)
  BY NewStreamGood DEF Die
<1>5. UNCHANGED <<queue, nextBatchID, cache, lastRemote, shown, commits, outcome, denied, writes>>
  BY DEF Die, storeVars
<1>6. troubles' \in 0..MaxTroubles
  BY <1>3, TroubleType
<1>7. TypeOK'
  BY <1>3, <1>4, <1>5, <1>6 DEF TypeOK
<1> QED
  BY <1>1, <1>2, <1>7

\* What turning the network off and on leaves alone.
LEMMA SwitchedGood ==
  ASSUME IInv, NEW from \in BOOLEAN, NEW to \in BOOLEAN, Switched(from, to),
         pipeline' \in Seq(Batch), Heads(queue, pipeline'), Len(pipeline') <= MaxPending,
         write' \in StreamRecord, StreamInv(write'), ~IsOpen(write'),
         ~to => pipeline' = <<>> /\ ~IsStarted(write')
  PROVE  IInv'
<1> USE DEF IInv
<1>1. WireInv' /\ AnswersInv'
  BY Down DEF Switched
<1>2. QueueInv'
  BY DEF Switched, QueueInv, storeVars
<1>3. troubles' \in 0..MaxTroubles
  BY TroubleType DEF Switched, TypeOK
<1>4. sent' \in Seq(Batch \cup {Hello}) /\ replies' \in Seq(Reply)
  BY DEF Switched
<1>5. UNCHANGED <<queue, nextBatchID, cache, lastRemote, alive, shown, commits, outcome, denied, writes>>
  BY DEF Switched, storeVars
<1>6. network' \in BOOLEAN /\ handshake' \in BOOLEAN
  BY Zenon DEF Switched
<1>7. TypeOK'
  BY <1>3, <1>4, <1>5, <1>6 DEF TypeOK
<1> QED
  BY <1>1, <1>2, <1>7

LEMMA DisableNetworkStep == IInv /\ DisableNetwork => IInv'
<1> SUFFICES ASSUME IInv, DisableNetwork PROVE IInv'
  OBVIOUS
<1>1. Switched(TRUE, FALSE) /\ pipeline' = <<>> /\ write' = Stop(write)
  BY DEF DisableNetwork
<1>2. write' \in StreamRecord /\ StreamInv(write') /\ ~IsStarted(write')
  BY <1>1, StopGood DEF IInv, TypeOK, WireInv
<1> QED
  BY <1>1, <1>2, DownGood, EmptyHeads, SwitchedGood DEF IInv, TypeOK

LEMMA EnableNetworkStep == IInv /\ EnableNetwork => IInv'
<1> SUFFICES ASSUME IInv, EnableNetwork PROVE IInv'
  OBVIOUS
<1>1. Switched(FALSE, TRUE) /\ FillWritePipeline(pipeline, write, FALSE, TRUE)
  BY DEF EnableNetwork
<1>2. queue' = queue /\ ~IsStarted(write) /\ ~IsOpen(write) /\ ~write.idle
  BY <1>1, DownGood DEF Switched, storeVars, IInv, WireInv, TypeOK
<1>3. /\ pipeline' \in Seq(Batch) /\ Heads(queue', pipeline') /\ Len(pipeline') <= MaxPending
      /\ write' \in StreamRecord /\ StreamInv(write') /\ ~IsOpen(write')
  BY <1>1, <1>2, FillGood DEF IInv, TypeOK, QueueInv, WireInv
<1> QED
  BY <1>1, <1>2, <1>3, SwitchedGood

LEMMA HandleCredentialChangeStep == IInv /\ HandleCredentialChange => IInv'
<1> SUFFICES ASSUME IInv, HandleCredentialChange PROVE IInv'
  OBVIOUS
<1>1. Switched(TRUE, TRUE) /\ FillWritePipeline(<<>>, Stop(write), FALSE, TRUE)
  BY DEF HandleCredentialChange
<1>2. /\ queue' = queue
      /\ Stop(write) \in StreamRecord /\ StreamInv(Stop(write))
      /\ ~IsOpen(Stop(write)) /\ ~Stop(write).idle
  BY <1>1, StopGood, DownGood DEF Switched, storeVars, IInv, WireInv, TypeOK
<1>3. /\ pipeline' \in Seq(Batch) /\ Heads(queue', pipeline') /\ Len(pipeline') <= MaxPending
      /\ write' \in StreamRecord /\ StreamInv(write') /\ ~IsOpen(write')
  BY <1>1, <1>2, EmptyHeads, FillGood DEF IInv, TypeOK, QueueInv
<1> QED
  BY <1>1, <1>2, <1>3, SwitchedGood

-----------------------------------------------------------------------------
(* Steps of the stream alone.                                              *)

LEMMA IdlingGood ==
  ASSUME IInv, Idling, pipeline' = pipeline, troubles' \in 0..MaxTroubles,
         write' \in StreamRecord, handshake' \in BOOLEAN,
         sent' \in Seq(Batch \cup {Hello}), replies' \in Seq(Reply)
  PROVE  TypeOK' /\ QueueInv'
BY DEF IInv, Idling, TypeOK, QueueInv, storeVars

LEMMA TokenArrivesStep == IInv /\ TokenArrives => IInv'
<1> SUFFICES ASSUME IInv, TokenArrives PROVE IInv'
  OBVIOUS
<1> USE DEF IInv
<1>1. /\ write' \in StreamRecord /\ StreamInv(write')
      /\ write'.state = write.state /\ write'.idle = write.idle
  BY TokenGood DEF TokenArrives, TypeOK, WireInv
<1>2. UNCHANGED <<pipeline, handshake, sent, replies, troubles>> /\ Idling
  BY DEF TokenArrives, wireVars
<1>3. TypeOK' /\ QueueInv'
  BY <1>1, <1>2, IdlingGood DEF TypeOK
<1>4. WireInv'
  BY <1>1, <1>2 DEF WireInv, IsOpen, IsStarted, Idling
<1>5. AnswersInv'
  BY <1>2 DEF AnswersInv, Refused
<1> QED
  BY <1>3, <1>4, <1>5

LEMMA StreamOpensStep == IInv /\ StreamOpens => IInv'
<1> SUFFICES ASSUME IInv, StreamOpens PROVE IInv'
  OBVIOUS
<1> USE DEF IInv
<1>1. Opened(write) \in StreamRecord /\ StreamInv(Opened(write)) /\ IsOpen(Opened(write))
  BY OpenedGood DEF StreamOpens, TypeOK, WireInv
<1>2. write' \in StreamRecord /\ StreamInv(write') /\ IsOpen(write') /\ ~write'.idle
  BY <1>1, WriteGood DEF StreamOpens
<1>3. ~IsOpen(write) /\ IsStarted(write)
  BY DEF StreamOpens, IsOpen, IsStarted
<1>4. sent' = <<Hello>> /\ replies' = <<>> /\ ~handshake' /\ network' /\ alive'
  BY <1>3 DEF StreamOpens, WireInv, Idling, TypeOK
<1>5. sent' \in Seq(Batch \cup {Hello})
  BY <1>4
<1>6. TypeOK' /\ QueueInv'
  BY <1>2, <1>5, IdlingGood DEF StreamOpens, TypeOK
<1>7. WireInv'
  BY <1>2, <1>4 DEF WireInv
<1>8. AnswersInv'
  BY <1>4 DEF AnswersInv
<1> QED
  BY <1>6, <1>7, <1>8

LEMMA BackoffEndsStep == IInv /\ BackoffEnds => IInv'
<1> SUFFICES ASSUME IInv, BackoffEnds PROVE IInv'
  OBVIOUS
<1> USE DEF IInv
<1>1. write.state = "Backoff" /\ write' = BackoffElapsed(write)
  BY DEF BackoffEnds
<1>2. write' \in StreamRecord /\ StreamInv(write') /\ ~IsOpen(write')
  <2>1. [write EXCEPT !.state = "Initial"] \in StreamRecord
    BY DEF TypeOK, StreamRecord, StreamStates
  <2> QED
    BY <1>1, <2>1, BackoffGood, StartOpensLater DEF TypeOK, WireInv, BackoffElapsed
<1>3. network /\ ~IsOpen(write)
  BY <1>1 DEF WireInv, IsStarted, IsOpen
<1>4. UNCHANGED <<pipeline, handshake, sent, replies, troubles>> /\ Idling
  BY DEF BackoffEnds, wireVars
<1>5. TypeOK' /\ QueueInv'
  BY <1>2, <1>4, IdlingGood DEF TypeOK
<1>6. WireInv' /\ AnswersInv'
  BY <1>2, <1>3, <1>4, Down DEF WireInv, Idling
<1> QED
  BY <1>5, <1>6

LEMMA IdleTimeoutStep == IInv /\ IdleTimeout => IInv'
<1> SUFFICES ASSUME IInv, IdleTimeout PROVE IInv'
  OBVIOUS
<1> USE DEF IInv
<1>1. pipeline = <<>> /\ IsOpen(write) /\ network
  BY DEF IdleTimeout, WireInv, StreamInv, IsOpen, IsStarted
<1>2. /\ Stop(write) \in StreamRecord /\ StreamInv(Stop(write)) /\ ~IsStarted(Stop(write))
  BY StopGood DEF TypeOK, WireInv
<1>3. write' = Stop(write)
  <2>1. ~ShouldStart(pipeline, Stop(write), network)
    BY <1>1 DEF ShouldStart
  <2> QED
    BY <1>2, <2>1, AssertingGood DEF IdleTimeout, StreamInv
<1>4. /\ handshake' = FALSE /\ sent' = <<>> /\ replies' = <<>>
      /\ UNCHANGED <<pipeline, troubles>> /\ Idling
  BY DEF IdleTimeout
<1>5. handshake' \in BOOLEAN /\ sent' \in Seq(Batch \cup {Hello}) /\ replies' \in Seq(Reply)
  <2>1. handshake' \in BOOLEAN
    BY <1>4, Zenon
  <2> QED
    BY <1>4, <2>1
<1>6. TypeOK' /\ QueueInv'
  BY <1>2, <1>3, <1>4, <1>5, IdlingGood DEF TypeOK
<1>7. WireInv' /\ AnswersInv'
  BY <1>1, <1>2, <1>3, <1>4, DownGood, Down DEF WireInv, Idling
<1> QED
  BY <1>6, <1>7

\* An error closes the stream, which starts again if it is needed.
LEMMA StreamLostGood ==
  ASSUME IInv, NEW s \in StreamRecord, StreamInv(s), IsStarted(s), network, StreamLost(s)
  PROVE  IInv'
<1> USE DEF IInv
<1> DEFINE c == Close(s, FALSE)
<1>1. c \in StreamRecord /\ StreamInv(c) /\ ~IsStarted(c)
  BY CloseGood
<1>2. write' = IF ShouldStart(pipeline, c, network) THEN Start(c) ELSE c
  BY DEF StreamLost, Reopening
<1> HIDE DEF c
<1>3. write' \in StreamRecord /\ StreamInv(write') /\ ~IsOpen(write')
  <2>1. CASE ShouldStart(pipeline, c, network)
    BY <1>1, <1>2, <2>1, StartGood, StartOpensLater
  <2>2. CASE ~ShouldStart(pipeline, c, network)
    BY <1>1, <1>2, <2>2, DownGood
  <2> QED
    BY <2>1, <2>2
<1>4. /\ handshake' = FALSE /\ sent' = <<>> /\ replies' = <<>>
      /\ pipeline' = pipeline /\ Idling /\ troubles' \in 0..MaxTroubles
  BY TroubleType DEF StreamLost
<1>5. handshake' \in BOOLEAN /\ sent' \in Seq(Batch \cup {Hello}) /\ replies' \in Seq(Reply)
  <2>1. handshake' \in BOOLEAN
    BY <1>4, Zenon
  <2> QED
    BY <1>4, <2>1
<1>6. TypeOK' /\ QueueInv'
  BY <1>3, <1>4, <1>5, IdlingGood
<1>7. WireInv' /\ AnswersInv'
  BY <1>3, <1>4, Down DEF WireInv, Idling
<1> QED
  BY <1>6, <1>7

LEMMA TokenFailsStep == IInv /\ TokenFails => IInv'
<1> SUFFICES ASSUME IInv, TokenFails PROVE IInv'
  OBVIOUS
<1> DEFINE s == [write EXCEPT !.auth = @ \ {write.closeCount}]
<1>1. StreamLost(s) /\ write.state = "Starting" /\ network
  BY DEF TokenFails, IInv, WireInv, StreamInv, IsStarted
<1>2. s \in StreamRecord /\ StreamInv(s) /\ IsStarted(s)
  BY <1>1 DEF IInv, TypeOK, WireInv, StreamRecord, StreamInv, IsStarted, IsOpen
<1> HIDE DEF s
<1> QED
  BY <1>1, <1>2, StreamLostGood

LEMMA StreamFailsStep == IInv /\ StreamFails => IInv'
<1> SUFFICES ASSUME IInv, StreamFails PROVE IInv'
  OBVIOUS
<1>1. StreamLost(write) /\ IsStarted(write) /\ network
  BY DEF StreamFails, IInv, WireInv, StreamInv, IsStarted
<1> QED
  BY <1>1, StreamLostGood DEF IInv, TypeOK, WireInv

\* A batch is not the handshake.
LEMMA BatchNotHello == \A b \in Batch : b # Hello
<1> SUFFICES ASSUME NEW b \in Batch, b = Hello PROVE FALSE
  OBVIOUS
<1>1. b.id # 0
  BY DEF Batch
<1> QED
  BY <1>1 DEF Hello

\* An answer to the handshake comes before it is complete, one to a write after.
LEMMA FirstAnswer ==
  ASSUME IInv, replies # <<>>
  PROVE  /\ IsOpen(write) /\ network /\ alive
         /\ Head(replies).of = Hello <=> ~handshake
         /\ ~handshake => sent = <<>> /\ Tail(replies) = <<>>
         /\ handshake => pipeline # <<>> /\ Head(replies).of = Head(pipeline)
<1> USE DEF IInv
<1>1. IsOpen(write) /\ network /\ alive
  BY DEF WireInv, IsOpen, IsStarted
<1>2. CASE ~handshake
  <2>1. sent = <<>> /\ replies = <<[of |-> Hello, version |-> Denied]>>
    BY <1>1, <1>2 DEF WireInv
  <2>2. Head(replies) = [of |-> Hello, version |-> Denied] /\ Tail(replies) = <<>>
    BY <2>1
  <2> QED
    BY <1>1, <1>2, <2>1, <2>2
<1>3. CASE handshake
  <2>1. 1 \in DOMAIN replies /\ 1 \in DOMAIN pipeline
    BY <1>3 DEF AnswersInv, TypeOK
  <2>2. replies[1].of = pipeline[1] /\ pipeline[1] \in Batch
    BY <1>3, <2>1 DEF AnswersInv, TypeOK
  <2> QED
    BY <1>1, <1>3, <2>1, <2>2, BatchNotHello
<1> QED
  BY <1>2, <1>3

LEMMA HandshakeCompletesStep == IInv /\ HandshakeCompletes => IInv'
<1> SUFFICES ASSUME IInv, HandshakeCompletes PROVE IInv'
  OBVIOUS
<1> USE DEF IInv
<1>1. IsOpen(write) /\ network /\ alive /\ sent = <<>> /\ Tail(replies) = <<>>
  BY FirstAnswer DEF HandshakeCompletes
<1>2. /\ handshake' = TRUE /\ sent' = pipeline /\ replies' = <<>>
      /\ pipeline' = pipeline /\ troubles' = troubles /\ Idling
  BY <1>1 DEF HandshakeCompletes, Resent, TypeOK
<1>3. /\ write' \in StreamRecord /\ StreamInv(write') /\ IsOpen(write')
      /\ write'.idle => pipeline = <<>>
  BY <1>1, WriteGood DEF HandshakeCompletes, TypeOK, WireInv
<1>4. handshake' \in BOOLEAN /\ sent' \in Seq(Batch \cup {Hello}) /\ replies' \in Seq(Reply)
  <2>1. pipeline \in Seq(Batch \cup {Hello})
    BY DEF TypeOK
  <2> QED
    BY <1>2, <2>1
<1>5. TypeOK' /\ QueueInv'
  BY <1>2, <1>3, <1>4, IdlingGood DEF TypeOK
<1>6. WireInv'
  BY <1>1, <1>2, <1>3 DEF WireInv, Idling
<1>7. AnswersInv'
  <2>1. \A i \in DOMAIN pipeline : pipeline[i] # Hello
    BY BatchNotHello DEF TypeOK
  <2> QED
    BY <1>2, <2>1 DEF AnswersInv, TypeOK
<1> QED
  BY <1>5, <1>6, <1>7

-----------------------------------------------------------------------------
(* Steps that change the queue.                                            *)

\* A batch that is removed because it was at the head: the queue loses it.
LEMMA RemoveHead ==
  ASSUME IInv, pipeline # <<>>, RemoveBatch(Head(pipeline))
  PROVE  /\ queue # <<>> /\ queue' = Tail(queue) /\ Head(queue) = Head(pipeline)
         /\ Len(queue) > 0 /\ Head(pipeline) = queue[1]
<1> USE DEF IInv
<1>1. /\ queue \in Seq(Batch) /\ Len(queue) \in Nat /\ Len(queue) > 0
      /\ Head(pipeline) = queue[1] /\ Head(queue) = queue[1]
  BY DEF TypeOK, QueueInv, Heads
<1>2. PICK i \in DOMAIN queue : queue[i].id = queue[1].id /\ queue' = RemoveAt(queue, i)
  BY <1>1 DEF RemoveBatch
<1>3. i = 1
  <2>1. i \in 1..Len(queue) /\ 1 \in DOMAIN queue
    BY <1>1
  <2>2. queue[1].id \in Nat
    BY <1>1, <2>1, BatchFields
  <2>3. i > 1 => queue[1].id < queue[i].id
    BY <1>1, <2>1 DEF QueueInv, Sorted
  <2> QED
    BY <1>2, <2>1, <2>2, <2>3
<1>4. RemoveAt(queue, 1) = Tail(queue)
  BY <1>1 DEF RemoveAt
<1> QED
  BY <1>1, <1>2, <1>3, <1>4

\* And the pipeline's rest heads the queue's rest.
LEMMA TailsGood ==
  ASSUME IInv, pipeline # <<>>, RemoveBatch(Head(pipeline))
  PROVE  /\ queue' \in Seq(Batch) /\ Tail(pipeline) \in Seq(Batch)
         /\ Heads(queue', Tail(pipeline)) /\ Sorted(queue')
         /\ Len(Tail(pipeline)) = Len(pipeline) - 1 /\ Len(Tail(pipeline)) <= MaxPending
         /\ Len(queue') = Len(queue) - 1
         /\ \A i \in DOMAIN queue' : i + 1 \in DOMAIN queue /\ queue'[i] = queue[i + 1]
<1> USE DEF IInv
<1>1. queue' = Tail(queue) /\ Len(queue) > 0
  BY RemoveHead
<1>2. queue \in Seq(Batch) /\ pipeline \in Seq(Batch)
  BY DEF TypeOK
<1>3. /\ queue' \in Seq(Batch) /\ Len(queue') = Len(queue) - 1
      /\ \A i \in DOMAIN queue' : i + 1 \in DOMAIN queue /\ queue'[i] = queue[i + 1]
  BY <1>1, <1>2
<1>4. /\ Tail(pipeline) \in Seq(Batch) /\ Len(Tail(pipeline)) = Len(pipeline) - 1
      /\ \A i \in DOMAIN Tail(pipeline) :
           i + 1 \in DOMAIN pipeline /\ Tail(pipeline)[i] = pipeline[i + 1]
  BY <1>2
<1>5. Sorted(queue')
  BY <1>2, <1>3 DEF QueueInv, Sorted
<1>6. Heads(queue', Tail(pipeline))
  <2>1. ASSUME NEW i \in DOMAIN Tail(pipeline) PROVE Tail(pipeline)[i] = queue'[i]
    <3>1. i \in DOMAIN queue'
      BY <1>2, <1>3, <1>4 DEF QueueInv, Heads
    <3> QED
      BY <1>3, <1>4, <3>1 DEF QueueInv, Heads
  <2> QED
    BY <1>2, <1>3, <1>4, <2>1 DEF QueueInv, Heads
<1>7. Len(Tail(pipeline)) <= MaxPending
  BY <1>2, <1>4, ClientAssumption DEF QueueInv
<1> QED
  BY <1>3, <1>4, <1>5, <1>6, <1>7

\* The queue after its head has been settled.
LEMMA SettledQueue ==
  ASSUME IInv, pipeline # <<>>, RemoveBatch(Head(pipeline)),
         UNCHANGED <<nextBatchID, alive, writes>>,
         Heads(queue', pipeline'), Len(pipeline') <= MaxPending
  PROVE  QueueInv'
<1> USE DEF IInv
<1>1. /\ queue' \in Seq(Batch) /\ Sorted(queue') /\ Len(queue') = Len(queue) - 1
      /\ \A i \in DOMAIN queue' : i + 1 \in DOMAIN queue /\ queue'[i] = queue[i + 1]
  BY TailsGood
<1>2. Len(queue) \in Nat /\ writes \in Nat /\ DOMAIN queue' \subseteq Nat
  BY <1>1, WritesAssumption DEF TypeOK
<1>3. Len(queue') <= writes
  BY <1>1, <1>2 DEF QueueInv
<1>4. ASSUME NEW i \in DOMAIN queue' PROVE queue'[i].write = writes - Len(queue') + i
  <2>1. queue'[i].write = writes - Len(queue) + (i + 1)
    BY <1>1 DEF QueueInv
  <2> QED
    BY <1>1, <1>2, <2>1
<1>5. alive' => \A i \in DOMAIN queue' : queue'[i].id < nextBatchID'
  BY <1>1 DEF QueueInv
<1> QED
  BY <1>1, <1>3, <1>4, <1>5 DEF QueueInv

\* What NotifyUser tells.
LEMMA NotifyType ==
  ASSUME TypeOK, NEW id, NEW how \in {"ok", "denied"}, NotifyUser(id, how)
  PROVE  outcome' \in [1..MaxWrites -> {"none", "ok", "denied"}]
BY DEF TypeOK, NotifyUser

\* The last answer is the only one that can be a refusal.
LEMMA RefusedLast ==
  ASSUME IInv, handshake
  PROVE  Refused <=> replies # <<>> /\ replies[Len(replies)].version = Denied
<1> USE DEF IInv
<1>1. \A i \in DOMAIN replies : replies[i].of # Hello
  <2>1. \A i \in DOMAIN replies : i \in DOMAIN pipeline /\ replies[i].of = pipeline[i]
    BY DEF AnswersInv, TypeOK
  <2>2. \A i \in DOMAIN pipeline : pipeline[i] # Hello
    BY BatchNotHello DEF TypeOK
  <2> QED
    BY <2>1, <2>2
<1>2. replies \in Seq(Reply)
  BY DEF TypeOK
<1>3. ASSUME NEW i \in DOMAIN replies, replies[i].version = Denied PROVE i = Len(replies)
  BY <1>2, <1>3 DEF AnswersInv
<1>4. replies # <<>> => Len(replies) \in DOMAIN replies
  BY <1>2
<1> QED
  BY <1>1, <1>2, <1>3, <1>4 DEF Refused

\* A sequence without its head.
LEMMA TailParts ==
  ASSUME NEW S, NEW p \in Seq(S), p # <<>>
  PROVE  /\ Tail(p) \in Seq(S) /\ Len(Tail(p)) = Len(p) - 1 /\ Len(p) \in Nat \ {0}
         /\ \A i \in 1..(Len(p) - 1) : Tail(p)[i] = p[i + 1]
OBVIOUS

\* A sequence without its head, and more after it.
LEMMA TailConcat ==
  ASSUME NEW p \in Seq(Batch), p # <<>>, NEW a \in Seq(Batch)
  PROVE  /\ Tail(p) \o a \in Seq(Batch) /\ Len(Tail(p) \o a) = Len(p) - 1 + Len(a)
         /\ \A i \in 1..(Len(p) - 1) : (Tail(p) \o a)[i] = p[i + 1]
         /\ \A i \in 1..Len(a) : (Tail(p) \o a)[Len(p) - 1 + i] = a[i]
<1> DEFINE t == Tail(p)
<1>1. /\ t \in Seq(Batch) /\ Len(t) = Len(p) - 1
      /\ \A i \in 1..(Len(p) - 1) : t[i] = p[i + 1]
  BY TailParts
<1> HIDE DEF t
<1>2. /\ t \o a \in Seq(Batch) /\ Len(t \o a) = Len(t) + Len(a)
      /\ \A i \in 1..Len(t) : (t \o a)[i] = t[i]
      /\ \A i \in 1..Len(a) : (t \o a)[Len(t) + i] = a[i]
  <2>1. ASSUME NEW x \in Seq(Batch)
        PROVE  /\ x \o a \in Seq(Batch) /\ Len(x \o a) = Len(x) + Len(a)
               /\ \A i \in 1..Len(x) : (x \o a)[i] = x[i]
               /\ \A i \in 1..Len(a) : (x \o a)[Len(x) + i] = a[i]
    BY ConcatParts
  <2> QED
    BY <1>1, <2>1, Zenon
<1>3. /\ t \o a \in Seq(Batch) /\ Len(t \o a) = Len(p) - 1 + Len(a)
      /\ \A i \in 1..(Len(p) - 1) : (t \o a)[i] = p[i + 1]
      /\ \A i \in 1..Len(a) : (t \o a)[Len(p) - 1 + i] = a[i]
  BY <1>1, <1>2
<1> QED
  BY <1>3 DEF t

\* What continues a line from its n-th member on, still does when the line
\* loses its head and more is added to both.
LEMMA RestContinues ==
  ASSUME NEW p \in Seq(Batch), NEW s \in Seq(Batch \cup {Hello}), NEW a \in Seq(Batch),
         NEW n \in Nat \ {0}, n + Len(s) = Len(p),
         \A i \in DOMAIN s : s[i] = p[n + i]
  PROVE  /\ n - 1 + Len(s \o a) = Len(Tail(p) \o a)
         /\ \A i \in DOMAIN (s \o a) : (s \o a)[i] = (Tail(p) \o a)[n - 1 + i]
<1> DEFINE t == Tail(p) \o a
           u == s \o a
<1>1. PICK ls \in Nat, la \in Nat, lp \in Nat : ls = Len(s) /\ la = Len(a) /\ lp = Len(p)
  OBVIOUS
<1>2. lp = n + ls /\ p # <<>> /\ a \in Seq(Batch \cup {Hello})
  BY <1>1
<1>3. /\ u \in Seq(Batch \cup {Hello}) /\ Len(u) = ls + la
      /\ \A i \in 1..ls : u[i] = s[i]
      /\ \A i \in 1..la : u[ls + i] = a[i]
  BY <1>1, <1>2, ConcatParts
<1>4. /\ Len(t) = lp - 1 + la
      /\ \A i \in 1..(lp - 1) : t[i] = p[i + 1]
      /\ \A i \in 1..la : t[lp - 1 + i] = a[i]
  <2>1. /\ Len(t) = Len(p) - 1 + Len(a)
        /\ \A i \in 1..(Len(p) - 1) : t[i] = p[i + 1]
        /\ \A i \in 1..Len(a) : t[Len(p) - 1 + i] = a[i]
    BY <1>2, TailConcat, Zenon
  <2> HIDE DEF t
  <2> QED
    BY <1>1, <2>1, Zenon
<1> HIDE DEF t, u
<1>5. \A i \in 1..ls : s[i] = p[n + i]
  <2>1. DOMAIN s = 1..ls
    BY <1>1
  <2> QED
    BY <2>1
<1>6. n - 1 + Len(u) = Len(t)
  BY <1>2, <1>3, <1>4
<1>7. ASSUME NEW i \in 1..(ls + la) PROVE u[i] = t[n - 1 + i]
  <2>1. CASE i <= ls
    <3>1. i \in 1..ls /\ n - 1 + i \in 1..(lp - 1) /\ (n - 1 + i) + 1 = n + i
      BY <1>2, <2>1
    <3> QED
      BY <1>3, <1>4, <1>5, <3>1
  <2>2. CASE i > ls
    <3>1. PICK j \in 1..la : i = ls + j
      <4>1. i - ls \in 1..la /\ i = ls + (i - ls)
        BY <2>2
      <4> QED
        BY <4>1
    <3>2. lp - 1 + j = n - 1 + i
      BY <1>2, <3>1
    <3> QED
      BY <1>3, <1>4, <3>1, <3>2
  <2> QED
    BY <2>1, <2>2
<1>8. DOMAIN u = 1..(ls + la)
  BY <1>3
<1> QED
  BY <1>6, <1>7, <1>8 DEF t, u

\* An answer has been read, and its write replaced by what follows in the queue.
LEMMA AnswerRead ==
  ASSUME IInv, handshake, replies # <<>>, Head(replies).version # Denied,
         NEW a \in Seq(Batch), pipeline' = Tail(pipeline) \o a,
         sent' = sent \o a, replies' = Tail(replies)
  PROVE  AnswersInv'
<1> USE DEF IInv
<1>1. /\ replies \in Seq(Reply) /\ sent \in Seq(Batch \cup {Hello}) /\ pipeline \in Seq(Batch)
      /\ Len(replies) <= Len(pipeline) /\ Len(replies) > 0
      /\ Head(replies) = replies[1]
  BY DEF TypeOK, AnswersInv
<1>2. /\ Len(replies') = Len(replies) - 1 /\ replies' \in Seq(Reply)
      /\ \A i \in 1..(Len(replies) - 1) : replies'[i] = replies[i + 1]
  BY <1>1
<1>3. /\ Len(pipeline') = Len(pipeline) - 1 + Len(a) /\ pipeline' \in Seq(Batch)
      /\ \A i \in 1..(Len(pipeline) - 1) : pipeline'[i] = pipeline[i + 1]
      /\ \A i \in 1..Len(a) : pipeline'[Len(pipeline) - 1 + i] = a[i]
  <2>1. pipeline # <<>>
    BY <1>1
  <2> QED
    BY <1>1, <2>1, TailConcat
<1>4. /\ sent' \in Seq(Batch \cup {Hello}) /\ Len(sent') = Len(sent) + Len(a)
      /\ \A i \in 1..Len(sent) : sent'[i] = sent[i]
      /\ \A i \in 1..Len(a) : sent'[Len(sent) + i] = a[i]
  <2>1. a \in Seq(Batch \cup {Hello})
    OBVIOUS
  <2> QED
    BY <1>1, <2>1
<1>5. \A i \in DOMAIN replies' : replies'[i].of = pipeline'[i]
  BY <1>1, <1>2, <1>3 DEF AnswersInv
<1>6. \A i \in DOMAIN replies' : i < Len(replies') => replies'[i].version # Denied
  BY <1>1, <1>2 DEF AnswersInv
<1>7. ASSUME NEW i \in DOMAIN sent' PROVE sent'[i] # Hello
  <2>1. CASE i <= Len(sent)
    BY <1>1, <1>4, <2>1 DEF AnswersInv
  <2>2. CASE i > Len(sent)
    <3>1. i - Len(sent) \in 1..Len(a) /\ Len(sent) + (i - Len(sent)) = i
      BY <1>1, <1>4, <2>2
    <3>2. sent'[i] = a[i - Len(sent)]
      BY <1>4, <3>1
    <3> QED
      BY <3>1, <3>2, BatchNotHello
  <2> QED
    BY <1>1, <1>4, <2>1, <2>2
<1>8. Refused => Refused'
  <2>1. ASSUME Refused PROVE Refused'
    <3>1. Len(replies) > 1 /\ replies[Len(replies)].version = Denied
      BY <1>1, <2>1, RefusedLast
    <3>2. Len(replies) - 1 \in DOMAIN replies' /\ replies'[Len(replies) - 1] = replies[Len(replies)]
      BY <1>1, <1>2, <3>1
    <3>3. replies'[Len(replies) - 1].of = pipeline'[Len(replies) - 1]
      BY <1>5, <3>2
    <3>4. Len(replies) - 1 \in DOMAIN pipeline'
      BY <1>1, <1>2, <1>3, <3>2
    <3>5. pipeline'[Len(replies) - 1] # Hello
      BY <1>3, <3>4, BatchNotHello
    <3> QED
      BY <3>1, <3>2, <3>3, <3>5 DEF Refused
  <2> QED
    BY <2>1
<1>9. ASSUME ~Refused'
      PROVE  /\ Len(replies') + Len(sent') = Len(pipeline')
             /\ \A i \in DOMAIN sent' : sent'[i] = pipeline'[Len(replies') + i]
  <2>1. /\ Len(replies) + Len(sent) = Len(pipeline)
        /\ \A i \in DOMAIN sent : sent[i] = pipeline[Len(replies) + i]
    BY <1>8, <1>9 DEF AnswersInv
  <2>2. Len(replies) \in Nat \ {0}
    BY <1>1
  <2>3. /\ Len(replies) - 1 + Len(sent') = Len(pipeline')
        /\ \A i \in DOMAIN sent' : sent'[i] = pipeline'[Len(replies) - 1 + i]
    BY <1>1, <2>1, <2>2, RestContinues
  <2> QED
    BY <1>2, <2>3
<1>10. Len(replies') <= Len(pipeline')
  BY <1>1, <1>2, <1>3
<1> QED
  BY <1>5, <1>6, <1>7, <1>9, <1>10 DEF AnswersInv

LEMMA MutationResultStep == IInv /\ MutationResult => IInv'
<1> SUFFICES ASSUME IInv, MutationResult PROVE IInv'
  OBVIOUS
<1> USE DEF IInv
<1> DEFINE b == Head(pipeline)
           r == Head(replies)
           a == Added(Tail(pipeline), network)
<1>1. /\ replies # <<>> /\ r.of # Hello /\ r.version # Denied /\ pipeline # <<>>
      /\ NotifyUser(b.id, "ok") /\ ApplyBatchResult(b, r.version) /\ RemoveBatch(b)
      /\ EmitNewSnapshots({b.key})
      /\ FillWritePipeline(Tail(pipeline), write, handshake, network)
      /\ sent' = sent \o a /\ replies' = Tail(replies)
      /\ UNCHANGED <<nextBatchID, lastRemote, handshake, alive, network, commits, denied, writes, troubles>>
  BY DEF MutationResult, AcknowledgeBatch, Settling, bounds
<1>2. handshake /\ IsOpen(write) /\ network /\ alive
  BY <1>1, FirstAnswer
<1>3. /\ queue' \in Seq(Batch) /\ Tail(pipeline) \in Seq(Batch)
      /\ Heads(queue', Tail(pipeline)) /\ Sorted(queue') /\ Len(Tail(pipeline)) <= MaxPending
  BY <1>1, TailsGood
<1>4. write.idle => handshake /\ Tail(pipeline) = <<>>
  BY <1>1 DEF WireInv
<1>5. /\ pipeline' \in Seq(Batch) /\ Heads(queue', pipeline') /\ Len(pipeline') <= MaxPending
      /\ write' \in StreamRecord /\ StreamInv(write') /\ IsOpen(write')
      /\ write'.idle => pipeline' = <<>>
  BY <1>1, <1>2, <1>3, <1>4, FillGood DEF TypeOK, WireInv
<1>6. a \in Seq(Batch)
  BY <1>3, AddedGood DEF TypeOK
<1>7. b \in Batch /\ r \in Reply
  BY <1>1 DEF TypeOK
<1>8. cache' \in [Keys -> Document]
  <2>1. b.key \in Keys /\ b.value \in Int /\ r.version \in Nat
    BY <1>7, WritesAssumption DEF Batch, Reply
  <2>2. [value |-> b.value, version |-> r.version, committed |-> TRUE] \in Document
    BY <2>1 DEF Document
  <2> QED
    BY <1>1, <2>1, <2>2 DEF ApplyBatchResult, TypeOK
<1>9. shown' \in [Keys -> Shown]
  BY <1>1, <1>3, <1>8, EmitType DEF TypeOK
<1>10. outcome' \in [1..MaxWrites -> {"none", "ok", "denied"}]
  BY <1>1, NotifyType
<1>11. sent' \in Seq(Batch \cup {Hello}) /\ replies' \in Seq(Reply)
  <2>1. a \in Seq(Batch \cup {Hello})
    BY <1>6
  <2> HIDE DEF a
  <2> QED
    BY <1>1, <2>1 DEF TypeOK
<1> HIDE DEF a, b, r
<1>12. TypeOK'
  BY <1>1, <1>3, <1>5, <1>8, <1>9, <1>10, <1>11 DEF TypeOK
<1>13. QueueInv'
  BY <1>1, <1>5, SettledQueue DEF b
<1>14. WireInv'
  BY <1>1, <1>2, <1>5 DEF WireInv
<1>15. AnswersInv'
  BY <1>1, <1>2, <1>6, AnswerRead DEF r, a, FillWritePipeline
<1> QED
  BY <1>12, <1>13, <1>14, <1>15

LEMMA WriteDeniedStep == IInv /\ WriteDenied => IInv'
<1> SUFFICES ASSUME IInv, WriteDenied PROVE IInv'
  OBVIOUS
<1> USE DEF IInv
<1> DEFINE b == Head(pipeline)
           s == InhibitBackoff(Close(write, FALSE))
<1>1. /\ replies # <<>> /\ pipeline # <<>>
      /\ NotifyUser(b.id, "denied") /\ RemoveBatch(b) /\ EmitNewSnapshots({b.key})
      /\ FillWritePipeline(Tail(pipeline), s, FALSE, network)
      /\ handshake' = FALSE /\ sent' = <<>> /\ replies' = <<>>
      /\ UNCHANGED <<nextBatchID, cache, lastRemote, alive, network, commits, denied, writes, troubles>>
  BY DEF WriteDenied, RejectBatch, Settling, bounds
<1>2. IsOpen(write) /\ IsStarted(write) /\ network /\ alive
  BY <1>1, FirstAnswer DEF IsOpen, IsStarted
<1>3. /\ queue' \in Seq(Batch) /\ Tail(pipeline) \in Seq(Batch)
      /\ Heads(queue', Tail(pipeline)) /\ Sorted(queue') /\ Len(Tail(pipeline)) <= MaxPending
  BY <1>1, TailsGood
<1>4. s \in StreamRecord /\ StreamInv(s) /\ ~IsOpen(s) /\ ~s.idle
  BY <1>2, CloseGood, InhibitGood, DownGood DEF TypeOK, WireInv
<1> HIDE DEF b, s
<1>5. /\ pipeline' \in Seq(Batch) /\ Heads(queue', pipeline') /\ Len(pipeline') <= MaxPending
      /\ write' \in StreamRecord /\ StreamInv(write') /\ ~IsOpen(write')
  BY <1>1, <1>3, <1>4, FillGood DEF TypeOK
<1>6. shown' \in [Keys -> Shown]
  BY <1>1, <1>3, EmitType DEF TypeOK
<1>7. outcome' \in [1..MaxWrites -> {"none", "ok", "denied"}]
  BY <1>1, NotifyType
<1>8. handshake' \in BOOLEAN /\ sent' \in Seq(Batch \cup {Hello}) /\ replies' \in Seq(Reply)
  <2>1. handshake' \in BOOLEAN
    BY <1>1, Zenon
  <2> QED
    BY <1>1, <2>1
<1>9. TypeOK'
  BY <1>1, <1>3, <1>5, <1>6, <1>7, <1>8 DEF TypeOK
<1>10. QueueInv'
  BY <1>1, <1>5, SettledQueue DEF b
<1>11. WireInv' /\ AnswersInv'
  BY <1>1, <1>2, <1>5, Down
<1> QED
  BY <1>9, <1>10, <1>11

-----------------------------------------------------------------------------
(* A write of the app.                                                     *)

\* The fresh batch goes to the end of the queue.
LEMMA AppendedQueue ==
  ASSUME IInv, alive, writes < MaxWrites, NEW k \in Keys, NEW x \in 0..MaxWrites,
         WriteLocally(writes + 1, k, x)
  PROVE  /\ queue' \in Seq(Batch) /\ Len(queue') = Len(queue) + 1
         /\ nextBatchID' = nextBatchID + 1 /\ nextBatchID \in Nat \ {0}
         /\ Heads(queue', pipeline) /\ Sorted(queue')
         /\ \A i \in DOMAIN queue' : queue'[i].id < nextBatchID'
         /\ \A i \in DOMAIN queue' : queue'[i].write = writes - Len(queue) + i
<1> USE DEF IInv
<1> DEFINE b == [id |-> nextBatchID, write |-> writes + 1, key |-> k, value |-> x]
<1>1. /\ queue \in Seq(Batch) /\ pipeline \in Seq(Batch) /\ nextBatchID \in Nat \ {0}
      /\ writes \in Nat /\ writes + 1 \in 1..MaxWrites
  BY WritesAssumption DEF TypeOK
<1>2. b \in Batch /\ b.id = nextBatchID /\ b.write = writes + 1
  BY <1>1 DEF Batch
<1>3. queue' = Append(queue, b) /\ nextBatchID' = nextBatchID + 1
  BY DEF WriteLocally
<1> HIDE DEF b
<1>4. /\ queue' \in Seq(Batch) /\ Len(queue') = Len(queue) + 1
      /\ \A i \in 1..Len(queue) : queue'[i] = queue[i]
      /\ queue'[Len(queue) + 1] = b
  BY <1>1, <1>2, <1>3
<1>5. PICK n \in Nat : n = Len(queue)
  BY <1>1
<1>6. DOMAIN queue = 1..n /\ DOMAIN queue' = 1..(n + 1)
  BY <1>1, <1>4, <1>5
<1>7. \A i \in 1..n : queue[i].id \in Nat /\ queue[i].id < nextBatchID
  BY <1>1, <1>6, BatchFields DEF QueueInv
<1>8. \A i \in 1..n : queue'[i] = queue[i] /\ queue[i].write = writes - n + i
  BY <1>4, <1>5, <1>6 DEF QueueInv
<1>9. queue'[n + 1] = b
  BY <1>4, <1>5
<1>10. \A i \in 1..(n + 1) : i \in 1..n \/ i = n + 1
  OBVIOUS
<1>11. Sorted(queue')
  <2>1. \A i, j \in 1..n : i < j => queue[i].id < queue[j].id
    BY <1>6 DEF QueueInv, Sorted
  <2> QED
    BY <1>2, <1>6, <1>7, <1>8, <1>9, <2>1 DEF Sorted
<1>12. Heads(queue', pipeline)
  <2>1. Len(pipeline) \in Nat /\ Len(pipeline) <= n /\ DOMAIN pipeline = 1..Len(pipeline)
    BY <1>1, <1>5 DEF QueueInv, Heads
  <2>2. \A i \in DOMAIN pipeline : i \in 1..n
    BY <2>1
  <2>3. \A i \in DOMAIN pipeline : pipeline[i] = queue[i]
    BY DEF QueueInv, Heads
  <2> QED
    BY <1>4, <1>5, <1>8, <2>1, <2>2, <2>3 DEF Heads
<1>13. \A i \in DOMAIN queue' : queue'[i].id < nextBatchID'
  BY <1>1, <1>2, <1>3, <1>6, <1>7, <1>8, <1>9, <1>10
<1>14. \A i \in DOMAIN queue' : queue'[i].write = writes - n + i
  BY <1>1, <1>2, <1>6, <1>8, <1>9, <1>10
<1> QED
  BY <1>1, <1>3, <1>4, <1>5, <1>11, <1>12, <1>13, <1>14

\* What continues a line from its n-th member on, still does when more is added
\* to both.
LEMMA BothContinue ==
  ASSUME NEW p \in Seq(Batch), NEW s \in Seq(Batch \cup {Hello}), NEW a \in Seq(Batch),
         NEW n \in Nat, n + Len(s) = Len(p),
         \A i \in DOMAIN s : s[i] = p[n + i]
  PROVE  /\ n + Len(s \o a) = Len(p \o a)
         /\ \A i \in DOMAIN (s \o a) : (s \o a)[i] = (p \o a)[n + i]
<1> DEFINE t == p \o a
           u == s \o a
<1>1. PICK ls \in Nat, la \in Nat, lp \in Nat : ls = Len(s) /\ la = Len(a) /\ lp = Len(p)
  OBVIOUS
<1>2. lp = n + ls /\ a \in Seq(Batch \cup {Hello})
  BY <1>1
<1>3. /\ u \in Seq(Batch \cup {Hello}) /\ Len(u) = ls + la
      /\ \A i \in 1..ls : u[i] = s[i]
      /\ \A i \in 1..la : u[ls + i] = a[i]
  BY <1>1, <1>2, ConcatParts
<1>4. /\ Len(t) = lp + la
      /\ \A i \in 1..lp : t[i] = p[i]
      /\ \A i \in 1..la : t[lp + i] = a[i]
  BY <1>1, ConcatParts
<1> HIDE DEF t, u
<1>5. \A i \in 1..ls : s[i] = p[n + i]
  <2>1. DOMAIN s = 1..ls
    BY <1>1
  <2> QED
    BY <2>1
<1>6. n + Len(u) = Len(t)
  BY <1>2, <1>3, <1>4
<1>7. ASSUME NEW i \in 1..(ls + la) PROVE u[i] = t[n + i]
  <2>1. CASE i <= ls
    <3>1. i \in 1..ls /\ n + i \in 1..lp
      BY <1>2, <2>1
    <3> QED
      BY <1>3, <1>4, <1>5, <3>1
  <2>2. CASE i > ls
    <3>1. PICK j \in 1..la : i = ls + j
      <4>1. i - ls \in 1..la /\ i = ls + (i - ls)
        BY <2>2
      <4> QED
        BY <4>1
    <3>2. lp + j = n + i
      BY <1>2, <3>1
    <3> QED
      BY <1>3, <1>4, <3>1, <3>2
  <2> QED
    BY <2>1, <2>2
<1>8. DOMAIN u = 1..(ls + la)
  BY <1>3
<1> QED
  BY <1>6, <1>7, <1>8 DEF t, u

\* More is sent behind what is on its way.
LEMMA MoreSent ==
  ASSUME IInv, handshake, NEW a \in Seq(Batch),
         pipeline' = pipeline \o a, sent' = sent \o a, replies' = replies
  PROVE  AnswersInv'
<1> USE DEF IInv
<1>1. /\ replies \in Seq(Reply) /\ sent \in Seq(Batch \cup {Hello}) /\ pipeline \in Seq(Batch)
      /\ Len(replies) \in Nat /\ Len(replies) <= Len(pipeline)
  BY DEF TypeOK, AnswersInv
<1>2. /\ pipeline' \in Seq(Batch) /\ Len(pipeline') = Len(pipeline) + Len(a)
      /\ \A i \in 1..Len(pipeline) : pipeline'[i] = pipeline[i]
  BY <1>1, ConcatParts
<1>3. /\ sent' \in Seq(Batch \cup {Hello}) /\ Len(sent') = Len(sent) + Len(a)
      /\ \A i \in 1..Len(sent) : sent'[i] = sent[i]
      /\ \A i \in 1..Len(a) : sent'[Len(sent) + i] = a[i]
  <2>1. a \in Seq(Batch \cup {Hello})
    OBVIOUS
  <2> QED
    BY <1>1, <2>1, ConcatParts
<1>4. \A i \in DOMAIN replies' : replies'[i].of = pipeline'[i]
  BY <1>1, <1>2 DEF AnswersInv
<1>5. \A i \in DOMAIN replies' : i < Len(replies') => replies'[i].version # Denied
  BY DEF AnswersInv
<1>6. ASSUME NEW i \in DOMAIN sent' PROVE sent'[i] # Hello
  <2>1. CASE i <= Len(sent)
    BY <1>1, <1>3, <2>1 DEF AnswersInv
  <2>2. CASE i > Len(sent)
    <3>1. i - Len(sent) \in 1..Len(a) /\ Len(sent) + (i - Len(sent)) = i
      BY <1>1, <1>3, <2>2
    <3>2. sent'[i] = a[i - Len(sent)]
      BY <1>3, <3>1
    <3> QED
      BY <3>1, <3>2, BatchNotHello
  <2> QED
    BY <1>1, <1>3, <2>1, <2>2
<1>7. ASSUME ~Refused'
      PROVE  /\ Len(replies') + Len(sent') = Len(pipeline')
             /\ \A i \in DOMAIN sent' : sent'[i] = pipeline'[Len(replies') + i]
  <2>1. /\ Len(replies) + Len(sent) = Len(pipeline)
        /\ \A i \in DOMAIN sent : sent[i] = pipeline[Len(replies) + i]
    BY <1>7 DEF AnswersInv, Refused
  <2> QED
    BY <1>1, <2>1, BothContinue
<1>8. Len(replies') <= Len(pipeline')
  BY <1>1, <1>2
<1> QED
  BY <1>4, <1>5, <1>6, <1>7, <1>8 DEF AnswersInv

LEMMA WriteMutationsStep ==
  ASSUME IInv, NEW k \in Keys, NEW x \in 0..MaxWrites, WriteMutations(k, x)
  PROVE  IInv'
<1> USE DEF IInv
<1> DEFINE a == Added(pipeline, network)
<1>1. /\ alive /\ writes < MaxWrites /\ writes' = writes + 1
      /\ WriteLocally(writes + 1, k, x)
      /\ EmitNewSnapshots({k})
      /\ FillWritePipeline(pipeline, write, handshake, network)
      /\ sent' = IF CanSend(write, handshake) THEN sent \o a ELSE sent
      /\ UNCHANGED <<cache, lastRemote, alive, network, handshake, replies, commits, outcome,
                     denied, troubles>>
  BY DEF WriteMutations, WriteLocally
<1>2. /\ queue' \in Seq(Batch) /\ Len(queue') = Len(queue) + 1
      /\ nextBatchID' = nextBatchID + 1 /\ nextBatchID \in Nat \ {0}
      /\ Heads(queue', pipeline) /\ Sorted(queue')
      /\ \A i \in DOMAIN queue' : queue'[i].id < nextBatchID'
      /\ \A i \in DOMAIN queue' : queue'[i].write = writes - Len(queue) + i
  BY <1>1, AppendedQueue
<1>3. write.idle => handshake /\ pipeline = <<>>
  BY DEF WireInv
<1>4. Len(queue) \in Nat /\ queue' # <<>>
  BY <1>2 DEF TypeOK
<1>5. /\ pipeline' \in Seq(Batch) /\ Heads(queue', pipeline') /\ Len(pipeline') <= MaxPending
      /\ write' \in StreamRecord /\ StreamInv(write') /\ (IsOpen(write') <=> IsOpen(write))
      /\ ~network => pipeline' = pipeline /\ (IsStarted(write') <=> IsStarted(write))
      /\ write'.idle => IsOpen(write) /\ pipeline' = <<>>
      /\ network => pipeline' # <<>>
  BY <1>1, <1>2, <1>3, <1>4, FillGood DEF TypeOK, QueueInv, WireInv
<1>6. ~write'.idle
  BY <1>5 DEF WireInv, IsOpen, IsStarted
<1>7. a \in Seq(Batch)
  BY <1>2, AddedGood DEF TypeOK, QueueInv
<1>8. sent' \in Seq(Batch \cup {Hello})
  <2>1. a \in Seq(Batch \cup {Hello})
    BY <1>7
  <2> HIDE DEF a
  <2> QED
    BY <1>1, <2>1 DEF TypeOK
<1>9. shown' \in [Keys -> Shown]
  BY <1>1, <1>2, EmitType DEF TypeOK
<1> HIDE DEF a
<1>10. writes' \in 0..MaxWrites /\ denied \subseteq 1..writes'
  BY <1>1, WritesAssumption DEF TypeOK
<1>11. TypeOK'
  BY <1>1, <1>2, <1>5, <1>8, <1>9, <1>10 DEF TypeOK
<1>12. QueueInv'
  <2>1. writes \in Nat /\ writes' - Len(queue') = writes - Len(queue) /\ Len(queue') <= writes'
    BY <1>1, <1>2, <1>4, WritesAssumption DEF TypeOK, QueueInv
  <2> QED
    BY <1>1, <1>2, <1>5, <2>1 DEF QueueInv
<1>13. CanSend(write, handshake) <=> handshake
  BY DEF CanSend, WireInv
<1>14. WireInv'
  BY <1>1, <1>5, <1>6, <1>13 DEF WireInv
<1>15. AnswersInv'
  <2>1. CASE handshake
    BY <1>1, <1>7, <1>13, <2>1, MoreSent DEF a, FillWritePipeline
  <2>2. CASE ~handshake
    BY <1>1, <2>2 DEF AnswersInv
  <2> QED
    BY <2>1, <2>2
<1> QED
  BY <1>11, <1>12, <1>14, <1>15

LEMMA SetOrDeleteStep == IInv /\ SetOrDelete => IInv'
<1> SUFFICES ASSUME IInv, SetOrDelete PROVE IInv'
  OBVIOUS
<1>1. PICK k \in Keys : WriteMutations(k, IF writes + 1 \in Deletes THEN Absent ELSE writes + 1)
  BY DEF SetOrDelete
<1>2. (IF writes + 1 \in Deletes THEN Absent ELSE writes + 1) \in 0..MaxWrites
  BY <1>1, WritesAssumption DEF WriteMutations, IInv, TypeOK, Absent
<1> QED
  BY <1>1, <1>2, WriteMutationsStep

-----------------------------------------------------------------------------
(* The server and the other devices.                                       *)

\* A write is answered: the answer is the one after those to come, and the
\* write it answers the one after theirs.
LEMMA AnsweringGood ==
  ASSUME IInv, NEW v \in Nat, Answering(v), Head(sent) # Hello, pipeline' = pipeline
  PROVE  /\ handshake /\ AnswersInv'
         /\ sent' \in Seq(Batch \cup {Hello}) /\ replies' \in Seq(Reply)
         /\ Len(replies) + 1 \in DOMAIN pipeline /\ Head(sent) = pipeline[Len(replies) + 1]
<1> USE DEF IInv
<1>1. /\ sent # <<>> /\ ~Refused
      /\ replies' = Append(replies, [of |-> Head(sent), version |-> v])
      /\ sent' = Tail(sent)
      /\ replies \in Seq(Reply) /\ sent \in Seq(Batch \cup {Hello}) /\ pipeline \in Seq(Batch)
  BY DEF Answering, TypeOK
<1>2. handshake
  <2>1. ~handshake => sent = <<Hello>>
    BY <1>1 DEF WireInv
  <2> QED
    BY <1>1, <2>1
<1>3. PICK n \in Nat, m \in Nat, l \in Nat : n = Len(replies) /\ m = Len(sent) /\ l = Len(pipeline)
  BY <1>1
<1>4. /\ n + m = l /\ m > 0
      /\ DOMAIN replies = 1..n /\ DOMAIN sent = 1..m /\ DOMAIN pipeline = 1..l
  BY <1>1, <1>2, <1>3 DEF AnswersInv
<1>5. /\ \A i \in 1..m : sent[i] = pipeline[n + i] /\ sent[i] # Hello
      /\ \A i \in 1..n : replies[i].of = pipeline[i]
  BY <1>1, <1>2, <1>3, <1>4 DEF AnswersInv
<1>6. \A i \in 1..n : replies[i].version # Denied
  <2>1. ASSUME NEW i \in 1..n PROVE replies[i].of # Hello
    <3>1. i \in DOMAIN pipeline
      BY <1>4
    <3>2. pipeline[i] # Hello
      BY <1>1, <3>1, BatchNotHello
    <3> QED
      BY <1>5, <3>2
  <2> QED
    BY <1>1, <1>4, <2>1 DEF Refused
<1>7. /\ n + 1 \in 1..l /\ 1 \in 1..m
      /\ Head(sent) = sent[1] /\ Head(sent) = pipeline[n + 1] /\ Head(sent) \in Batch
  <2>1. n + 1 \in 1..l /\ 1 \in 1..m
    BY <1>4
  <2>2. Head(sent) = sent[1] /\ sent[1] = pipeline[n + 1]
    BY <1>1, <1>5, <2>1
  <2>3. pipeline[n + 1] \in Batch
    BY <1>1, <1>4, <2>1
  <2> QED
    BY <2>1, <2>2, <2>3
<1> DEFINE r == [of |-> Head(sent), version |-> v]
<1>8. r \in Reply /\ r.of = pipeline[n + 1]
  BY <1>7 DEF Reply
<1>9. replies' = Append(replies, r)
  BY <1>1
<1> HIDE DEF r
<1>10. /\ replies' \in Seq(Reply) /\ Len(replies') = n + 1 /\ DOMAIN replies' = 1..(n + 1)
       /\ \A i \in 1..n : replies'[i] = replies[i]
       /\ replies'[n + 1] = r
  BY <1>1, <1>3, <1>8, <1>9
<1>11. /\ sent' \in Seq(Batch \cup {Hello}) /\ Len(sent') = m - 1 /\ DOMAIN sent' = 1..(m - 1)
       /\ \A i \in 1..(m - 1) : sent'[i] = sent[i + 1]
  <2>1. /\ Tail(sent) \in Seq(Batch \cup {Hello}) /\ Len(Tail(sent)) = Len(sent) - 1
        /\ \A i \in 1..(Len(sent) - 1) : Tail(sent)[i] = sent[i + 1]
    BY <1>1, TailParts
  <2> QED
    BY <1>1, <1>3, <2>1
<1>12. \A i \in DOMAIN replies' : replies'[i].of = pipeline'[i]
  <2>1. \A i \in 1..(n + 1) : i \in 1..n \/ i = n + 1
    OBVIOUS
  <2> QED
    BY <1>5, <1>8, <1>10, <2>1
<1>13. \A i \in DOMAIN replies' : i < Len(replies') => replies'[i].version # Denied
  <2>1. \A i \in 1..(n + 1) : i < n + 1 => i \in 1..n
    OBVIOUS
  <2> QED
    BY <1>6, <1>10, <2>1
<1>14. \A i \in DOMAIN sent' : sent'[i] # Hello /\ sent'[i] = pipeline'[Len(replies') + i]
  <2>1. ASSUME NEW i \in 1..(m - 1) PROVE sent'[i] # Hello /\ sent'[i] = pipeline[n + 1 + i]
    <3>1. i + 1 \in 1..m /\ n + (i + 1) = n + 1 + i
      BY <1>4
    <3> QED
      BY <1>5, <1>11, <3>1
  <2> QED
    BY <1>10, <1>11, <2>1
<1>15. Len(replies') <= Len(pipeline') /\ Len(replies') + Len(sent') = Len(pipeline')
  <2>1. Len(pipeline') = l /\ Len(replies') = n + 1 /\ Len(sent') = m - 1
    BY <1>3, <1>10, <1>11
  <2> QED
    BY <1>4, <2>1
<1> QED
  BY <1>2, <1>3, <1>4, <1>7, <1>10, <1>11, <1>12, <1>13, <1>14, <1>15 DEF AnswersInv

\* What an answer leaves alone.
LEMMA ServedGood ==
  ASSUME IInv, NEW v, Answering(v),
         sent' \in Seq(Batch \cup {Hello}), replies' \in Seq(Reply), commits' \in Seq(Commit),
         denied' \subseteq 1..writes, troubles' \in 0..MaxTroubles
  PROVE  /\ TypeOK' /\ QueueInv' /\ IsOpen(write)
         /\ UNCHANGED <<queue, nextBatchID, cache, lastRemote, alive, network, pipeline, write,
                        handshake, callbacks, shown, outcome, writes>>
<1> USE DEF IInv
<1>1. UNCHANGED <<queue, nextBatchID, cache, lastRemote, alive, network, pipeline, write,
                  handshake, callbacks, shown, outcome, writes>>
  BY DEF Answering, storeVars, clientVars
<1>2. IsOpen(write)
  BY DEF Answering, WireInv
<1>3. TypeOK'
  BY <1>1 DEF TypeOK
<1>4. QueueInv'
  BY <1>1 DEF QueueInv
<1> QED
  BY <1>1, <1>2, <1>3, <1>4

LEMMA ServeHandshakeStep == IInv /\ ServeHandshake => IInv'
<1> SUFFICES ASSUME IInv, ServeHandshake PROVE IInv'
  OBVIOUS
<1> USE DEF IInv
<1>1. /\ Answering(Denied) /\ Head(sent) = Hello /\ sent # <<>>
      /\ replies' = Append(replies, [of |-> Hello, version |-> Denied]) /\ sent' = Tail(sent)
      /\ UNCHANGED <<commits, denied, troubles>>
  BY DEF ServeHandshake, Answering
<1>2. ~handshake
  <2>1. sent \in Seq(Batch \cup {Hello}) /\ 1 \in DOMAIN sent /\ sent[1] = Hello
    BY <1>1 DEF TypeOK
  <2> QED
    BY <2>1 DEF AnswersInv
<1>3. sent = <<Hello>> /\ replies = <<>>
  BY <1>1, <1>2 DEF WireInv
<1>4. sent' = <<>> /\ replies' = <<[of |-> Hello, version |-> Denied]>>
  BY <1>1, <1>3
<1>5. sent' \in Seq(Batch \cup {Hello}) /\ replies' \in Seq(Reply)
  BY <1>4 DEF Reply, Denied
<1>6. commits' \in Seq(Commit) /\ denied' \subseteq 1..writes /\ troubles' \in 0..MaxTroubles
  BY <1>1 DEF TypeOK
<1>7. /\ TypeOK' /\ QueueInv' /\ IsOpen(write)
      /\ UNCHANGED <<alive, network, pipeline, write, handshake>>
  BY <1>1, <1>5, <1>6, ServedGood
<1>8. WireInv'
  BY <1>2, <1>4, <1>7 DEF WireInv
<1>9. AnswersInv'
  BY <1>2, <1>7 DEF AnswersInv
<1> QED
  BY <1>7, <1>8, <1>9

\* A write is served, the server committing or refusing it.
LEMMA ServedWriteGood ==
  ASSUME IInv, NEW v \in Nat, Answering(v), Head(sent) # Hello, commits' \in Seq(Commit),
         denied' \subseteq 1..writes, troubles' \in 0..MaxTroubles
  PROVE  IInv'
<1> USE DEF IInv
<1>1. pipeline' = pipeline
  BY DEF Answering, clientVars
<1>2. /\ handshake /\ AnswersInv'
      /\ sent' \in Seq(Batch \cup {Hello}) /\ replies' \in Seq(Reply)
  BY <1>1, AnsweringGood
<1>3. /\ TypeOK' /\ QueueInv' /\ IsOpen(write)
      /\ UNCHANGED <<alive, network, pipeline, write, handshake>>
  BY <1>2, ServedGood
<1>4. WireInv'
  BY <1>2, <1>3 DEF WireInv
<1> QED
  BY <1>2, <1>3, <1>4

\* What is served is the write of a batch still in the queue.
LEMMA ServedBatch ==
  ASSUME IInv, NEW v \in Nat, Answering(v), Head(sent) # Hello
  PROVE  /\ Head(sent) \in Batch /\ Head(sent).write \in 1..writes
         /\ \E i \in DOMAIN queue : queue[i] = Head(sent)
<1> USE DEF IInv
<1>1. pipeline' = pipeline
  BY DEF Answering, clientVars
<1>2. Len(replies) + 1 \in DOMAIN pipeline /\ Head(sent) = pipeline[Len(replies) + 1]
  BY <1>1, AnsweringGood
<1>3. PICK i \in DOMAIN pipeline : Head(sent) = pipeline[i]
  BY <1>2
<1>4. i \in DOMAIN queue /\ queue[i] = Head(sent) /\ Len(queue) \in Nat
  BY <1>3 DEF QueueInv, Heads, TypeOK
<1>5. queue[i] \in Batch
  BY <1>4 DEF TypeOK
<1>6. queue[i].write = writes - Len(queue) + i /\ i <= Len(queue) /\ writes \in Nat /\ i > 0
  BY <1>4, WritesAssumption DEF QueueInv, TypeOK
<1>7. Len(queue) <= writes /\ i \in Nat
  BY <1>4 DEF QueueInv, TypeOK
<1>8. writes - Len(queue) + i \in 1..writes
  BY <1>4, <1>6, <1>7
<1> QED
  BY <1>4, <1>5, <1>6, <1>8

LEMMA ServeWriteStep == IInv /\ ServeWrite => IInv'
<1> SUFFICES ASSUME IInv, ServeWrite PROVE IInv'
  OBVIOUS
<1>1. /\ Answering(Len(commits) + 1) /\ Head(sent) # Hello
      /\ commits' = Append(commits, Written(Head(sent)))
      /\ UNCHANGED <<denied, troubles>>
  BY DEF ServeWrite
<1>2. Len(commits) + 1 \in Nat /\ commits \in Seq(Commit)
  BY DEF IInv, TypeOK
<1>3. Head(sent) \in Batch
  BY <1>1, <1>2, ServedBatch
<1>4. Written(Head(sent)) \in Commit
  BY <1>3, WritesAssumption DEF Written, Batch, Commit
<1>5. commits' \in Seq(Commit)
  BY <1>1, <1>2, <1>4
<1> QED
  BY <1>1, <1>2, <1>5, ServedWriteGood DEF IInv, TypeOK

LEMMA RefuseStep == IInv /\ Refuse => IInv'
<1> SUFFICES ASSUME IInv, Refuse PROVE IInv'
  OBVIOUS
<1>1. /\ Answering(Denied) /\ Head(sent) # Hello /\ commits' = commits
      /\ denied' = denied \cup {Head(sent).write} /\ Trouble
  BY DEF Refuse
<1>2. Denied \in Nat
  BY DEF Denied
<1>3. Head(sent).write \in 1..writes
  BY <1>1, <1>2, ServedBatch
<1>4. denied' \subseteq 1..writes /\ commits' \in Seq(Commit) /\ troubles' \in 0..MaxTroubles
  BY <1>1, <1>3, TroubleType DEF IInv, TypeOK
<1> QED
  BY <1>1, <1>2, <1>4, ServedWriteGood

LEMMA OtherWritesStep == IInv /\ OtherWrites => IInv'
<1> SUFFICES ASSUME IInv, OtherWrites PROVE IInv'
  OBVIOUS
<1> USE DEF IInv
<1>1. /\ UNCHANGED <<queue, nextBatchID, cache, lastRemote, alive, network, pipeline, write,
                     handshake, callbacks, shown, sent, replies, outcome, denied, writes>>
      /\ troubles' \in 0..MaxTroubles
  BY TroubleType DEF OtherWrites, storeVars, clientVars, wireVars
<1>2. PICK k \in Keys, x \in {-troubles', Absent} :
        commits' = Append(commits, [write |-> 0, key |-> k, value |-> x])
  BY DEF OtherWrites
<1>3. [write |-> 0, key |-> k, value |-> x] \in Commit
  <2>1. x \in Int /\ 0 \in 0..MaxWrites
    BY <1>1, ClientAssumption, WritesAssumption DEF Absent
  <2> QED
    BY <2>1 DEF Commit
<1>4. commits' \in Seq(Commit)
  BY <1>2, <1>3 DEF TypeOK
<1>5. TypeOK'
  BY <1>1, <1>4 DEF TypeOK
<1>6. QueueInv' /\ WireInv'
  BY <1>1 DEF QueueInv, WireInv
<1>7. AnswersInv'
  BY <1>1 DEF AnswersInv, Refused
<1> QED
  BY <1>5, <1>6, <1>7

LEMMA WatchSnapshotStep == IInv /\ WatchSnapshot => IInv'
<1> SUFFICES ASSUME IInv, WatchSnapshot PROVE IInv'
  OBVIOUS
<1> USE DEF IInv
<1>1. UNCHANGED <<alive, network, pipeline, write, handshake, callbacks, sent, replies,
                  commits, outcome, denied, writes, troubles>>
  BY DEF WatchSnapshot, wireVars, bounds
<1>2. PICK version \in lastRemote..Len(commits) :
        \E again \in SUBSET (Changed(0, lastRemote) \ Changed(lastRemote, version)) :
          LET docs == [k \in Changed(lastRemote, version) \cup again
                         |-> ServerDocument(commits, k, version)]
          IN ApplyRemoteEvent(docs, version) /\ EmitNewSnapshots(News(docs))
  BY DEF WatchSnapshot
<1>3. PICK again \in SUBSET (Changed(0, lastRemote) \ Changed(lastRemote, version)) :
         LET docs == [k \in Changed(lastRemote, version) \cup again
                        |-> ServerDocument(commits, k, version)]
         IN ApplyRemoteEvent(docs, version) /\ EmitNewSnapshots(News(docs))
  BY <1>2
<1> DEFINE docs == [k \in Changed(lastRemote, version) \cup again
                      |-> ServerDocument(commits, k, version)]
<1>4. version \in 0..Len(commits) /\ version \in Nat /\ commits \in Seq(Commit)
  BY <1>2 DEF TypeOK
<1>5. \A k \in DOMAIN docs : docs[k] \in Document
  BY <1>4, ServerDocumentType
<1>6. ApplyRemoteEvent(docs, version) /\ EmitNewSnapshots(News(docs))
  BY <1>3
<1> HIDE DEF docs
<1>7. /\ queue' = queue /\ nextBatchID' = nextBatchID
      /\ lastRemote' \in Nat /\ cache' \in [Keys -> Document]
  <2>1. cache' = [k \in Keys |-> IF k \in News(docs) THEN docs[k] ELSE cache[k]]
    BY <1>6 DEF ApplyRemoteEvent
  <2>2. News(docs) \subseteq DOMAIN docs
    BY DEF News
  <2>3. cache' \in [Keys -> Document]
    BY <1>5, <2>1, <2>2 DEF TypeOK
  <2> QED
    BY <1>4, <1>6, <2>3 DEF ApplyRemoteEvent
<1>8. shown' \in [Keys -> Shown]
  BY <1>6, <1>7, EmitType DEF TypeOK
<1>9. TypeOK'
  BY <1>1, <1>7, <1>8 DEF TypeOK
<1>10. QueueInv' /\ WireInv'
  BY <1>1, <1>7 DEF QueueInv, WireInv
<1>11. AnswersInv'
  BY <1>1 DEF AnswersInv, Refused
<1> QED
  BY <1>9, <1>10, <1>11

LEMMA StutterStep == IInv /\ UNCHANGED vars => IInv'
<1> SUFFICES ASSUME IInv, UNCHANGED vars PROVE IInv'
  OBVIOUS
<1>1. UNCHANGED <<queue, nextBatchID, cache, lastRemote, alive, network, pipeline, write,
                  handshake, callbacks, shown, sent, replies, commits, outcome, denied,
                  writes, troubles>>
  BY DEF vars, storeVars, clientVars, wireVars, bounds
<1>2. TypeOK'
  BY <1>1 DEF IInv, TypeOK
<1>3. QueueInv' /\ WireInv'
  BY <1>1 DEF IInv, QueueInv, WireInv
<1>4. AnswersInv'
  BY <1>1 DEF IInv, AnswersInv, Refused
<1> QED
  BY <1>2, <1>3, <1>4 DEF IInv

LEMMA NextInv == IInv /\ [Next]_vars => IInv'
<1> SUFFICES ASSUME IInv, [Next]_vars PROVE IInv'
  OBVIOUS
<1>1. CASE App
  BY <1>1, LaunchStep, SetOrDeleteStep, DisableNetworkStep, EnableNetworkStep,
     HandleCredentialChangeStep DEF App
<1>2. CASE Client
  BY <1>2, TokenArrivesStep, StreamOpensStep, BackoffEndsStep, HandshakeCompletesStep,
     MutationResultStep, WriteDeniedStep DEF Client
<1>3. CASE Server
  BY <1>3, ServeHandshakeStep, ServeWriteStep, RefuseStep DEF Server
<1>4. CASE Faults
  BY <1>4, TokenFailsStep, StreamFailsStep, IdleTimeoutStep, DieStep DEF Faults
<1>5. CASE OtherWrites
  BY <1>5, OtherWritesStep
<1>6. CASE WatchSnapshot
  BY <1>6, WatchSnapshotStep
<1>7. CASE UNCHANGED vars
  BY <1>7, StutterStep
<1> QED
  BY <1>1, <1>2, <1>3, <1>4, <1>5, <1>6, <1>7 DEF Next

LEMMA Invariance == Spec => []IInv
<1>1. Init => IInv
  BY InitInv
<1>2. IInv /\ [Next]_vars => IInv'
  BY NextInv
<1> QED
  BY <1>1, <1>2, PTL DEF Spec

-----------------------------------------------------------------------------
(* What follows from it.                                                   *)

\* Every variable keeps its type.
THEOREM TypeCorrect == Spec => []TypeOK
<1>1. IInv => TypeOK
  BY DEF IInv
<1> QED
  BY <1>1, Invariance, PTL

\* What is in flight is the head of the queue, whatever refills, failures,
\* refusals, deaths and reused batch IDs have gone before.
THEOREM PipelineCorrect == Spec => []PipelineHeadsQueue
<1>1. IInv => PipelineHeadsQueue
  <2> SUFFICES ASSUME IInv PROVE PipelineHeadsQueue
    OBVIOUS
  <2>1. /\ queue \in Seq(Batch) /\ pipeline \in Seq(Batch)
        /\ Len(pipeline) <= Len(queue) /\ \A i \in DOMAIN pipeline : pipeline[i] = queue[i]
        /\ Len(pipeline) <= MaxPending
    BY DEF IInv, TypeOK, QueueInv, Heads
  <2>2. Len(pipeline) <= Upto(0, MaxPending, Len(queue))
    BY <2>1 DEF Upto
  <2>3. pipeline = SubSeq(queue, 1, Len(pipeline))
    BY <2>1
  <2>4. Sorted(queue) /\ (alive => \A i \in DOMAIN queue : queue[i].id < nextBatchID)
    BY DEF IInv, QueueInv
  <2> QED
    BY <2>2, <2>3, <2>4 DEF PipelineHeadsQueue, Sorted
<1> QED
  BY <1>1, Invariance, PTL

\* The HARD_ASSERTs of the write stream hold, and it waits to be idle only
\* while there is nothing to write.
THEOREM StreamAssertionsCorrect == Spec => []StreamAssertionsHold
<1>1. IInv => StreamAssertionsHold
  BY DEF IInv, WireInv, StreamInv, StreamAssertionsHold
<1> QED
  BY <1>1, Invariance, PTL

\* Read and unread, the answers on a stream are those to the pipeline from its
\* head on: no answer is taken for another write's.
THEOREM AnswersCorrect == Spec => []AnswersMatchPipeline
<1>1. IInv => AnswersMatchPipeline
  <2> SUFFICES ASSUME IInv, handshake
               PROVE  /\ IsPrefix(Unanswered, pipeline)
                      /\ Refused \/ Len(Unanswered) = Len(pipeline)
    BY DEF AnswersMatchPipeline
  <2> DEFINE of   == [i \in DOMAIN replies |-> replies[i].of]
             rest == IF Refused THEN <<>> ELSE sent
             S    == Batch \cup {Hello}
  <2>1. /\ replies \in Seq(Reply) /\ sent \in Seq(S) /\ pipeline \in Seq(S)
        /\ pipeline \in Seq(Batch)
    BY DEF IInv, TypeOK
  <2>2. PICK n \in Nat, l \in Nat : n = Len(replies) /\ l = Len(pipeline)
    BY <2>1
  <2>3. of \in Seq(S) /\ Len(of) = n /\ \A i \in 1..n : of[i] = pipeline[i]
    <3>1. DOMAIN replies = 1..n /\ \A i \in 1..n : replies[i] \in Reply
      BY <2>1, <2>2
    <3>2. \A i \in 1..n : replies[i].of \in S
      BY <3>1 DEF Reply
    <3>3. \A i \in 1..n : replies[i].of = pipeline[i]
      BY <3>1 DEF IInv, AnswersInv
    <3> QED
      BY <3>1, <3>2, <3>3
  <2>4. rest \in Seq(S) /\ Len(rest) \in Nat
    BY <2>1
  <2>5. /\ n + Len(rest) <= l
        /\ \A i \in 1..Len(rest) : rest[i] = pipeline[n + i]
        /\ ~Refused => n + Len(rest) = l
    <3>1. CASE Refused
      BY <2>1, <2>2, <3>1 DEF IInv, AnswersInv
    <3>2. CASE ~Refused
      <4>1. DOMAIN sent = 1..Len(sent) /\ rest = sent
        BY <2>1, <3>2
      <4>2. n + Len(sent) = l /\ \A i \in DOMAIN sent : sent[i] = pipeline[n + i]
        BY <2>2, <3>2 DEF IInv, AnswersInv
      <4> HIDE DEF rest
      <4> QED
        BY <4>1, <4>2
    <3> QED
      BY <3>1, <3>2
  <2>6. Unanswered = of \o rest
    BY DEF Unanswered
  <2> DEFINE u == of \o rest
  <2> HIDE DEF of, rest
  <2>7. /\ u \in Seq(S) /\ Len(u) = n + Len(rest)
        /\ \A i \in 1..n : u[i] = of[i]
        /\ \A i \in 1..Len(rest) : u[n + i] = rest[i]
    <3>1. ASSUME NEW x \in Seq(S), NEW y \in Seq(S)
          PROVE  /\ x \o y \in Seq(S) /\ Len(x \o y) = Len(x) + Len(y)
                 /\ \A i \in 1..Len(x) : (x \o y)[i] = x[i]
                 /\ \A i \in 1..Len(y) : (x \o y)[Len(x) + i] = y[i]
      BY ConcatParts
    <3> QED
      BY <2>3, <2>4, <3>1, Zenon
  <2> HIDE DEF u, S
  <2>8. ASSUME NEW i \in 1..Len(u) PROVE u[i] = pipeline[i]
    <3>1. CASE i <= n
      BY <2>3, <2>7, <3>1
    <3>2. CASE i > n
      <4>1. i - n \in 1..Len(rest) /\ n + (i - n) = i
        BY <2>4, <2>7, <3>2
      <4> QED
        BY <2>5, <2>7, <4>1
    <3> QED
      BY <2>7, <3>1, <3>2
  <2>9. Len(u) <= Len(pipeline) /\ Len(u) \in Nat
    BY <2>2, <2>4, <2>5, <2>7
  <2>10. SubSeq(u, 1, Len(u)) = SubSeq(pipeline, 1, Len(u))
    BY <2>1, <2>7, <2>8, <2>9
  <2> QED
    BY <2>2, <2>5, <2>6, <2>7, <2>9, <2>10 DEF IsPrefix, u
<1> QED
  BY <1>1, Invariance, PTL

-----------------------------------------------------------------------------
(* What is to be written is on its way.                                    *)

\* A refill takes all that the limit allows, and starts the stream it needs.
LEMMA FillSupplies ==
  ASSUME NEW p \in Seq(Batch), NEW s \in StreamRecord, StreamInv(s),
         NEW shook \in BOOLEAN, NEW on \in BOOLEAN, on,
         queue' \in Seq(Batch), Heads(queue', p), Sorted(queue'), Len(p) <= MaxPending,
         FillWritePipeline(p, s, shook, on)
  PROVE  /\ Len(pipeline') = Upto(0, MaxPending, Len(queue'))
         /\ pipeline' # <<>> => IsStarted(write')
<1> DEFINE next == Unsent(queue', p)
           more == Added(p, on)
           used == IF more # <<>> /\ CanSend(s, shook) THEN Write(s)
                   ELSE IF on /\ p \o more = <<>> THEN MarkIdle(s) ELSE s
<1>1. /\ pipeline' = p \o more
      /\ write' = IF ShouldStart(p \o more, used, on) THEN Start(used) ELSE used
  BY DEF FillWritePipeline, FilledStream
<1>2. Len(pipeline') = Len(p) + Len(more)
  BY <1>1, FilledGood
<1>3. Len(more) = Upto(0, Len(next), MaxPending - Len(p))
  <2>1. next = SubSeq(queue', Len(p) + 1, Len(queue'))
    BY UnsentIs
  <2>2. next \in Seq(Batch) /\ Len(next) \in Nat
    BY <2>1
  <2> HIDE DEF next
  <2>3. PICK k \in Nat : k = Upto(0, Len(next), MaxPending - Len(p)) /\ k <= Len(next)
    BY <2>2, ClientAssumption DEF Upto
  <2>4. more = SubSeq(next, 1, k)
    BY <2>3 DEF Added, next
  <2>5. Len(SubSeq(next, 1, k)) = k
    BY <2>2, <2>3
  <2> HIDE DEF more
  <2> QED
    BY <2>3, <2>4, <2>5
<1>4. Len(next) = Len(queue') - Len(p)
  BY UnsentIs DEF Heads
<1>5. Len(pipeline') = Upto(0, MaxPending, Len(queue'))
  <2>1. PICK n \in Nat, l \in Nat : n = Len(p) /\ l = Len(queue')
    OBVIOUS
  <2>2. MaxPending \in Nat /\ n <= MaxPending /\ n <= l
    BY <2>1, ClientAssumption DEF Heads
  <2>3. Len(pipeline') = n + Upto(0, l - n, MaxPending - n)
    BY <1>2, <1>3, <1>4, <2>1
  <2> QED
    BY <2>1, <2>2, <2>3 DEF Upto
<1>6. used \in StreamRecord /\ StreamInv(used)
  BY WriteGood, MarkIdleGood DEF CanSend
<1> HIDE DEF used, more
<1>7. pipeline' # <<>> => IsStarted(write')
  BY <1>1, <1>6, StartGood DEF ShouldStart
<1> QED
  BY <1>5, <1>7

\* With the network on, the pipeline is as full as it can be and its stream is
\* started.
SuppliedInv ==
  network => /\ Len(pipeline) = Upto(0, MaxPending, Len(queue))
             /\ pipeline # <<>> => IsStarted(write)

LEMMA SuppliedApp == IInv /\ SuppliedInv /\ App => SuppliedInv'
<1> SUFFICES ASSUME IInv, SuppliedInv, App PROVE SuppliedInv'
  OBVIOUS
<1> USE DEF SuppliedInv
<1>1. /\ queue \in Seq(Batch) /\ Sorted(queue) /\ pipeline \in Seq(Batch) /\ Heads(queue, pipeline)
      /\ Len(pipeline) <= MaxPending /\ write \in StreamRecord /\ StreamInv(write)
      /\ handshake \in BOOLEAN /\ network \in BOOLEAN
      /\ Heads(queue, <<>>) /\ <<>> \in Seq(Batch) /\ Len(<<>>) <= MaxPending
  BY EmptyHeads DEF IInv, TypeOK, QueueInv, WireInv
<1>2. CASE Launch
  BY <1>1, <1>2, NewStreamGood, FillSupplies DEF Launch, StoreRestarts
<1>3. CASE SetOrDelete
  <2>1. \E k \in Keys, x \in 0..MaxWrites : WriteMutations(k, x)
    <3>1. PICK k \in Keys : WriteMutations(k, IF writes + 1 \in Deletes THEN Absent ELSE writes + 1)
      BY <1>3 DEF SetOrDelete
    <3>2. (IF writes + 1 \in Deletes THEN Absent ELSE writes + 1) \in 0..MaxWrites
      BY <3>1, WritesAssumption DEF WriteMutations, IInv, TypeOK, Absent
    <3> QED
      BY <3>1, <3>2
  <2> PICK k \in Keys, x \in 0..MaxWrites : WriteMutations(k, x)
    BY <2>1
  <2>2. /\ alive /\ writes < MaxWrites /\ writes' = writes + 1 /\ WriteLocally(writes + 1, k, x)
        /\ FillWritePipeline(pipeline, write, handshake, network) /\ network' = network
    BY DEF WriteMutations
  <2>3. queue' \in Seq(Batch) /\ Heads(queue', pipeline) /\ Sorted(queue')
    BY <2>2, AppendedQueue
  <2> QED
    BY <1>1, <2>2, <2>3, FillSupplies
<1>4. CASE DisableNetwork
  BY <1>4 DEF DisableNetwork, Switched
<1>5. CASE EnableNetwork
  BY <1>1, <1>5, FillSupplies DEF EnableNetwork, Switched, storeVars
<1>6. CASE HandleCredentialChange
  BY <1>1, <1>6, StopGood, FillSupplies DEF HandleCredentialChange, Switched, storeVars
<1> QED
  BY <1>2, <1>3, <1>4, <1>5, <1>6 DEF App

\* A stream that is lost is started again if it is needed.
LEMMA SuppliedLost ==
  ASSUME IInv, SuppliedInv, NEW s \in StreamRecord, StreamInv(s), IsStarted(s), StreamLost(s)
  PROVE  SuppliedInv'
<1> DEFINE c == Close(s, FALSE)
<1>1. c \in StreamRecord /\ StreamInv(c) /\ ~IsStarted(c)
  BY CloseGood
<1>2. /\ write' = IF ShouldStart(pipeline, c, network) THEN Start(c) ELSE c
      /\ UNCHANGED <<pipeline, queue, network>>
  BY DEF StreamLost, Reopening, Idling, storeVars
<1> HIDE DEF c
<1>3. network /\ pipeline # <<>> => IsStarted(write')
  BY <1>1, <1>2, StartGood DEF ShouldStart
<1> QED
  BY <1>2, <1>3 DEF SuppliedInv

LEMMA SuppliedStream ==
  IInv /\ SuppliedInv /\ (TokenArrives \/ StreamOpens \/ BackoffEnds \/ HandshakeCompletes \/ Faults)
    => SuppliedInv'
<1> SUFFICES ASSUME IInv, SuppliedInv,
                    TokenArrives \/ StreamOpens \/ BackoffEnds \/ HandshakeCompletes \/ Faults
             PROVE  SuppliedInv'
  OBVIOUS
<1>1. write \in StreamRecord /\ StreamInv(write)
  BY DEF IInv, TypeOK, WireInv
<1>2. ASSUME UNCHANGED <<pipeline, queue, network>>, IsStarted(write) => IsStarted(write')
      PROVE  SuppliedInv'
  BY <1>2 DEF SuppliedInv
<1>3. CASE TokenArrives
  BY <1>1, <1>2, <1>3, TokenGood DEF TokenArrives, Idling, storeVars, IsStarted
<1>4. CASE StreamOpens
  <2>1. IsStarted(write')
    BY <1>1, <1>4, OpenedGood, WriteGood DEF StreamOpens, IsOpen, IsStarted
  <2> QED
    BY <1>2, <1>4, <2>1 DEF StreamOpens, Idling, storeVars
<1>5. CASE BackoffEnds
  BY <1>1, <1>2, <1>5, BackoffGood DEF BackoffEnds, Idling, storeVars
<1>6. CASE HandshakeCompletes
  <2>1. IsOpen(write)
    BY <1>6, FirstAnswer DEF HandshakeCompletes
  <2>2. IsStarted(write')
    BY <1>1, <1>6, <2>1, WriteGood DEF HandshakeCompletes, IsOpen, IsStarted
  <2> QED
    BY <1>2, <1>6, <2>2 DEF HandshakeCompletes, Idling, storeVars
<1>7. CASE TokenFails
  <2> DEFINE s == [write EXCEPT !.auth = @ \ {write.closeCount}]
  <2>1. StreamLost(s) /\ write.state = "Starting"
    BY <1>1, <1>7 DEF TokenFails, StreamInv
  <2>2. s \in StreamRecord /\ StreamInv(s) /\ IsStarted(s)
    BY <1>1, <2>1 DEF StreamRecord, StreamInv, IsStarted, IsOpen
  <2> HIDE DEF s
  <2> QED
    BY <2>1, <2>2, SuppliedLost
<1>8. CASE StreamFails
  BY <1>1, <1>8, SuppliedLost DEF StreamFails, StreamInv, IsStarted
<1>9. CASE IdleTimeout
  <2>1. pipeline = <<>>
    BY <1>9 DEF IdleTimeout, IInv, WireInv
  <2> QED
    BY <1>9, <2>1 DEF IdleTimeout, Idling, storeVars, SuppliedInv
<1>10. CASE Die
  BY <1>10 DEF Die, SuppliedInv
<1> QED
  BY <1>3, <1>4, <1>5, <1>6, <1>7, <1>8, <1>9, <1>10 DEF Faults

\* A write that is settled makes room for the next.
LEMMA SuppliedSettled == IInv /\ SuppliedInv /\ (MutationResult \/ WriteDenied) => SuppliedInv'
<1> SUFFICES ASSUME IInv, SuppliedInv, MutationResult \/ WriteDenied PROVE SuppliedInv'
  OBVIOUS
<1>1. /\ write \in StreamRecord /\ StreamInv(write) /\ handshake \in BOOLEAN /\ network \in BOOLEAN
  BY DEF IInv, TypeOK, WireInv
<1>2. /\ replies # <<>> /\ pipeline # <<>> /\ RemoveBatch(Head(pipeline)) /\ network' = network
  BY DEF MutationResult, WriteDenied, AcknowledgeBatch, RejectBatch, Settling
<1>3. /\ queue' \in Seq(Batch) /\ Tail(pipeline) \in Seq(Batch)
      /\ Heads(queue', Tail(pipeline)) /\ Sorted(queue') /\ Len(Tail(pipeline)) <= MaxPending
  BY <1>2, TailsGood
<1>4. IsStarted(write)
  BY <1>2, FirstAnswer DEF IsOpen, IsStarted
<1>5. CASE MutationResult
  BY <1>1, <1>2, <1>3, <1>5, FillSupplies DEF MutationResult, SuppliedInv
<1>6. CASE WriteDenied
  <2> DEFINE s == InhibitBackoff(Close(write, FALSE))
  <2>1. s \in StreamRecord /\ StreamInv(s)
    BY <1>1, <1>4, CloseGood, InhibitGood
  <2>2. FillWritePipeline(Tail(pipeline), s, FALSE, network)
    BY <1>6 DEF WriteDenied
  <2> HIDE DEF s
  <2> QED
    BY <1>1, <1>2, <1>3, <2>1, <2>2, FillSupplies DEF SuppliedInv
<1> QED
  BY <1>5, <1>6

LEMMA SuppliedNext == IInv /\ SuppliedInv /\ [Next]_vars => SuppliedInv'
<1> SUFFICES ASSUME IInv, SuppliedInv, [Next]_vars PROVE SuppliedInv'
  OBVIOUS
<1>1. ASSUME UNCHANGED <<pipeline, queue, network, write>> PROVE SuppliedInv'
  BY <1>1 DEF SuppliedInv
<1>2. CASE App
  BY <1>2, SuppliedApp
<1>3. CASE Client
  BY <1>3, SuppliedStream, SuppliedSettled DEF Client
<1>4. CASE Server
  BY <1>1, <1>4 DEF Server, ServeHandshake, ServeWrite, Refuse, Answering, storeVars, clientVars
<1>5. CASE Faults
  BY <1>5, SuppliedStream
<1>6. CASE OtherWrites
  BY <1>1, <1>6 DEF OtherWrites, storeVars, clientVars
<1>7. CASE WatchSnapshot
  BY <1>1, <1>7 DEF WatchSnapshot, ApplyRemoteEvent
<1>8. CASE UNCHANGED vars
  BY <1>1, <1>8 DEF vars, storeVars, clientVars
<1> QED
  BY <1>2, <1>3, <1>4, <1>5, <1>6, <1>7, <1>8 DEF Next

\* With the network on, what is unsettled is in flight up to the limit, over a
\* stream that is started; and an open stream on which nothing is on its way
\* has nothing left to settle.
THEOREM NothingStuckCorrect == Spec => []NothingIsStuck
<1>1. Init => SuppliedInv
  BY DEF Init, SuppliedInv
<1>2. IInv /\ SuppliedInv => NothingIsStuck
  <2> SUFFICES ASSUME IInv, SuppliedInv, network PROVE
        IsOpen(write) /\ sent = <<>> /\ replies = <<>> => queue = <<>>
    BY DEF NothingIsStuck, SuppliedInv
  <2> SUFFICES ASSUME IsOpen(write), sent = <<>>, replies = <<>> PROVE queue = <<>>
    OBVIOUS
  <2>1. handshake
    BY DEF IInv, WireInv
  <2>2. Len(pipeline) = 0
    BY <2>1 DEF IInv, AnswersInv, Refused
  <2>3. Len(queue) = 0
    BY <2>2, ClientAssumption DEF IInv, TypeOK, SuppliedInv, Upto
  <2> QED
    BY <2>3 DEF IInv, TypeOK
<1> QED
  BY <1>1, <1>2, Invariance, SuppliedNext, PTL DEF Spec

=============================================================================
