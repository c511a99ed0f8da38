------------------------- MODULE WatchTargetProofs -------------------------
(***************************************************************************)
(* Proofs about WatchTarget, for any number of documents, listens, lost    *)
(* streams, refusals and ends of the process: a target waits for as many   *)
(* answers as there are on their way, what the aggregator takes for        *)
(* modified was listed, a view that is current is what the server had, and *)
(* once nothing is on its way a query listened to is current.              *)
(***************************************************************************)
EXTENDS WatchTargetProperties, FiniteSetTheorems, SequenceTheorems, TLAPS

AnswerTypes == {"added", "removed", "refused"}
QuietTypes  == {"doc", "gone", "current", "filter", "reset", "snapshot"}

\* What is said of documents names one.
Msg == { m \in [type : AnswerTypes \cup QuietTypes, keys : SUBSET Keys, count : Nat] :
           m.type \in {"doc", "gone"} => m.keys # {} }
Quiet == { m \in Msg : m.type \in QuietTypes }

Request == [op : {"watch", "unwatch"}, from : SUBSET Keys]

ChangeMaps == UNION { [ks -> {"added", "modified", "removed"}] : ks \in SUBSET Keys }

Entry == [pending : Int, current : BOOLEAN, changes : ChangeMaps]

\* Every variable has its type, the bounds aside.
TypeInv ==
  /\ open \in BOOLEAN /\ listened \in BOOLEAN
  /\ resume \subseteq Keys /\ token \subseteq Keys /\ synced \subseteq Keys
  /\ current \in BOOLEAN /\ state \in Entry /\ mismatch \in BOOLEAN /\ broken \in BOOLEAN
  /\ requests \in Seq(Request) /\ messages \in Seq(Msg)
  /\ present \subseteq Keys /\ serving \in BOOLEAN
  /\ asOf \subseteq Keys /\ cut \in BOOLEAN
  /\ spent \in [{"changes", "listens", "unlistens", "forgets", "refusals", "fails", "deaths"} -> Nat]

\* Nothing is on its way without a stream.
ClosedInv ==
  ~open => requests = <<>> /\ messages = <<>> /\ ~serving /\ ~mismatch

\* A refusal on its way is the last thing to come, unless the app ended a listen.
RefusalsInv ==
  /\ spent["refusals"] = 0 => \A i \in DOMAIN messages : messages[i].type # "refused"
  /\ spent["unlistens"] = 0 =>
       /\ \A i \in DOMAIN requests : requests[i].op = "watch" => i = Len(requests)
       /\ \A i \in DOMAIN messages : messages[i].type = "refused" =>
            requests = <<>> /\ \A j \in Answers(messages) : j <= i
       /\ mismatch => listened
       /\ mismatch \/ ~listened => ~open \/ state.pending = 0

\* What is modified in the aggregator is in the query.
ModifiedInv == ~broken /\ Kind(state, "modified") \subseteq synced

\* The inductive invariant.
IInv == TypeInv /\ ClosedInv /\ RefusalsInv /\ OutstandingAreCounted /\ ModifiedInv

-----------------------------------------------------------------------------
(* Answers on their way, in a sequence of messages.                        *)

LEMMA AnswersFinite ==
  ASSUME NEW ms \in Seq(Msg)
  PROVE  IsFiniteSet(Answers(ms)) /\ Cardinality(Answers(ms)) \in Nat
<1>1. Len(ms) \in Nat /\ DOMAIN ms = 1..Len(ms)
  OBVIOUS
<1>2. IsFiniteSet(1..Len(ms))
  BY <1>1, FS_Interval
<1>3. Answers(ms) \in SUBSET (1..Len(ms))
  BY <1>1 DEF Answers
<1> QED
  BY <1>2, <1>3, FS_Subset, FS_CardinalityType

LEMMA NoAnswers == Answers(<<>>) = {} /\ Cardinality(Answers(<<>>)) = 0
BY FS_EmptySet DEF Answers

\* Messages that answer nothing, behind others.
LEMMA QuietAfter ==
  ASSUME NEW ms \in Seq(Msg), NEW rs \in Seq(Quiet)
  PROVE  ms \o rs \in Seq(Msg) /\ Answers(ms \o rs) = Answers(ms)
<1>1. rs \in Seq(Msg) /\ \A i \in 1..Len(rs) : rs[i].type \in QuietTypes
  BY DEF Quiet
<1>2. /\ ms \o rs \in Seq(Msg) /\ Len(ms) \in Nat /\ Len(rs) \in Nat
      /\ DOMAIN ms = 1..Len(ms) /\ DOMAIN (ms \o rs) = 1..(Len(ms) + Len(rs))
      /\ \A i \in 1..Len(ms) : (ms \o rs)[i] = ms[i]
      /\ \A i \in (Len(ms) + 1)..(Len(ms) + Len(rs)) : (ms \o rs)[i] = rs[i - Len(ms)]
  BY <1>1
<1>3. \A i \in (Len(ms) + 1)..(Len(ms) + Len(rs)) : (ms \o rs)[i].type \in QuietTypes
  BY <1>1, <1>2
<1> QED
  BY <1>2, <1>3 DEF Answers, QuietTypes

\* A sequence that opens with its only answer.
Opens(ms) == ms \in Seq(Msg) /\ ms # <<>> /\ Answers(ms) = {1}

LEMMA OpensAfter ==
  ASSUME NEW ms \in Seq(Msg), NEW rs, Opens(rs)
  PROVE  /\ ms \o rs \in Seq(Msg)
         /\ Answers(ms \o rs) = Answers(ms) \cup {Len(ms) + 1}
         /\ Cardinality(Answers(ms \o rs)) = Cardinality(Answers(ms)) + 1
         /\ (ms \o rs)[Len(ms) + 1] = rs[1]
<1>1. rs \in Seq(Msg) /\ Len(rs) \in Nat \ {0} /\ Answers(rs) = {1}
  BY DEF Opens
<1>2. /\ ms \o rs \in Seq(Msg) /\ Len(ms) \in Nat
      /\ DOMAIN ms = 1..Len(ms) /\ DOMAIN rs = 1..Len(rs)
      /\ DOMAIN (ms \o rs) = 1..(Len(ms) + Len(rs))
      /\ \A i \in 1..Len(ms) : (ms \o rs)[i] = ms[i]
      /\ \A i \in 1..Len(rs) : (ms \o rs)[Len(ms) + i] = rs[i]
  BY <1>1
<1>3. Answers(ms \o rs) = Answers(ms) \cup {Len(ms) + 1}
  <2>1. ASSUME NEW i \in 1..(Len(ms) + Len(rs))
        PROVE  i \in Answers(ms \o rs) <=> i \in Answers(ms) \cup {Len(ms) + 1}
    <3>1. CASE i <= Len(ms)
      BY <1>2, <3>1 DEF Answers
    <3>2. CASE i > Len(ms)
      <4>1. PICK j \in 1..Len(rs) : i = Len(ms) + j
        <5>1. i - Len(ms) \in 1..Len(rs) /\ i = Len(ms) + (i - Len(ms))
          BY <1>1, <1>2, <3>2
        <5> QED
          BY <5>1
      <4>2. j \in Answers(rs) <=> j = 1
        BY <1>1
      <4> QED
        BY <1>2, <4>1, <4>2 DEF Answers
    <3> QED
      BY <1>2, <3>1, <3>2
  <2>2. Answers(ms \o rs) \subseteq 1..(Len(ms) + Len(rs)) /\ Answers(ms) \subseteq 1..Len(ms)
    BY <1>2 DEF Answers
  <2> QED
    BY <1>1, <1>2, <2>1, <2>2
<1>4. Len(ms) + 1 \notin Answers(ms)
  BY <1>2 DEF Answers
<1>5. Cardinality(Answers(ms) \cup {Len(ms) + 1}) = Cardinality(Answers(ms)) + 1
  BY <1>4, AnswersFinite, FS_AddElement
<1>6. (ms \o rs)[Len(ms) + 1] = rs[1]
  BY <1>1, <1>2
<1> QED
  BY <1>2, <1>3, <1>5, <1>6

LEMMA OpensQuietly ==
  ASSUME NEW ms, Opens(ms), NEW rs \in Seq(Quiet)
  PROVE  Opens(ms \o rs) /\ (ms \o rs)[1] = ms[1]
BY QuietAfter, Quiet \subseteq Msg DEF Opens, Quiet

LEMMA OpensAlone ==
  ASSUME NEW type \in AnswerTypes
  PROVE  Opens(<<Message(type)>>)
BY DEF Opens, Message, Msg, Answers, AnswerTypes

\* One message read.
LEMMA AnswersRead ==
  ASSUME NEW ms \in Seq(Msg), ms # <<>>
  PROVE  /\ Head(ms) \in Msg /\ Tail(ms) \in Seq(Msg)
         /\ \A i \in Answers(Tail(ms)) : i + 1 \in Answers(ms)
         /\ Head(ms).type \in AnswerTypes =>
              Cardinality(Answers(Tail(ms))) = Cardinality(Answers(ms)) - 1
         /\ Head(ms).type \notin AnswerTypes =>
              Cardinality(Answers(Tail(ms))) = Cardinality(Answers(ms))
<1> DEFINE S == Answers(Tail(ms))  T == Answers(ms) \ {1}
<1>1. /\ Len(ms) \in Nat \ {0} /\ Head(ms) = ms[1] /\ Head(ms) \in Msg /\ Tail(ms) \in Seq(Msg)
      /\ DOMAIN ms = 1..Len(ms) /\ DOMAIN Tail(ms) = 1..(Len(ms) - 1)
      /\ \A i \in 1..(Len(ms) - 1) : Tail(ms)[i] = ms[i + 1]
  OBVIOUS
<1>2. S \subseteq 1..(Len(ms) - 1) /\ T \subseteq 2..Len(ms)
  BY <1>1 DEF Answers
<1>3. \A i \in 1..(Len(ms) - 1) : i \in S <=> i + 1 \in T
  BY <1>1 DEF Answers
<1>4. 1 \in Answers(ms) <=> Head(ms).type \in AnswerTypes
  BY <1>1 DEF Answers, AnswerTypes
<1>5. IsFiniteSet(S) /\ IsFiniteSet(Answers(ms))
  BY <1>1, AnswersFinite
<1> HIDE DEF S
<1>6. Cardinality(T) = Cardinality(S)
  <2> DEFINE f == [i \in S |-> i + 1]
  <2>1. \A i \in S : i \in 1..(Len(ms) - 1) /\ f[i] = i + 1 /\ i + 1 \in T
    BY <1>2, <1>3
  <2>2. \A j \in T : j - 1 \in S /\ j - 1 + 1 = j
    <3> SUFFICES ASSUME NEW j \in T PROVE j - 1 \in S /\ j - 1 + 1 = j
      OBVIOUS
    <3>1. j \in 2..Len(ms) /\ j - 1 \in 1..(Len(ms) - 1) /\ j - 1 + 1 = j
      BY <1>1, <1>2
    <3> QED
      BY <1>3, <3>1
  <2> HIDE DEF T
  <2>3. f \in Bijection(S, T)
    <3>1. f \in [S -> T]
      BY <2>1
    <3>2. \A i, j \in S : f[i] = f[j] => i = j
      BY <1>1, <2>1
    <3>3. \A j \in T : \E i \in S : f[i] = j
      BY <2>1, <2>2
    <3> QED
      BY <3>1, <3>2, <3>3 DEF Bijection, Injection, Surjection, IsInjective
  <2> QED
    BY <1>5, <2>3, FS_Bijection DEF ExistsBijection
<1>7. Cardinality(T) = IF 1 \in Answers(ms) THEN Cardinality(Answers(ms)) - 1
                                            ELSE Cardinality(Answers(ms))
  BY <1>5, FS_RemoveElement
<1> QED
  BY <1>1, <1>2, <1>3, <1>4, <1>6, <1>7 DEF S

LEMMA DocumentsQuiet ==
  ASSUME NEW type \in {"doc", "gone"}, NEW ks \in SUBSET Keys
  PROVE  Documents(type, ks) \in Seq(Quiet)
<1> DEFINE S == { Document(type, k) : k \in ks }
<1>1. S \subseteq Quiet
  BY DEF Document, Message, Quiet, Msg, QuietTypes
<1>2. IsFiniteSet(S)
  <2> DEFINE f == [k \in ks |-> Document(type, k)]
  <2>1. IsFiniteSet(ks)
    BY WatchAssumption, FS_Subset
  <2>2. f \in Surjection(ks, S)
    BY DEF Surjection
  <2> HIDE DEF f, S
  <2> QED
    BY <2>1, <2>2, FS_Surjection
<1> HIDE DEF S
<1>3. Cardinality(S) \in Nat /\ \E f \in [1..Cardinality(S) -> S] : IsInjective(f)
  BY <1>2, FS_CardinalityType DEF ExistsBijection, Bijection, Injection
<1>4. SetToSeq(S) \in [1..Cardinality(S) -> S]
  BY <1>3 DEF SetToSeq
<1>5. SetToSeq(S) \in Seq(Quiet)
  BY <1>1, <1>3, <1>4
<1> QED
  BY <1>5 DEF S, Documents

LEMMA AloneQuiet ==
  ASSUME NEW docs \in SUBSET Keys
  PROVE  /\ <<Message("current")>> \in Seq(Quiet) /\ <<Message("current"), Snapshot(docs)>> \in Seq(Quiet)
         /\ <<Message("reset")>> \in Seq(Quiet)
         /\ <<Snapshot(docs)>> \in Seq(Quiet) /\ <<Filter(Cardinality(docs))>> \in Seq(Quiet)
         /\ <<>> \in Seq(Quiet)
<1>1. Cardinality(docs) \in Nat
  BY WatchAssumption, FS_Subset, FS_CardinalityType
<1>2. Message("current") \in Quiet /\ Message("reset") \in Quiet /\ Snapshot(docs) \in Quiet
  BY DEF Message, Snapshot, Quiet, Msg, QuietTypes
<1>3. Filter(Cardinality(docs)) \in Quiet
  BY <1>1 DEF Message, Filter, Quiet, Msg, QuietTypes
<1> QED
  BY <1>2, <1>3

\* What is spent only grows.
LEMMA Spending ==
  ASSUME TypeInv, NEW kind \in DOMAIN spent, NEW max, Spend(kind, max)
  PROVE  /\ spent' \in [DOMAIN spent -> Nat] /\ DOMAIN spent' = DOMAIN spent
         /\ spent'[kind] # 0
         /\ \A other \in DOMAIN spent : other # kind => spent'[other] = spent[other]
BY DEF Spend, TypeInv

-----------------------------------------------------------------------------
(* The server.                                                             *)

SpentType ==
  spent \in [{"changes", "listens", "unlistens", "forgets", "refusals", "fails", "deaths"} -> Nat]

\* It tells of documents.
LEMMA ServerTells ==
  ASSUME IInv, NEW rs \in Seq(Quiet), Sends(rs), rs # <<>> => serving,
         UNCHANGED <<clientVars, requests, serving, asOf, cut>>, present' \subseteq Keys,
         SpentType', spent'["refusals"] = spent["refusals"],
         spent'["unlistens"] = spent["unlistens"]
  PROVE  IInv'
<1> USE DEF IInv
<1>1. /\ messages \in Seq(Msg) /\ messages' \in Seq(Msg)
      /\ Answers(messages') = Answers(messages)
  BY QuietAfter DEF Sends, TypeInv
<1>2. TypeInv'
  BY <1>1 DEF TypeInv, clientVars, SpentType
<1>3. ClosedInv'
  BY <1>1, ConcatEmptySeq DEF ClosedInv, clientVars, Sends
<1>4. RefusalsInv'
  <2>1. \A i \in DOMAIN messages' : messages'[i].type = "refused" =>
          i \in DOMAIN messages /\ messages[i].type = "refused"
    <3> SUFFICES ASSUME NEW i \in DOMAIN messages', messages'[i].type = "refused"
                 PROVE  i \in DOMAIN messages /\ messages[i].type = "refused"
      OBVIOUS
    <3>1. i \in Answers(messages)
      BY <1>1 DEF Answers
    <3>2. i \in 1..Len(messages) /\ Len(messages) \in Nat
      BY <1>1, <3>1 DEF Answers
    <3>3. messages'[i] = messages[i]
      BY <1>1, <3>2, rs \in Seq(Msg) DEF Sends, Quiet
    <3> QED
      BY <1>1, <3>2, <3>3
  <2> QED
    BY <1>1, <2>1 DEF RefusalsInv, clientVars
<1>5. OutstandingAreCounted'
  BY <1>1 DEF OutstandingAreCounted, NoRefusalCrossed, clientVars
<1>6. ModifiedInv'
  BY DEF ModifiedInv, Kind, clientVars
<1> QED
  BY <1>2, <1>3, <1>4, <1>5, <1>6

\* It serves a request, with one answer before anything else.
LEMMA ServerAnswers ==
  ASSUME IInv, requests # <<>>, requests' = Tail(requests),
         NEW rs, Opens(rs), Sends(rs),
         rs[1].type = "refused" => Head(requests).op = "watch" /\ spent'["refusals"] # 0,
         serving' \in BOOLEAN,
         UNCHANGED <<clientVars, present, asOf, cut>>,
         SpentType', spent["refusals"] # 0 => spent'["refusals"] # 0,
         spent'["unlistens"] = spent["unlistens"]
  PROVE  IInv'
<1> USE DEF IInv
<1>1. /\ messages \in Seq(Msg) /\ messages' \in Seq(Msg)
      /\ Answers(messages') = Answers(messages) \cup {Len(messages) + 1}
      /\ Cardinality(Answers(messages')) = Cardinality(Answers(messages)) + 1
      /\ messages'[Len(messages) + 1] = rs[1]
  BY OpensAfter DEF Sends, TypeInv
<1>2. /\ requests \in Seq(Request) /\ Tail(requests) \in Seq(Request)
      /\ Len(requests) \in Nat \ {0} /\ Len(Tail(requests)) = Len(requests) - 1
      /\ Head(requests) = requests[1]
      /\ DOMAIN requests = 1..Len(requests) /\ DOMAIN Tail(requests) = 1..(Len(requests) - 1)
      /\ \A i \in 1..(Len(requests) - 1) : Tail(requests)[i] = requests[i + 1]
  BY DEF TypeInv
<1>3. open
  BY DEF ClosedInv
<1>4. TypeInv'
  BY <1>1, <1>2 DEF TypeInv, clientVars, SpentType
<1>5. ClosedInv'
  BY <1>3 DEF ClosedInv, clientVars
<1>6. ASSUME NEW i \in DOMAIN messages', messages'[i].type = "refused"
      PROVE  \/ i \in DOMAIN messages /\ messages[i].type = "refused"
             \/ i = Len(messages) + 1 /\ rs[1].type = "refused"
  <2>1. i \in Answers(messages')
    BY <1>6 DEF Answers
  <2>2. CASE i = Len(messages) + 1
    BY <1>1, <1>6, <2>2
  <2>3. CASE i \in Answers(messages)
    <3>1. i \in 1..Len(messages) /\ i \in DOMAIN messages
      BY <1>1, <2>3 DEF Answers
    <3>2. messages'[i] = messages[i]
      BY <1>1, <3>1 DEF Sends, Opens
    <3> QED
      BY <1>6, <3>1, <3>2
  <2> QED
    BY <1>1, <2>1, <2>2, <2>3
<1>7. RefusalsInv'
  <2>1. spent'["refusals"] = 0 => \A i \in DOMAIN messages' : messages'[i].type # "refused"
    BY <1>6 DEF RefusalsInv
  <2> SUFFICES ASSUME spent'["unlistens"] = 0
               PROVE  /\ \A i \in DOMAIN requests' : requests'[i].op = "watch" => i = Len(requests')
                      /\ \A i \in DOMAIN messages' : messages'[i].type = "refused" =>
                           requests' = <<>> /\ \A j \in Answers(messages') : j <= i
                      /\ mismatch' => listened'
                      /\ mismatch' \/ ~listened' => ~open' \/ state'.pending = 0
    BY <2>1 DEF RefusalsInv
  <2>2. /\ \A i \in DOMAIN requests : requests[i].op = "watch" => i = Len(requests)
        /\ \A i \in DOMAIN messages : messages[i].type # "refused"
        /\ mismatch => listened
        /\ mismatch \/ ~listened => ~open \/ state.pending = 0
    BY DEF RefusalsInv
  <2>3. \A i \in DOMAIN requests' : requests'[i].op = "watch" => i = Len(requests')
    <3> SUFFICES ASSUME NEW i \in DOMAIN requests', requests'[i].op = "watch"
                 PROVE  i = Len(requests')
      OBVIOUS
    <3>1. i \in 1..(Len(requests) - 1) /\ i + 1 \in DOMAIN requests /\ requests[i + 1].op = "watch"
      BY <1>2
    <3>2. i + 1 = Len(requests)
      BY <2>2, <3>1
    <3> QED
      BY <1>2, <3>1, <3>2
  <2>4. ASSUME NEW i \in DOMAIN messages', messages'[i].type = "refused"
        PROVE  requests' = <<>> /\ \A j \in Answers(messages') : j <= i
    <3>1. i = Len(messages) + 1 /\ Head(requests).op = "watch"
      BY <1>6, <2>2, <2>4
    <3>2. 1 = Len(requests)
      BY <1>2, <2>2, <3>1
    <3>3. requests' = <<>>
      BY <1>2, <3>2
    <3>4. \A j \in Answers(messages') : j <= i
      <4>1. Len(messages) \in Nat /\ \A j \in Answers(messages) : j \in 1..Len(messages)
        BY <1>1 DEF Answers
      <4> QED
        BY <1>1, <3>1, <4>1
    <3> QED
      BY <3>3, <3>4
  <2> QED
    BY <2>2, <2>3, <2>4 DEF clientVars
<1>8. OutstandingAreCounted'
  <2>1. Cardinality(Answers(messages)) \in Nat
    BY <1>1, AnswersFinite
  <2> QED
    BY <1>1, <1>2, <2>1 DEF OutstandingAreCounted, NoRefusalCrossed, clientVars
<1>9. ModifiedInv'
  BY DEF ModifiedInv, Kind, clientVars
<1> QED
  BY <1>4, <1>5, <1>7, <1>8, <1>9

LEMMA ServeListenStep == IInv /\ ServeListen => IInv'
<1> SUFFICES ASSUME IInv, ServeListen PROVE IInv'
  OBVIOUS
<1>1. present \subseteq Keys /\ Head(requests).from \subseteq Keys
  <2>1. requests # <<>> /\ requests \in Seq(Request)
    BY DEF IInv, TypeInv, ServeListen
  <2>2. Head(requests) \in Request
    BY <2>1
  <2> QED
    BY <2>2 DEF IInv, TypeInv, Request
<1>2. PICK lost : lost = Head(requests).from \ present
  OBVIOUS
<1>3. PICK untold \in SUBSET lost :
        /\ IF untold = {} THEN UNCHANGED spent ELSE Spend("forgets", MaxForgets)
        /\ Sends(<<Message("added")>> \o Documents("doc", present \ Head(requests).from)
                   \o Documents("gone", lost \ untold)
                   \o <<Message("current")>>
                   \o (IF untold = {} THEN <<>> ELSE <<Filter(Cardinality(present))>>)
                   \o <<Snapshot(present)>>)
  BY <1>2 DEF ServeListen
<1> DEFINE d1 == Documents("doc", present \ Head(requests).from)
           d2 == Documents("gone", lost \ untold)
           c  == IF untold = {} THEN <<>> ELSE <<Filter(Cardinality(present))>>
           r1 == <<Message("added")>>
           r2 == r1 \o d1
           r3 == r2 \o d2
           r4 == r3 \o <<Message("current")>>
           r5 == r4 \o c
           r6 == r5 \o <<Snapshot(present)>>
<1>4. Sends(r6)
  BY <1>3
<1>5. Opens(r1) /\ r1[1].type = "added"
  BY OpensAlone DEF AnswerTypes, Message
<1>6. d1 \in Seq(Quiet) /\ d2 \in Seq(Quiet)
  BY <1>1, <1>2, DocumentsQuiet
<1>7. c \in Seq(Quiet) /\ <<Message("current")>> \in Seq(Quiet) /\ <<Snapshot(present)>> \in Seq(Quiet)
  BY <1>1, AloneQuiet
<1> HIDE DEF d1, d2, c, r1
<1>8. Opens(r2) /\ r2[1].type = "added"
  BY <1>5, <1>6, OpensQuietly
<1> HIDE DEF r2
<1>9. Opens(r3) /\ r3[1].type = "added"
  BY <1>6, <1>8, OpensQuietly
<1> HIDE DEF r3
<1>10. Opens(r4) /\ r4[1].type = "added"
  BY <1>7, <1>9, OpensQuietly
<1> HIDE DEF r4
<1>11. Opens(r5) /\ r5[1].type = "added"
  BY <1>7, <1>10, OpensQuietly
<1> HIDE DEF r5
<1>12. Opens(r6) /\ r6[1].type = "added"
  BY <1>7, <1>11, OpensQuietly
<1> HIDE DEF r6
<1>13. SpentType' /\ spent'["refusals"] = spent["refusals"] /\ spent'["unlistens"] = spent["unlistens"]
  BY <1>3, Spending DEF IInv, TypeInv, SpentType
<1> QED
  BY <1>4, <1>12, <1>13, ServerAnswers DEF ServeListen

LEMMA ServeUnlistenStep == IInv /\ ServeUnlisten => IInv'
<1> SUFFICES ASSUME IInv, ServeUnlisten PROVE IInv'
  OBVIOUS
<1>1. PICK rs : rs = <<Message("removed")>>
  OBVIOUS
<1>2. Opens(rs) /\ rs[1].type # "refused"
  BY <1>1, OpensAlone DEF AnswerTypes, Message
<1>3. SpentType'
  BY DEF IInv, TypeInv, SpentType, ServeUnlisten
<1> QED
  BY <1>1, <1>2, <1>3, ServerAnswers DEF ServeUnlisten

LEMMA RefuseListenStep == IInv /\ RefuseListen => IInv'
<1> SUFFICES ASSUME IInv, RefuseListen PROVE IInv'
  OBVIOUS
<1>1. PICK rs : rs = <<Message("refused")>>
  OBVIOUS
<1>2. Opens(rs)
  BY <1>1, OpensAlone DEF AnswerTypes
<1>3. SpentType' /\ spent'["refusals"] # 0 /\ spent'["unlistens"] = spent["unlistens"]
  BY Spending DEF IInv, TypeInv, SpentType, RefuseListen
<1> QED
  BY <1>1, <1>2, <1>3, ServerAnswers DEF RefuseListen

LEMMA CollectionChangesStep == IInv /\ CollectionChanges => IInv'
<1> SUFFICES ASSUME IInv, CollectionChanges PROVE IInv'
  OBVIOUS
<1>1. SpentType' /\ spent'["refusals"] = spent["refusals"] /\ spent'["unlistens"] = spent["unlistens"]
  BY Spending DEF IInv, TypeInv, SpentType, CollectionChanges
<1>2. PICK k \in Keys : \E change \in Changes :
        /\ present' = IF Last(change) = "doc" THEN present \cup {k} ELSE present \ {k}
        /\ Sends(IF serving
                 THEN [i \in DOMAIN change |-> Document(change[i], k)] \o <<Snapshot(present')>>
                 ELSE <<>>)
  BY DEF CollectionChanges
<1>3. PICK change \in Changes :
        /\ present' = IF Last(change) = "doc" THEN present \cup {k} ELSE present \ {k}
        /\ Sends(IF serving
                 THEN [i \in DOMAIN change |-> Document(change[i], k)] \o <<Snapshot(present')>>
                 ELSE <<>>)
  BY <1>2
<1>4. present' \subseteq Keys
  BY <1>3 DEF IInv, TypeInv
<1>5. PICK n \in 1..2 : change \in [1..n -> {"doc", "gone"}]
  <2>1. CASE Len(change) = 1
    BY <2>1 DEF Changes
  <2>2. CASE Len(change) = 2
    BY <2>2 DEF Changes
  <2> QED
    BY <2>1, <2>2 DEF Changes
<1>6. [i \in DOMAIN change |-> Document(change[i], k)] \in Seq(Quiet)
  <2>1. \A i \in 1..n : Document(change[i], k) \in Quiet
    BY <1>5 DEF Document, Message, Quiet, Msg, QuietTypes
  <2> QED
    BY <1>5, <2>1
<1>7. PICK rs : rs = IF serving
                     THEN [i \in DOMAIN change |-> Document(change[i], k)] \o <<Snapshot(present')>>
                     ELSE <<>>
  OBVIOUS
<1>8. rs \in Seq(Quiet) /\ (rs # <<>> => serving)
  BY <1>4, <1>6, <1>7, AloneQuiet
<1> QED
  BY <1>1, <1>3, <1>4, <1>7, <1>8, ServerTells DEF CollectionChanges

LEMMA ServerResetsStep == IInv /\ ServerResets => IInv'
<1> SUFFICES ASSUME IInv, ServerResets PROVE IInv'
  OBVIOUS
<1>1. SpentType' /\ spent'["refusals"] = spent["refusals"] /\ spent'["unlistens"] = spent["unlistens"]
  BY Spending DEF IInv, TypeInv, SpentType, ServerResets
<1>2. present \subseteq Keys /\ present' = present
  BY DEF IInv, TypeInv, ServerResets, serverVars
<1>3. PICK rs : rs = <<Message("reset")>> \o Documents("doc", present)
                       \o <<Message("current"), Snapshot(present)>>
  OBVIOUS
<1>4. rs \in Seq(Quiet)
  <2>1. Documents("doc", present) \in Seq(Quiet)
    BY <1>2, DocumentsQuiet
  <2>2. <<Message("reset")>> \in Seq(Quiet) /\ <<Message("current"), Snapshot(present)>> \in Seq(Quiet)
    BY <1>2, AloneQuiet
  <2>3. <<Message("reset")>> \o Documents("doc", present) \in Seq(Quiet)
    BY <2>1, <2>2, ConcatProperties, Zenon
  <2> QED
    BY <1>3, <2>2, <2>3, ConcatProperties, Zenon
<1> QED
  BY <1>1, <1>2, <1>3, <1>4, ServerTells DEF ServerResets, serverVars

-----------------------------------------------------------------------------
(* The client.                                                             *)

LEMMA NoChanges == <<>> \in ChangeMaps
<1>1. <<>> \in [{} -> {"added", "modified", "removed"}] /\ {} \in SUBSET Keys
  OBVIOUS
<1> QED
  BY <1>1 DEF ChangeMaps

LEMMA NewStateIs ==
  NewState \in Entry /\ NewState.pending = 0 /\ NewState.changes = <<>> /\ Kind(NewState, "modified") = {}
BY NoChanges DEF NewState, Entry, Kind

\* Cleared of its changes.
LEMMA Cleared ==
  ASSUME NEW s \in Entry
  PROVE  LET c == [s EXCEPT !.changes = <<>>]
         IN  c \in Entry /\ c.pending = s.pending /\ c.changes = <<>> /\ Kind(c, "modified") = {}
BY NoChanges DEF Entry, Kind

LEMMA Sending ==
  ASSUME TypeInv, NEW ops \in Seq(Request), NEW s \in Entry, Send(ops, s)
  PROVE  /\ requests' \in Seq(Request) /\ state' \in Entry /\ state'.changes = s.changes
         /\ open => /\ requests' = requests \o ops
                    /\ Len(requests') = Len(requests) + Len(ops)
                    /\ state'.pending = s.pending + Len(ops)
         /\ ~open => requests' = requests /\ state' = s
<1>1. Len(ops) \in Nat /\ requests \in Seq(Request)
  BY DEF TypeInv
<1>2. CASE open
  <2>1. requests' = requests \o ops /\ state' = [s EXCEPT !.pending = @ + Len(ops)]
    BY <1>2 DEF Send, Requested
  <2>2. requests' \in Seq(Request) /\ Len(requests') = Len(requests) + Len(ops)
    BY <1>1, <2>1
  <2>3. state' \in Entry /\ state'.changes = s.changes /\ state'.pending = s.pending + Len(ops)
    BY <1>1, <2>1 DEF Entry
  <2> QED
    BY <1>2, <2>1, <2>2, <2>3
<1>3. CASE ~open
  BY <1>1, <1>3 DEF Send
<1> QED
  BY <1>2, <1>3

\* With nothing pending nothing is on its way.
LEMMA NoneOutstanding ==
  ASSUME IInv, open, spent["unlistens"] = 0, state.pending = 0
  PROVE  requests = <<>> /\ Answers(messages) = {}
<1>1. state.pending = Len(requests) + Cardinality(Answers(messages))
  BY DEF IInv, OutstandingAreCounted, NoRefusalCrossed
<1>2. /\ requests \in Seq(Request) /\ Len(requests) \in Nat
      /\ IsFiniteSet(Answers(messages)) /\ Cardinality(Answers(messages)) \in Nat
  BY AnswersFinite DEF IInv, TypeInv
<1>3. Len(requests) = 0 /\ Cardinality(Answers(messages)) = 0
  BY <1>1, <1>2
<1> QED
  BY <1>2, <1>3, FS_EmptySet

LEMMA ListenStep == IInv /\ Listen => IInv'
<1> SUFFICES ASSUME IInv, Listen PROVE IInv'
  OBVIOUS
<1> USE DEF IInv
<1>1. /\ SpentType' /\ spent'["refusals"] = spent["refusals"] /\ spent'["unlistens"] = spent["unlistens"]
  BY Spending DEF TypeInv, SpentType, Listen
<1>2. PICK ops : ops = <<Listening(token)>>
  OBVIOUS
<1>3. ops \in Seq(Request) /\ Len(ops) = 1
  BY <1>2 DEF Listening, Request, TypeInv
<1>4. /\ requests' \in Seq(Request) /\ state' \in Entry /\ state'.changes = state.changes
      /\ open => /\ requests' = requests \o ops
                 /\ Len(requests') = Len(requests) + 1
                 /\ state'.pending = state.pending + 1
      /\ ~open => requests' = requests /\ state' = state
  BY <1>2, <1>3, Sending DEF TypeInv, Listen
<1>5. TypeInv'
  BY <1>1, <1>4 DEF TypeInv, Listen, serverVars, SpentType
<1>6. ClosedInv'
  BY <1>4 DEF ClosedInv, Listen, serverVars
<1>7. RefusalsInv'
  <2>1. spent'["refusals"] = 0 => \A i \in DOMAIN messages' : messages'[i].type # "refused"
    BY <1>1 DEF RefusalsInv, Listen
  <2>2. CASE spent["unlistens"] = 0 /\ open
    <3>1. ~mismatch /\ requests = <<>> /\ Answers(messages) = {}
      BY <2>2, NoneOutstanding DEF RefusalsInv, Listen
    <3>2. requests' = ops
      BY <1>3, <1>4, <2>2, <3>1
    <3>3. \A i \in DOMAIN messages : messages[i].type # "refused"
      BY <3>1 DEF Answers
    <3> QED
      BY <1>1, <1>3, <2>1, <3>1, <3>2, <3>3 DEF RefusalsInv, Listen
  <2>3. CASE spent["unlistens"] = 0 /\ ~open
    BY <1>1, <1>4, <2>1, <2>3 DEF RefusalsInv, Listen, ClosedInv
  <2>4. CASE spent["unlistens"] # 0
    BY <1>1, <2>1, <2>4 DEF RefusalsInv
  <2> QED
    BY <2>2, <2>3, <2>4
<1>8. OutstandingAreCounted'
  <2>1. /\ Cardinality(Answers(messages)) \in Nat /\ Len(requests) \in Nat
        /\ messages' = messages /\ open' = open /\ state.pending \in Int
    BY AnswersFinite DEF TypeInv, Listen, Entry
  <2> QED
    BY <1>1, <1>4, <2>1 DEF OutstandingAreCounted, NoRefusalCrossed
<1>9. ModifiedInv'
  BY <1>4 DEF ModifiedInv, Kind, Listen
<1> QED
  BY <1>5, <1>6, <1>7, <1>8, <1>9

LEMMA StopListeningStep == IInv /\ StopListening => IInv'
<1> SUFFICES ASSUME IInv, StopListening PROVE IInv'
  OBVIOUS
<1> USE DEF IInv
<1>1. SpentType' /\ spent'["refusals"] = spent["refusals"] /\ spent'["unlistens"] # 0
  BY Spending DEF TypeInv, SpentType, StopListening
<1>2. PICK ops : ops = <<Unlistening>>
  OBVIOUS
<1>3. ops \in Seq(Request) /\ Len(ops) = 1
  BY <1>2 DEF Unlistening, Request
<1>4. /\ requests' \in Seq(Request) /\ state' \in Entry /\ state'.changes = state.changes
      /\ open => /\ Len(requests') = Len(requests) + 1
                 /\ state'.pending = state.pending + 1
      /\ ~open => requests' = requests /\ state' = state
  BY <1>2, <1>3, Sending DEF TypeInv, StopListening
<1>5. TypeInv'
  <2>1. cut' \in BOOLEAN
    BY Zenon DEF TypeInv, StopListening, ListenEnds
  <2> QED
    BY <1>1, <1>4, <2>1 DEF TypeInv, StopListening, serverVars, SpentType
<1>6. ClosedInv'
  BY <1>4 DEF ClosedInv, StopListening, serverVars
<1>7. RefusalsInv'
  BY <1>1 DEF RefusalsInv, StopListening
<1>8. OutstandingAreCounted'
  <2>1. Cardinality(Answers(messages)) \in Nat /\ messages' = messages /\ Len(requests) \in Nat
    BY AnswersFinite DEF TypeInv, StopListening
  <2> QED
    BY <1>1, <1>4, <2>1 DEF OutstandingAreCounted, NoRefusalCrossed, StopListening
<1>9. ModifiedInv'
  BY <1>4 DEF ModifiedInv, Kind, StopListening
<1> QED
  BY <1>5, <1>6, <1>7, <1>8, <1>9

LEMMA StreamOpensStep == IInv /\ StreamOpens => IInv'
<1> SUFFICES ASSUME IInv, StreamOpens PROVE IInv'
  OBVIOUS
<1> USE DEF IInv
<1>1. /\ requests' = <<Listening(resume)>> /\ requests' \in Seq(Request) /\ Len(requests') = 1
  BY DEF StreamOpens, Listening, Request, TypeInv
<1>2. state' \in Entry /\ state'.pending = 1 /\ state'.changes = <<>>
  <2>1. state' = [NewState EXCEPT !.pending = @ + 1]
    BY DEF StreamOpens, Requested
  <2> QED
    BY <2>1, NewStateIs DEF Entry
<1>3. messages = <<>> /\ messages' = <<>> /\ ~mismatch' /\ open' /\ listened'
  BY DEF StreamOpens, ClosedInv
<1>4. TypeInv'
  BY <1>1, <1>2, <1>3 DEF TypeInv, StreamOpens, serverVars
<1>5. ClosedInv'
  BY <1>3 DEF ClosedInv
<1>6. RefusalsInv'
  BY <1>1, <1>3 DEF RefusalsInv
<1>7. OutstandingAreCounted'
  BY <1>1, <1>2, <1>3, NoAnswers DEF OutstandingAreCounted
<1>8. ModifiedInv'
  BY <1>2 DEF ModifiedInv, Kind, StreamOpens
<1> QED
  BY <1>4, <1>5, <1>6, <1>7, <1>8

LEMMA DisconnectedStep ==
  ASSUME IInv, Disconnected, SpentType', listened' \in BOOLEAN, current' \in BOOLEAN, cut' \in BOOLEAN
  PROVE  IInv'
<1> USE DEF IInv
<1>1. TypeInv'
  <2>1. requests' \in Seq(Request) /\ messages' \in Seq(Msg) /\ state' \in Entry
    BY NewStateIs DEF Disconnected
  <2> QED
    BY <2>1 DEF TypeInv, SpentType, Disconnected
<1>2. ClosedInv'
  BY DEF ClosedInv, Disconnected
<1>3. RefusalsInv'
  BY DEF RefusalsInv, Disconnected
<1>4. OutstandingAreCounted'
  BY DEF OutstandingAreCounted, Disconnected
<1>5. ModifiedInv'
  BY NewStateIs DEF ModifiedInv, Kind, Disconnected
<1> QED
  BY <1>1, <1>2, <1>3, <1>4, <1>5

LEMMA StreamLostStep == IInv /\ StreamLost => IInv'
<1> SUFFICES ASSUME IInv, StreamLost PROVE IInv'
  OBVIOUS
<1>1. SpentType'
  BY Spending DEF IInv, TypeInv, SpentType, StreamLost
<1> QED
  BY <1>1, DisconnectedStep DEF IInv, TypeInv, StreamLost

LEMMA DieStep == IInv /\ Die => IInv'
<1> SUFFICES ASSUME IInv, Die PROVE IInv'
  OBVIOUS
<1>1. SpentType'
  BY Spending DEF IInv, TypeInv, SpentType, Die
<1>2. cut' \in BOOLEAN
  BY Zenon DEF IInv, TypeInv, Die, ListenEnds
<1> QED
  BY <1>1, <1>2, DisconnectedStep DEF Die

\* What a message makes of the entry.
LEMMA ChangedIs ==
  ASSUME NEW s \in Entry, NEW k \in Keys, NEW how \in {"added", "modified", "removed"}
  PROVE  /\ Changed(s, k, how) \in Entry /\ Changed(s, k, how).pending = s.pending
         /\ Kind(Changed(s, k, how), "modified") \subseteq
              Kind(s, "modified") \cup (IF how = "modified" THEN {k} ELSE {})
<1>1. PICK c : c = [j \in DOMAIN s.changes \cup {k} |-> IF j = k THEN how ELSE s.changes[j]]
  OBVIOUS
<1>2. PICK ks \in SUBSET Keys : s.changes \in [ks -> {"added", "modified", "removed"}]
  BY DEF Entry, ChangeMaps
<1>3. c \in [ks \cup {k} -> {"added", "modified", "removed"}]
  BY <1>1, <1>2
<1>4. c \in ChangeMaps
  BY <1>3 DEF ChangeMaps
<1>5. Changed(s, k, how) = [s EXCEPT !.changes = c]
  BY <1>1 DEF Changed
<1>6. Changed(s, k, how) \in Entry /\ Changed(s, k, how).pending = s.pending
      /\ Changed(s, k, how).changes = c
  BY <1>4, <1>5 DEF Entry
<1> QED
  BY <1>1, <1>6 DEF Kind

LEMMA ForgottenIs ==
  ASSUME NEW s \in Entry, NEW k \in Keys
  PROVE  /\ Forgotten(s, k) \in Entry /\ Forgotten(s, k).pending = s.pending
         /\ Kind(Forgotten(s, k), "modified") \subseteq Kind(s, "modified")
<1>1. PICK c : c = [j \in DOMAIN s.changes \ {k} |-> s.changes[j]]
  OBVIOUS
<1>2. PICK ks \in SUBSET Keys : s.changes \in [ks -> {"added", "modified", "removed"}]
  BY DEF Entry, ChangeMaps
<1>3. c \in [ks \ {k} -> {"added", "modified", "removed"}]
  BY <1>1, <1>2
<1>4. c \in ChangeMaps
  BY <1>3 DEF ChangeMaps
<1>5. Forgotten(s, k) = [s EXCEPT !.changes = c]
  BY <1>1 DEF Forgotten
<1>6. Forgotten(s, k) \in Entry /\ Forgotten(s, k).pending = s.pending
      /\ Forgotten(s, k).changes = c
  BY <1>4, <1>5 DEF Entry
<1> QED
  BY <1>1, <1>6 DEF Kind

LEMMA ResetIs ==
  ASSUME synced \subseteq Keys
  PROVE  ResetState \in Entry /\ ResetState.pending = 0 /\ Kind(ResetState, "modified") = {}
<1>1. PICK c : c = [k \in synced |-> "removed"]
  OBVIOUS
<1>2. c \in [synced -> {"added", "modified", "removed"}]
  BY <1>1
<1>3. c \in ChangeMaps
  BY <1>2 DEF ChangeMaps
<1>4. ResetState = [NewState EXCEPT !.changes = c]
  BY <1>1 DEF ResetState
<1>5. ResetState \in Entry /\ ResetState.pending = 0 /\ ResetState.changes = c
  BY <1>3, <1>4, NewStateIs DEF Entry
<1> QED
  BY <1>1, <1>5 DEF Kind

LEMMA AnswerIs ==
  ASSUME NEW s \in Entry
  PROVE  /\ TargetAdded(s) \in Entry /\ TargetAdded(s).pending = s.pending - 1
         /\ Kind(TargetAdded(s), "modified") \subseteq Kind(s, "modified")
         /\ TargetRemoved(s) \in Entry /\ TargetRemoved(s).pending = s.pending - 1
         /\ Kind(TargetRemoved(s), "modified") \subseteq Kind(s, "modified")
<1>1. s.pending \in Int
  BY DEF Entry
<1>2. PICK c : c = [s EXCEPT !.pending = 0, !.changes = <<>>]
  OBVIOUS
<1>3. c \in Entry /\ c.pending = 0 /\ Kind(c, "modified") = {}
  <2>1. c = [pending |-> 0, current |-> s.current, changes |-> <<>>] /\ s.current \in BOOLEAN
    BY <1>2 DEF Entry
  <2>2. c.changes = <<>>
    BY <2>1
  <2> QED
    BY <2>1, <2>2, NoChanges DEF Entry, Kind
<1>4. PICK d : d = [s EXCEPT !.pending = @ - 1]
  OBVIOUS
<1>5. d \in Entry /\ d.pending = s.pending - 1 /\ Kind(d, "modified") = Kind(s, "modified")
  BY <1>1, <1>4 DEF Entry, Kind
<1>6. TargetAdded(s) = IF s.pending = 1 THEN c ELSE d
  BY <1>2, <1>4 DEF TargetAdded
<1>7. TargetRemoved(s) = IF s.pending = 1 THEN NewState ELSE d
  BY <1>4 DEF TargetRemoved
<1> QED
  BY <1>1, <1>3, <1>5, <1>6, <1>7, NewStateIs

LEMMA AfterMessageIs ==
  ASSUME TypeInv, Kind(state, "modified") \subseteq synced,
         NEW m \in Msg, m.type \notin {"snapshot", "refused"}
  PROVE  /\ AfterMessage(state, m) \in Entry
         /\ m.type \in AnswerTypes => AfterMessage(state, m).pending = state.pending - 1
         /\ m.type \notin AnswerTypes => AfterMessage(state, m).pending = state.pending
         /\ Kind(AfterMessage(state, m), "modified") \subseteq synced
<1> DEFINE after == AfterMessage(state, m)
<1>1. state \in Entry /\ synced \subseteq Keys
  BY DEF TypeInv
<1>2. CASE m.type = "added"
  BY <1>1, <1>2, AnswerIs DEF AfterMessage, AnswerTypes
<1>3. CASE m.type = "removed"
  BY <1>1, <1>3, AnswerIs DEF AfterMessage, AnswerTypes
<1>4. CASE m.type \notin AnswerTypes /\ ~Active(state)
  <2>1. after = state
    BY <1>4 DEF AfterMessage, AnswerTypes
  <2> QED
    BY <1>1, <1>4, <2>1
<1>5. CASE m.type \notin AnswerTypes /\ Active(state)
  <2>1. state.pending = 0
    BY <1>5 DEF Active
  <2>2. CASE m.type = "doc"
    <3>1. PICK k \in Keys : k = CHOOSE j \in m.keys : TRUE
      BY <2>2 DEF Msg
    <3>2. after = AddDocument(state, k)
      BY <1>5, <2>2, <3>1 DEF AfterMessage, AnswerTypes, Told
    <3>3. CASE k \in synced
      BY <1>1, <1>5, <3>2, <3>3, ChangedIs DEF AddDocument
    <3>4. CASE k \notin synced
      BY <1>1, <1>5, <3>2, <3>4, ChangedIs DEF AddDocument
    <3> QED
      BY <3>3, <3>4
  <2>3. CASE m.type = "gone"
    <3>1. PICK k \in Keys : k = CHOOSE j \in m.keys : TRUE
      BY <2>3 DEF Msg
    <3>2. after = RemoveDocument(state, k)
      BY <1>5, <2>3, <3>1 DEF AfterMessage, AnswerTypes, Told
    <3>3. CASE k \in synced
      BY <1>1, <1>5, <3>2, <3>3, ChangedIs DEF RemoveDocument
    <3>4. CASE k \notin synced
      BY <1>1, <1>5, <3>2, <3>4, ForgottenIs DEF RemoveDocument
    <3> QED
      BY <3>3, <3>4
  <2>4. CASE m.type = "current"
    <3>1. after = [state EXCEPT !.current = TRUE]
      BY <1>5, <2>4 DEF AfterMessage, AnswerTypes, Told
    <3> QED
      BY <1>1, <1>5, <3>1 DEF Entry, Kind
  <2>5. CASE m.type = "reset"
    <3>1. after = ResetState
      BY <1>5, <2>5 DEF AfterMessage, AnswerTypes, Told
    <3> QED
      BY <1>1, <1>5, <2>1, <3>1, ResetIs
  <2>6. CASE m.type = "filter"
    <3>1. after = IF CurrentCount(state) # m.count THEN ResetState ELSE state
      BY <1>5, <2>6 DEF AfterMessage, AnswerTypes, Told
    <3> QED
      BY <1>1, <1>5, <2>1, <3>1, ResetIs
  <2> QED
    BY <1>5, <2>2, <2>3, <2>4, <2>5, <2>6 DEF Msg, AnswerTypes, QuietTypes
<1> QED
  BY <1>2, <1>3, <1>4, <1>5 DEF AnswerTypes

\* One message fewer on its way.
LEMMA ReadLeaves ==
  ASSUME IInv, Read, requests' = requests
  PROVE  /\ Head(messages) \in Msg /\ messages' \in Seq(Msg) /\ open
         /\ spent["refusals"] = 0 => \A i \in DOMAIN messages' : messages'[i].type # "refused"
         /\ spent["unlistens"] = 0 =>
              \A i \in DOMAIN messages' : messages'[i].type = "refused" =>
                requests' = <<>> /\ \A j \in Answers(messages') : j <= i
<1>1. /\ messages \in Seq(Msg) /\ messages # <<>> /\ messages' = Tail(messages) /\ open
  BY DEF IInv, TypeInv, ClosedInv, Read
<1>2. /\ Len(messages) \in Nat \ {0} /\ Head(messages) \in Msg /\ messages' \in Seq(Msg)
      /\ DOMAIN messages = 1..Len(messages) /\ DOMAIN messages' = 1..(Len(messages) - 1)
      /\ \A i \in 1..(Len(messages) - 1) : messages'[i] = messages[i + 1]
  BY <1>1
<1>3. \A i \in DOMAIN messages' :
        i \in Nat /\ i + 1 \in DOMAIN messages /\ messages'[i].type = messages[i + 1].type
  BY <1>2
<1>4. \A j \in Answers(messages') : j \in Nat /\ j + 1 \in Answers(messages)
  BY <1>2, <1>3 DEF Answers
<1>5. ASSUME spent["unlistens"] = 0, NEW i \in DOMAIN messages', messages'[i].type = "refused"
      PROVE  requests' = <<>> /\ \A j \in Answers(messages') : j <= i
  <2>1. requests = <<>> /\ \A j \in Answers(messages) : j <= i + 1
    BY <1>3, <1>5 DEF IInv, RefusalsInv
  <2> QED
    BY <1>3, <1>4, <2>1
<1>6. spent["refusals"] = 0 => \A i \in DOMAIN messages' : messages'[i].type # "refused"
  BY <1>3 DEF IInv, RefusalsInv
<1> QED
  BY <1>1, <1>2, <1>5, <1>6

LEMMA ReadChangeStep == IInv /\ ReadChange => IInv'
<1> SUFFICES ASSUME IInv, ReadChange PROVE IInv'
  OBVIOUS
<1> USE DEF IInv
<1>1. PICK m : m = Head(messages)
  OBVIOUS
<1>2. /\ m \in Msg /\ messages' \in Seq(Msg) /\ open
      /\ spent["refusals"] = 0 => \A i \in DOMAIN messages' : messages'[i].type # "refused"
      /\ spent["unlistens"] = 0 =>
           \A i \in DOMAIN messages' : messages'[i].type = "refused" =>
             requests' = <<>> /\ \A j \in Answers(messages') : j <= i
  BY <1>1, ReadLeaves DEF ReadChange
<1>3. /\ m.type \notin {"snapshot", "refused"} /\ state' = AfterMessage(state, m)
      /\ mismatch' = (mismatch \/ Mismatched(state, m))
  BY <1>1 DEF ReadChange
<1>4. /\ state' \in Entry
      /\ m.type \in AnswerTypes => state'.pending = state.pending - 1
      /\ m.type \notin AnswerTypes => state'.pending = state.pending
      /\ Kind(state', "modified") \subseteq synced
  BY <1>2, <1>3, AfterMessageIs DEF ModifiedInv
<1>5. TypeInv'
  <2>1. mismatch' \in BOOLEAN
    BY <1>3, Zenon
  <2> QED
    BY <1>2, <1>4, <2>1 DEF TypeInv, ReadChange, serverVars
<1>6. ClosedInv'
  BY <1>2 DEF ClosedInv, ReadChange
<1>7. RefusalsInv'
  <2>1. ASSUME spent["unlistens"] = 0, mismatch' \/ ~listened
        PROVE  state.pending = 0 /\ (mismatch' => listened)
    BY <1>2, <1>3, <2>1 DEF RefusalsInv, Mismatched, Active
  <2>2. ASSUME spent["unlistens"] = 0, mismatch' \/ ~listened
        PROVE  state'.pending = 0
    <3>1. Answers(messages) = {}
      BY <1>2, <2>1, <2>2, NoneOutstanding
    <3>2. m.type \notin AnswerTypes
      <4>1. messages # <<>> /\ messages \in Seq(Msg)
        BY DEF ReadChange, Read, TypeInv
      <4>2. 1 \in DOMAIN messages /\ m = messages[1]
        BY <1>1, <4>1
      <4> QED
        BY <3>1, <4>2 DEF Answers, AnswerTypes
    <3> QED
      BY <1>4, <2>1, <2>2, <3>2
  <2>3. UNCHANGED <<listened, requests, spent, open>>
    BY DEF ReadChange
  <2>4. spent["unlistens"] = 0 =>
          \A i \in DOMAIN requests : requests[i].op = "watch" => i = Len(requests)
    BY DEF RefusalsInv
  <2> QED
    BY <1>2, <2>1, <2>2, <2>3, <2>4 DEF RefusalsInv
<1>8. OutstandingAreCounted'
  <2>1. /\ messages # <<>> /\ messages' = Tail(messages) /\ messages \in Seq(Msg)
        /\ UNCHANGED <<open, spent, requests>> /\ Len(requests) \in Nat
    BY DEF ReadChange, Read, TypeInv
  <2>2. Cardinality(Answers(messages)) \in Nat
    BY <2>1, AnswersFinite
  <2>3. /\ m.type \in AnswerTypes =>
             Cardinality(Answers(messages')) = Cardinality(Answers(messages)) - 1
        /\ m.type \notin AnswerTypes =>
             Cardinality(Answers(messages')) = Cardinality(Answers(messages))
    BY <1>1, <2>1, AnswersRead
  <2> QED
    BY <1>4, <2>1, <2>2, <2>3 DEF OutstandingAreCounted, NoRefusalCrossed
<1>9. ModifiedInv'
  BY <1>4 DEF ModifiedInv, Kind, ReadChange
<1> QED
  BY <1>5, <1>6, <1>7, <1>8, <1>9

LEMMA RaiseWatchSnapshotStep == IInv /\ RaiseWatchSnapshot => IInv'
<1> SUFFICES ASSUME IInv, RaiseWatchSnapshot PROVE IInv'
  OBVIOUS
<1> USE DEF IInv
<1>1. /\ messages \in Seq(Msg) /\ messages # <<>> /\ messages' = Tail(messages)
      /\ Head(messages).type = "snapshot" /\ Head(messages) \in Msg /\ messages' \in Seq(Msg)
  BY DEF RaiseWatchSnapshot, Read, TypeInv
<1>2. /\ open /\ Answers(Tail(messages)) = Answers(messages')
      /\ Cardinality(Answers(messages')) = Cardinality(Answers(messages))
      /\ Cardinality(Answers(messages)) \in Nat
  BY <1>1, AnswersRead, AnswersFinite DEF ClosedInv, AnswerTypes
<1>3. PICK docs \in SUBSET Keys : docs = Head(messages).keys
  BY <1>1 DEF Msg
<1>4. PICK clear : clear = [state EXCEPT !.changes = <<>>]
  OBVIOUS
<1>5. PICK s : s = IF Active(state) THEN clear ELSE state
  OBVIOUS
<1>6. /\ IF Active(state) THEN ApplyTargetChange(docs) ELSE UNCHANGED <<broken, synced, current, token, asOf>>
      /\ IF mismatch /\ listened
         THEN resume' = {} /\ Send(<<Unlistening, Listening({})>>, s)
         ELSE /\ resume' = IF Active(state) THEN docs ELSE resume
              /\ state' = s /\ requests' = requests
      /\ mismatch' = FALSE
      /\ UNCHANGED <<open, listened, serverVars, cut, spent>>
  BY <1>3, <1>4, <1>5 DEF RaiseWatchSnapshot
<1>7. s \in Entry /\ s.pending = state.pending /\ (Active(state) => s.changes = <<>>)
      /\ (~Active(state) => s.changes = state.changes)
  BY <1>4, <1>5, Cleared DEF TypeInv
<1>8. <<Unlistening, Listening({})>> \in Seq(Request)
  BY DEF Unlistening, Listening, Request
<1>9. /\ requests' \in Seq(Request) /\ state' \in Entry /\ state'.changes = s.changes
      /\ mismatch /\ listened => /\ requests' = requests \o <<Unlistening, Listening({})>>
                                 /\ Len(requests') = Len(requests) + 2
                                 /\ state'.pending = state.pending + 2
      /\ ~(mismatch /\ listened) => requests' = requests /\ state'.pending = state.pending
  <2>1. CASE mismatch /\ listened
    <3>1. PICK ops \in Seq(Request) : ops = <<Unlistening, Listening({})>> /\ Len(ops) = 2
      BY <1>8
    <3>2. Send(ops, s)
      BY <1>6, <2>1, <3>1
    <3> QED
      BY <1>2, <1>7, <2>1, <3>1, <3>2, Sending
  <2>2. CASE ~(mismatch /\ listened)
    BY <1>6, <1>7, <2>2 DEF TypeInv
  <2> QED
    BY <2>1, <2>2
<1>10. Kind(state, "added") \subseteq Keys
  <2>1. PICK ks \in SUBSET Keys : state.changes \in [ks -> {"added", "modified", "removed"}]
    BY DEF TypeInv, Entry, ChangeMaps
  <2> QED
    BY <2>1 DEF Kind
<1>11. /\ synced' \subseteq Keys /\ token' \subseteq Keys /\ asOf' \subseteq Keys
       /\ current' \in BOOLEAN /\ resume' \subseteq Keys /\ ~broken'
  <2>1. CASE Active(state)
    <3>1. ~broken'
      BY <1>6, <2>1 DEF ApplyTargetChange, ModifiedInv
    <3> QED
      BY <1>6, <1>10, <2>1, <3>1 DEF ApplyTargetChange, TypeInv, Entry
  <2>2. CASE ~Active(state)
    BY <1>6, <2>2 DEF TypeInv, ModifiedInv
  <2> QED
    BY <2>1, <2>2
<1>12. TypeInv'
  <2>1. UNCHANGED <<open, listened, present, serving, cut, spent>>
    BY <1>6 DEF serverVars
  <2>2. mismatch' \in BOOLEAN
    BY <1>6, Zenon
  <2>3. broken' \in BOOLEAN
    <3>1. CASE Active(state)
      BY <1>6, <3>1, Zenon DEF ApplyTargetChange
    <3>2. CASE ~Active(state)
      BY <1>6, <3>2 DEF TypeInv
    <3> QED
      BY <3>1, <3>2
  <2> QED
    BY <1>1, <1>9, <1>11, <2>1, <2>2, <2>3 DEF TypeInv
<1>13. ClosedInv'
  BY <1>2, <1>6 DEF ClosedInv
<1>14. ModifiedInv'
  <2>1. CASE Active(state)
    BY <1>7, <1>9, <1>11, <2>1 DEF ModifiedInv, Kind
  <2>2. CASE ~Active(state)
    BY <1>6, <1>7, <1>9, <1>11, <2>2 DEF ModifiedInv, Kind
  <2> QED
    BY <2>1, <2>2
<1>15. OutstandingAreCounted'
  <2>1. Len(requests) \in Nat /\ state.pending \in Int
    BY DEF TypeInv, Entry
  <2>2. open' = open /\ spent' = spent
    BY <1>6
  <2>3. NoRefusalCrossed => state.pending = Len(requests) + Cardinality(Answers(messages))
    BY <1>2 DEF OutstandingAreCounted
  <2>4. NoRefusalCrossed => state'.pending = Len(requests') + Cardinality(Answers(messages'))
    <3>1. CASE mismatch /\ listened
      <4>1. Len(requests') = Len(requests) + 2 /\ state'.pending = state.pending + 2
        BY <1>9, <3>1
      <4> QED
        BY <1>2, <2>1, <2>3, <4>1
    <3>2. CASE ~(mismatch /\ listened)
      <4>1. requests' = requests /\ state'.pending = state.pending
        BY <1>9, <3>2
      <4> QED
        BY <1>2, <2>1, <2>3, <4>1
    <3> QED
      BY <3>1, <3>2
  <2> QED
    BY <2>2, <2>4 DEF OutstandingAreCounted, NoRefusalCrossed
<1>16. RefusalsInv'
  <2>1. /\ spent' = spent /\ listened' = listened /\ open' = open /\ ~mismatch'
    BY <1>6
  <2>2. CASE mismatch /\ listened
    <3>1. spent["refusals"] = 0 => \A i \in DOMAIN messages' : messages'[i].type # "refused"
      BY <1>1 DEF RefusalsInv
    <3>2. ASSUME spent["unlistens"] = 0
          PROVE  requests = <<>> /\ Answers(messages') = {}
      <4>1. requests = <<>> /\ Answers(messages) = {}
        BY <1>2, <2>2, <3>2, NoneOutstanding DEF RefusalsInv
      <4>2. \A i \in Answers(messages') : i + 1 \in Answers(messages)
        BY <1>1, AnswersRead
      <4> QED
        BY <4>1, <4>2
    <3>3. ASSUME spent["unlistens"] = 0
          PROVE  requests' = <<Unlistening, Listening({})>>
      BY <1>8, <1>9, <2>2, <3>2, <3>3
    <3>4. spent["unlistens"] = 0 =>
            \A i \in DOMAIN requests' : requests'[i].op = "watch" => i = Len(requests')
      BY <3>3 DEF Unlistening, Listening
    <3>5. spent["unlistens"] = 0 => \A i \in DOMAIN messages' : messages'[i].type # "refused"
      BY <3>2 DEF Answers
    <3> QED
      BY <2>1, <2>2, <3>1, <3>4, <3>5 DEF RefusalsInv
  <2>3. CASE ~(mismatch /\ listened)
    <3>1. requests' = requests /\ state'.pending = state.pending
      BY <1>9, <2>3
    <3> QED
      BY <2>1, <3>1, ReadLeaves DEF RefusalsInv, RaiseWatchSnapshot
  <2> QED
    BY <2>2, <2>3
<1> QED
  BY <1>12, <1>13, <1>14, <1>15, <1>16

LEMMA TargetRefusedStep == IInv /\ TargetRefused => IInv'
<1> SUFFICES ASSUME IInv, TargetRefused PROVE IInv'
  OBVIOUS
<1> USE DEF IInv
<1>1. /\ messages \in Seq(Msg) /\ messages # <<>> /\ messages' = Tail(messages)
      /\ Head(messages).type = "refused" /\ messages' \in Seq(Msg)
      /\ 1 \in DOMAIN messages /\ messages[1].type = "refused" /\ 1 \in Answers(messages)
  <2>1. messages \in Seq(Msg) /\ messages # <<>> /\ messages' = Tail(messages)
        /\ Head(messages).type = "refused"
    BY DEF TargetRefused, Read, TypeInv
  <2>2. messages' \in Seq(Msg) /\ 1 \in DOMAIN messages /\ messages[1] = Head(messages)
    BY <2>1
  <2> QED
    BY <2>1, <2>2 DEF Answers
<1>2. /\ UNCHANGED <<open, resume, token, synced, mismatch, broken, requests, serverVars, asOf, spent>>
      /\ listened => listened' = FALSE /\ state' = NewState /\ current' = FALSE /\ ListenEnds
      /\ ~listened => UNCHANGED <<listened, state, current, cut>>
  BY DEF TargetRefused
<1>3. open /\ spent["refusals"] # 0
  BY <1>1 DEF ClosedInv, RefusalsInv
<1>4. ASSUME spent["unlistens"] = 0
      PROVE  requests = <<>> /\ listened /\ ~mismatch /\ Answers(messages') = {}
  <2>1. requests = <<>> /\ \A j \in Answers(messages) : j <= 1
    BY <1>1, <1>4 DEF RefusalsInv
  <2>2. state.pending # 0
    BY <1>1, <1>3, <1>4, NoneOutstanding
  <2>3. listened /\ ~mismatch
    BY <1>3, <1>4, <2>2 DEF RefusalsInv
  <2>4. \A i \in Answers(messages') : i + 1 \in Answers(messages) /\ i \in 1..Len(messages')
    BY <1>1, AnswersRead DEF Answers
  <2>5. Answers(messages') = {}
    BY <2>1, <2>4
  <2> QED
    BY <2>1, <2>3, <2>5
<1>5. TypeInv'
  <2>1. listened => cut' \in BOOLEAN
    BY <1>2, Zenon DEF ListenEnds
  <2>2. CASE listened
    BY <1>1, <1>2, <2>1, <2>2, NewStateIs DEF TypeInv, serverVars
  <2>3. CASE ~listened
    BY <1>1, <1>2, <2>3 DEF TypeInv, serverVars
  <2> QED
    BY <2>2, <2>3
<1>6. ClosedInv'
  BY <1>2, <1>3 DEF ClosedInv
<1>7. RefusalsInv'
  <2>1. ASSUME spent["unlistens"] = 0
        PROVE  state'.pending = 0 /\ \A i \in DOMAIN messages' : messages'[i].type # "refused"
    BY <1>2, <1>4, <2>1, NewStateIs DEF Answers
  <2>2. UNCHANGED <<spent, requests, mismatch>>
    BY <1>2
  <2> QED
    BY <1>3, <1>4, <2>1, <2>2 DEF RefusalsInv
<1>8. OutstandingAreCounted'
  <2>1. CASE spent["unlistens"] = 0
    <3>1. state'.pending = 0 /\ requests' = <<>> /\ Cardinality(Answers(messages')) = 0
      BY <1>2, <1>4, <2>1, NewStateIs, FS_EmptySet
    <3> QED
      BY <3>1 DEF OutstandingAreCounted
  <2>2. CASE spent["unlistens"] # 0
    BY <1>2, <1>3, <2>2 DEF OutstandingAreCounted, NoRefusalCrossed
  <2> QED
    BY <2>1, <2>2
<1>9. ModifiedInv'
  <2>1. state' = NewState \/ state' = state
    BY <1>2
  <2> QED
    BY <1>2, <2>1, NewStateIs DEF ModifiedInv, Kind
<1> QED
  BY <1>5, <1>6, <1>7, <1>8, <1>9

-----------------------------------------------------------------------------
(* Init, Next and the theorems.                                            *)

LEMMA InitGood == Init => IInv
<1> SUFFICES ASSUME Init PROVE IInv
  OBVIOUS
<1>1. TypeInv
  <2>1. <<>> \in Seq(Request) /\ <<>> \in Seq(Msg)
    OBVIOUS
  <2>2. spent \in [{"changes", "listens", "unlistens", "forgets", "refusals", "fails", "deaths"} -> Nat]
    BY DEF Init
  <2> QED
    BY <2>1, <2>2, NewStateIs DEF Init, TypeInv
<1>2. ClosedInv /\ RefusalsInv /\ OutstandingAreCounted
  BY DEF Init, ClosedInv, RefusalsInv, OutstandingAreCounted
<1>3. ModifiedInv
  BY NewStateIs DEF Init, ModifiedInv
<1> QED
  BY <1>1, <1>2, <1>3 DEF IInv

LEMMA StutterGood == IInv /\ UNCHANGED vars => IInv'
<1> SUFFICES ASSUME IInv, UNCHANGED vars PROVE IInv'
  OBVIOUS
<1> USE DEF IInv, vars, clientVars, serverVars
<1>1. TypeInv'
  BY DEF TypeInv
<1>2. ClosedInv'
  BY DEF ClosedInv
<1>3. RefusalsInv'
  BY DEF RefusalsInv, Answers
<1>4. OutstandingAreCounted'
  BY DEF OutstandingAreCounted, NoRefusalCrossed, Answers
<1>5. ModifiedInv'
  BY DEF ModifiedInv, Kind
<1> QED
  BY <1>1, <1>2, <1>3, <1>4, <1>5

LEMMA NextGood == IInv /\ [Next]_vars => IInv'
<1> SUFFICES ASSUME IInv, [Next]_vars PROVE IInv'
  OBVIOUS
<1>1. CASE Client
  BY <1>1, StreamOpensStep, ReadChangeStep, RaiseWatchSnapshotStep, TargetRefusedStep DEF Client
<1>2. CASE Server
  BY <1>2, ServeListenStep, ServeUnlistenStep DEF Server
<1>3. CASE Listen \/ StopListening \/ StreamLost \/ Die
  BY <1>3, ListenStep, StopListeningStep, StreamLostStep, DieStep
<1>4. CASE RefuseListen \/ CollectionChanges \/ ServerResets
  BY <1>4, RefuseListenStep, CollectionChangesStep, ServerResetsStep
<1>5. CASE UNCHANGED vars
  BY <1>5, StutterGood
<1> QED
  BY <1>1, <1>2, <1>3, <1>4, <1>5 DEF Next

\* A target waits for as many answers as there are on their way, requests not
\* served and answers not read (RecordPendingTargetRequest, HandleTargetChange),
\* through lost streams, mismatches and the end of the process, as long as
\* refusals and unlistens do not meet.
THEOREM AnswersAreCounted == Spec => []OutstandingAreCounted
<1>1. IInv => OutstandingAreCounted
  BY DEF IInv
<1> QED
  BY <1>1, InitGood, NextGood, PTL DEF Spec

\* The HARD_ASSERT of ApplyTargetChange never fails: the aggregator calls
\* modified only documents that are in the query.
THEOREM ModifiedCorrect == Spec => []ModifiedAreListed
<1>1. IInv => ModifiedAreListed
  BY DEF IInv, ModifiedInv, ModifiedAreListed
<1> QED
  BY <1>1, InitGood, NextGood, PTL DEF Spec

-----------------------------------------------------------------------------
(* What the server's messages lead a client to, that goes by them from the *)
(* documents the server takes it to have.                                  *)

\* From documents a, message m to documents b.  A count is sent only when it
\* cannot match, and then nothing is said of b.
Leads(a, m, b) ==
  /\ m.type = "doc"      => \E k \in Keys : m.keys = {k} /\ b = a \cup {k}
  /\ m.type = "gone"     => \E k \in Keys : m.keys = {k} /\ b = a \ {k}
  /\ m.type = "reset"    => b = {}
  /\ m.type = "current"  => b = a
  /\ m.type = "filter"   => Cardinality(a) # m.count
  /\ m.type = "snapshot" => a = m.keys /\ b = a

\* The documents along a sequence of messages; a count is the last thing
\* before a snapshot.
Along(g, ms) ==
  /\ g \in [1..(Len(ms) + 1) -> SUBSET Keys]
  /\ \A i \in 1..Len(ms) : Leads(g[i], ms[i], g[i+1])
  /\ \A i \in 1..Len(ms) : ms[i].type = "filter" => i < Len(ms) /\ ms[i+1].type = "snapshot"

Course(ms, a, b) == \E g : Along(g, ms) /\ g[1] = a /\ g[Len(ms) + 1] = b

LEMMA CourseEmpty ==
  ASSUME NEW a \in SUBSET Keys
  PROVE  Course(<<>>, a, a)
<1>1. PICK g : g = [i \in 1..1 |-> a]
  OBVIOUS
<1>2. Len(<<>>) = 0 /\ g[1] = a /\ g \in [1..(0 + 1) -> SUBSET Keys]
  BY <1>1
<1>3. Along(g, <<>>)
  BY <1>2 DEF Along
<1> QED
  BY <1>2, <1>3 DEF Course

LEMMA CourseOne ==
  ASSUME NEW m \in Msg, m.type # "filter", NEW a \in SUBSET Keys, NEW b \in SUBSET Keys, Leads(a, m, b)
  PROVE  Course(<<m>>, a, b)
<1>1. PICK g : g = [i \in 1..2 |-> IF i = 1 THEN a ELSE b]
  OBVIOUS
<1>2. PICK ms : ms = <<m>> /\ Len(ms) = 1 /\ ms[1] = m
  <2>1. Len(<<m>>) = 1 /\ <<m>>[1] = m
    OBVIOUS
  <2> QED
    BY <2>1
<1>3. g[1] = a /\ g[2] = b /\ g \in [1..(1 + 1) -> SUBSET Keys]
  BY <1>1
<1>4. Along(g, ms)
  BY <1>2, <1>3 DEF Along
<1> QED
  BY <1>2, <1>3, <1>4 DEF Course

LEMMA CourseCount ==
  ASSUME NEW f \in Msg, NEW m \in Msg, NEW a \in SUBSET Keys,
         f.type = "filter", Cardinality(a) # f.count, m.type = "snapshot"
  PROVE  Course(<<f, m>>, a, m.keys)
<1>1. PICK g : g = [i \in 1..3 |-> IF i = 1 THEN a ELSE m.keys]
  OBVIOUS
<1>2. PICK ms : ms = <<f, m>> /\ Len(ms) = 2 /\ ms[1] = f /\ ms[2] = m
  <2>1. Len(<<f, m>>) = 2 /\ <<f, m>>[1] = f /\ <<f, m>>[2] = m
    OBVIOUS
  <2> QED
    BY <2>1
<1>3. g[1] = a /\ g[2] = m.keys /\ g[3] = m.keys /\ g \in [1..(2 + 1) -> SUBSET Keys]
  BY <1>1 DEF Msg
<1>4. Along(g, ms)
  <2>1. Leads(g[1], f, g[2]) /\ Leads(g[2], m, g[3])
    BY <1>3 DEF Leads
  <2>2. \A i \in 1..2 : Leads(g[i], ms[i], g[i+1])
    <3>1. \A i \in 1..2 : i = 1 \/ i = 2
      OBVIOUS
    <3> QED
      BY <1>2, <2>1, <3>1
  <2>3. \A i \in 1..2 : ms[i].type = "filter" => i < 2 /\ ms[i+1].type = "snapshot"
    <3>1. \A i \in 1..2 : i = 1 \/ i = 2
      OBVIOUS
    <3> QED
      BY <1>2, <3>1
  <2> QED
    BY <1>2, <1>3, <2>2, <2>3 DEF Along
<1> QED
  BY <1>2, <1>3, <1>4 DEF Course

LEMMA CourseConcat ==
  ASSUME NEW r \in Seq(Msg), NEW s \in Seq(Msg), NEW a, NEW b, NEW c,
         Course(r, a, b), Course(s, b, c)
  PROVE  Course(r \o s, a, c)
<1>1. PICK n \in Nat, k \in Nat : n = Len(r) /\ k = Len(s)
  OBVIOUS
<1>2. PICK q : q = r \o s
  OBVIOUS
<1>3. /\ Len(q) = n + k
      /\ \A i \in 1..n : q[i] = r[i]
      /\ \A i \in 1..k : q[n + i] = s[i]
  BY <1>1, <1>2
<1>4. PICK g : Along(g, r) /\ g[1] = a /\ g[n + 1] = b
  BY <1>1 DEF Course
<1>5. PICK h : Along(h, s) /\ h[1] = b /\ h[k + 1] = c
  BY <1>1 DEF Course
<1>6. /\ g \in [1..(n + 1) -> SUBSET Keys]
      /\ \A i \in 1..n : Leads(g[i], r[i], g[i+1])
      /\ \A i \in 1..n : r[i].type = "filter" => i < n /\ r[i+1].type = "snapshot"
  BY <1>1, <1>4 DEF Along
<1>7. /\ h \in [1..(k + 1) -> SUBSET Keys]
      /\ \A i \in 1..k : Leads(h[i], s[i], h[i+1])
      /\ \A i \in 1..k : s[i].type = "filter" => i < k /\ s[i+1].type = "snapshot"
  BY <1>1, <1>5 DEF Along
<1>8. PICK f : f = [i \in 1..(n + k + 1) |-> IF i <= n THEN g[i] ELSE h[i - n]]
  OBVIOUS
<1>9. \A i \in 1..(n + 1) : f[i] = g[i]
  <2> SUFFICES ASSUME NEW i \in 1..(n + 1) PROVE f[i] = g[i]
    OBVIOUS
  <2>1. i \in 1..(n + k + 1)
    OBVIOUS
  <2>2. CASE i <= n
    BY <1>8, <2>1, <2>2
  <2>3. CASE ~(i <= n)
    <3>1. i = n + 1 /\ i - n = 1
      BY <2>3
    <3> QED
      BY <1>4, <1>5, <1>8, <2>1, <2>3, <3>1
  <2> QED
    BY <2>2, <2>3
<1>10. \A i \in 1..(k + 1) : f[n + i] = h[i]
  <2> SUFFICES ASSUME NEW i \in 1..(k + 1) PROVE f[n + i] = h[i]
    OBVIOUS
  <2>1. n + i \in 1..(n + k + 1) /\ ~(n + i <= n) /\ n + i - n = i
    OBVIOUS
  <2> QED
    BY <1>8, <2>1
<1>11. \A i \in 1..(n + k) : i \in 1..n \/ \E j \in 1..k : i = n + j
  <2> SUFFICES ASSUME NEW i \in 1..(n + k), i \notin 1..n PROVE \E j \in 1..k : i = n + j
    OBVIOUS
  <2>1. i - n \in 1..k /\ i = n + (i - n)
    OBVIOUS
  <2> QED
    BY <2>1
<1>12. f \in [1..(n + k + 1) -> SUBSET Keys]
  <2>1. ASSUME NEW i \in 1..(n + k + 1) PROVE f[i] \in SUBSET Keys
    <3>1. CASE i <= n
      <4>1. i \in 1..(n + 1)
        BY <3>1
      <4> QED
        BY <1>6, <1>9, <4>1
    <3>2. CASE ~(i <= n)
      <4>1. i - n \in 1..(k + 1) /\ n + (i - n) = i
        BY <3>2
      <4> QED
        BY <1>7, <1>10, <4>1
    <3> QED
      BY <3>1, <3>2
  <2> QED
    BY <1>8, <2>1
<1>13. ASSUME NEW i \in 1..(n + k)
       PROVE  /\ Leads(f[i], q[i], f[i+1])
              /\ q[i].type = "filter" => i < n + k /\ q[i+1].type = "snapshot"
  <2>1. CASE i \in 1..n
    <3>1. i \in 1..(n + 1) /\ i + 1 \in 1..(n + 1)
      BY <2>1
    <3>2. Leads(f[i], q[i], f[i+1])
      BY <1>3, <1>6, <1>9, <2>1, <3>1
    <3>3. ASSUME q[i].type = "filter" PROVE i < n + k /\ q[i+1].type = "snapshot"
      <4>1. i < n /\ r[i+1].type = "snapshot"
        BY <1>3, <1>6, <2>1, <3>3
      <4>2. i < n + k /\ i + 1 \in 1..n
        BY <2>1, <4>1
      <4> QED
        BY <1>3, <4>1, <4>2
    <3> QED
      BY <3>2, <3>3
  <2>2. ASSUME NEW j \in 1..k, i = n + j
        PROVE  /\ Leads(f[i], q[i], f[i+1])
               /\ q[i].type = "filter" => i < n + k /\ q[i+1].type = "snapshot"
    <3>1. j \in 1..(k + 1) /\ j + 1 \in 1..(k + 1) /\ i + 1 = n + (j + 1)
      BY <2>2
    <3>2. f[i] = h[j] /\ f[i+1] = h[j+1] /\ q[i] = s[j]
      BY <1>3, <1>10, <2>2, <3>1
    <3>3. ASSUME q[i].type = "filter" PROVE i < n + k /\ q[i+1].type = "snapshot"
      <4>1. j < k /\ s[j+1].type = "snapshot"
        BY <1>7, <3>2, <3>3
      <4>2. i < n + k /\ j + 1 \in 1..k
        BY <2>2, <4>1
      <4> QED
        BY <1>3, <3>1, <4>1, <4>2
    <3> QED
      BY <1>7, <3>2, <3>3
  <2> QED
    BY <1>11, <2>1, <2>2
<1>14. Along(f, q)
  BY <1>3, <1>12, <1>13 DEF Along
<1>15. f[1] = a /\ f[n + k + 1] = c
  <2>1. 1 \in 1..(n + 1) /\ k + 1 \in 1..(k + 1) /\ n + (k + 1) = n + k + 1
    OBVIOUS
  <2> QED
    BY <1>4, <1>5, <1>9, <1>10, <2>1
<1> QED
  BY <1>2, <1>3, <1>14, <1>15 DEF Course

LEMMA CourseQuiet ==
  ASSUME NEW r \in Seq(Quiet), NEW s \in Seq(Quiet), NEW a, NEW b, NEW c,
         Course(r, a, b), Course(s, b, c)
  PROVE  r \o s \in Seq(Quiet) /\ Course(r \o s, a, c)
<1>1. r \in Seq(Msg) /\ s \in Seq(Msg)
  BY DEF Quiet
<1>2. r \o s \in Seq(Quiet)
  BY ConcatProperties, Zenon
<1> QED
  BY <1>1, <1>2, CourseConcat

LEMMA PairIs ==
  ASSUME NEW S, NEW f \in S, NEW m \in S
  PROVE  /\ <<f, m>> \in Seq(S) /\ Len(<<f, m>>) = 2 /\ <<f, m>>[1] = f /\ <<f, m>>[2] = m
         /\ <<f>> \in Seq(S) /\ <<m>> \in Seq(S)
         /\ <<f>> \o <<m>> = <<f, m>>
<1>1. <<f, m>> \in Seq(S) /\ Len(<<f, m>>) = 2 /\ <<f, m>>[1] = f /\ <<f, m>>[2] = m
  OBVIOUS
<1>2. <<f>> \in Seq(S) /\ <<m>> \in Seq(S)
  OBVIOUS
<1>3. <<f>> \o <<m>> = <<f, m>>
  <2>1. PICK p \in Seq(S), q \in Seq(S), t \in Seq(S) : p = <<f>> /\ q = <<m>> /\ t = <<f, m>>
    BY <1>1, <1>2
  <2>2. /\ Len(p) = 1 /\ p[1] = f /\ Len(q) = 1 /\ q[1] = m
        /\ Len(t) = 2 /\ t[1] = f /\ t[2] = m
    BY <1>1, <2>1
  <2>3. PICK c \in Seq(S) : c = p \o q
    BY ConcatProperties
  <2>4. Len(c) = 2 /\ c[1] = f /\ c[2] = m
    <3>1. /\ Len(c) = Len(p) + Len(q)
          /\ \A i \in 1..Len(p) + Len(q) : c[i] = IF i <= Len(p) THEN p[i] ELSE q[i - Len(p)]
      BY <2>3, ConcatProperties
    <3>2. Len(c) = 2 /\ \A i \in 1..2 : c[i] = IF i <= 1 THEN p[i] ELSE q[i - 1]
      BY <2>2, <3>1
    <3>3. 1 \in 1..2 /\ 2 \in 1..2 /\ 2 - 1 = 1 /\ ~(2 <= 1)
      OBVIOUS
    <3> QED
      BY <2>2, <3>2, <3>3
  <2>5. \A i \in 1..2 : i = 1 \/ i = 2
    OBVIOUS
  <2>6. c = t
    BY <2>2, <2>4, <2>5, SeqEqual
  <2> QED
    BY <2>1, <2>3, <2>6
<1> QED
  BY <1>1, <1>2, <1>3

\* The first message of a course, and the rest of it.
LEMMA CourseRead ==
  ASSUME NEW ms \in Seq(Msg), ms # <<>>, NEW a, NEW b, Course(ms, a, b)
  PROVE  /\ \E c \in SUBSET Keys : Leads(a, Head(ms), c) /\ Course(Tail(ms), c, b)
         /\ Head(ms).type = "filter" => Tail(ms) # <<>> /\ Head(Tail(ms)).type = "snapshot"
<1>1. PICK n \in Nat : Len(ms) = n + 1
  <2>1. Len(ms) - 1 \in Nat /\ Len(ms) = Len(ms) - 1 + 1
    OBVIOUS
  <2> QED
    BY <2>1
<1>2. PICK q \in Seq(Msg) : q = Tail(ms)
  <2>1. Tail(ms) \in Seq(Msg)
    OBVIOUS
  <2> QED
    BY <2>1
<1>3. /\ Head(ms) = ms[1] /\ Len(q) = n
      /\ \A i \in 1..n : q[i] = ms[i+1]
  BY <1>1, <1>2
<1>4. PICK g : Along(g, ms) /\ g[1] = a /\ g[n + 1 + 1] = b
  BY <1>1 DEF Course
<1>5. /\ g \in [1..(n + 1 + 1) -> SUBSET Keys]
      /\ \A i \in 1..(n + 1) : Leads(g[i], ms[i], g[i+1])
      /\ \A i \in 1..(n + 1) : ms[i].type = "filter" => i < n + 1 /\ ms[i+1].type = "snapshot"
  BY <1>1, <1>4 DEF Along
<1>6. PICK h : h = [i \in 1..(n + 1) |-> g[i+1]]
  OBVIOUS
<1>7. \A i \in 1..(n + 1) : i + 1 \in 1..(n + 1 + 1) /\ h[i] = g[i+1]
  BY <1>6
<1>8. h \in [1..(n + 1) -> SUBSET Keys]
  BY <1>5, <1>6, <1>7
<1>9. ASSUME NEW i \in 1..n
      PROVE  /\ Leads(h[i], q[i], h[i+1])
             /\ q[i].type = "filter" => i < n /\ q[i+1].type = "snapshot"
  <2>1. i \in 1..(n + 1) /\ i + 1 \in 1..(n + 1)
    OBVIOUS
  <2>2. Leads(h[i], q[i], h[i+1])
    BY <1>3, <1>5, <1>7, <2>1
  <2>3. ASSUME q[i].type = "filter" PROVE i < n /\ q[i+1].type = "snapshot"
    <3>1. i + 1 < n + 1 /\ ms[i + 1 + 1].type = "snapshot"
      BY <1>3, <1>5, <2>1, <2>3
    <3>2. i < n /\ i + 1 \in 1..n
      BY <3>1
    <3> QED
      BY <1>3, <3>1, <3>2
  <2> QED
    BY <2>2, <2>3
<1>10. Along(h, q)
  BY <1>3, <1>8, <1>9 DEF Along
<1>11. h[1] = g[2] /\ h[n + 1] = b /\ g[2] \in SUBSET Keys /\ Leads(a, Head(ms), g[2])
  <2>1. 1 \in 1..(n + 1) /\ n + 1 \in 1..(n + 1) /\ 2 \in 1..(n + 1 + 1) /\ 1 + 1 = 2
    OBVIOUS
  <2> QED
    BY <1>3, <1>4, <1>5, <1>7, <2>1
<1>12. Course(q, g[2], b)
  BY <1>3, <1>10, <1>11 DEF Course
<1>13. ASSUME Head(ms).type = "filter" PROVE q # <<>> /\ Head(q).type = "snapshot"
  <2>1. 1 < n + 1 /\ ms[1 + 1].type = "snapshot"
    BY <1>3, <1>5, <1>13
  <2>2. 1 \in 1..n /\ q # <<>> /\ Head(q) = q[1]
    BY <1>2, <1>3, <2>1
  <2> QED
    BY <1>3, <2>1, <2>2
<1> QED
  BY <1>2, <1>11, <1>12, <1>13

LEMMA CourseShort ==
  ASSUME NEW ms \in Seq(Msg), NEW a \in SUBSET Keys, NEW b \in SUBSET Keys, NEW c \in SUBSET Keys,
         \A i \in 1..Len(ms) : ms[i].type # "filter"
  PROVE  /\ Len(ms) = 1 /\ Leads(a, ms[1], b) => Course(ms, a, b)
         /\ Len(ms) = 2 /\ Leads(a, ms[1], b) /\ Leads(b, ms[2], c) => Course(ms, a, c)
<1>1. ASSUME Len(ms) = 1, Leads(a, ms[1], b) PROVE Course(ms, a, b)
  <2>1. PICK g : g = [i \in 1..2 |-> IF i = 1 THEN a ELSE b]
    OBVIOUS
  <2>2. g[1] = a /\ g[2] = b /\ g \in [1..(1 + 1) -> SUBSET Keys]
    BY <2>1
  <2>3. Along(g, ms)
    BY <1>1, <2>2 DEF Along
  <2> QED
    BY <1>1, <2>2, <2>3 DEF Course
<1>2. ASSUME Len(ms) = 2, Leads(a, ms[1], b), Leads(b, ms[2], c) PROVE Course(ms, a, c)
  <2>1. PICK g : g = [i \in 1..3 |-> IF i = 1 THEN a ELSE IF i = 2 THEN b ELSE c]
    OBVIOUS
  <2>2. g[1] = a /\ g[2] = b /\ g[3] = c /\ g \in [1..(2 + 1) -> SUBSET Keys]
    BY <2>1
  <2>3. \A i \in 1..2 : Leads(g[i], ms[i], g[i+1])
    <3>1. \A i \in 1..2 : i = 1 \/ i = 2
      OBVIOUS
    <3> QED
      BY <1>2, <2>2, <3>1
  <2>4. Along(g, ms)
    BY <1>2, <2>2, <2>3 DEF Along
  <2> QED
    BY <1>2, <2>2, <2>4 DEF Course
<1> QED
  BY <1>1, <1>2

LEMMA DocumentIs ==
  ASSUME NEW type \in {"doc", "gone"}, NEW k \in Keys
  PROVE  Document(type, k) \in Msg /\ Document(type, k).type = type /\ Document(type, k).keys = {k}
BY DEF Document, Message, Msg, QuietTypes

\* A burst of documents, in whatever order it comes.
LEMMA CourseDocuments ==
  ASSUME NEW type \in {"doc", "gone"}, NEW ks \in SUBSET Keys, NEW a \in SUBSET Keys
  PROVE  Course(Documents(type, ks), a, IF type = "doc" THEN a \cup ks ELSE a \ ks)
<1>1. PICK S : S = { Document(type, k) : k \in ks }
  OBVIOUS
<1>2. IsFiniteSet(S)
  <2>1. PICK f : f = [k \in ks |-> Document(type, k)]
    OBVIOUS
  <2>2. IsFiniteSet(ks)
    BY WatchAssumption, FS_Subset
  <2>3. f \in Surjection(ks, S)
    BY <1>1, <2>1 DEF Surjection
  <2> QED
    BY <2>2, <2>3, FS_Surjection
<1>3. PICK n \in Nat : n = Cardinality(S)
  BY <1>2, FS_CardinalityType
<1>4. PICK s : s = Documents(type, ks) /\ s \in [1..n -> S] /\ IsInjective(s)
  <2>1. \E f \in [1..n -> S] : IsInjective(f)
    BY <1>2, <1>3, FS_CardinalityType DEF ExistsBijection, Bijection, Injection
  <2>2. SetToSeq(S) \in [1..n -> S] /\ IsInjective(SetToSeq(S))
    BY <1>3, <2>1 DEF SetToSeq
  <2>3. Documents(type, ks) = SetToSeq(S)
    BY <1>1 DEF Documents
  <2> QED
    BY <2>2, <2>3
<1>5. s \in Surjection(1..n, S)
  <2>1. Cardinality(1..n) = n
    <3>1. Cardinality(1..n) = IF 1 > n THEN 0 ELSE n - 1 + 1
      BY FS_Interval
    <3>2. (IF 1 > n THEN 0 ELSE n - 1 + 1) = n
      OBVIOUS
    <3> QED
      BY <3>1, <3>2
  <2>2. s \in Injection(1..n, S)
    BY <1>4 DEF Injection
  <2> QED
    BY <1>2, <1>3, <2>1, <2>2, FS_Injection
<1>6. Len(s) = n /\ s \in Seq(Msg)
  <2>1. s \in Seq(S) /\ Len(s) = n
    BY <1>4
  <2>2. S \subseteq Msg
    BY <1>1, DocumentIs
  <2> QED
    BY <2>1, <2>2
<1>7. ASSUME NEW i \in 1..n PROVE \E k \in ks : s[i] = Document(type, k) /\ s[i].type = type /\ s[i].keys = {k}
  <2>1. s[i] \in S
    BY <1>4
  <2>2. PICK k \in ks : s[i] = Document(type, k)
    BY <1>1, <2>1
  <2> QED
    BY <2>2, DocumentIs
<1>8. ASSUME NEW k \in ks PROVE \E i \in 1..n : s[i].keys = {k}
  <2>1. PICK i \in 1..n : s[i] = Document(type, k)
    BY <1>1, <1>5 DEF Surjection
  <2> QED
    BY <2>1, DocumentIs
<1> DEFINE Named(i) == { k \in ks : \E j \in 1..(i - 1) : s[j].keys = {k} }
<1>9. Named(1) = {} /\ Named(n + 1) = ks
  <2>1. 1..(1 - 1) = {} /\ 1..(n + 1 - 1) = 1..n
    OBVIOUS
  <2> QED
    BY <1>8, <2>1
<1>10. ASSUME NEW i \in 1..n PROVE Named(i + 1) = Named(i) \cup s[i].keys
  <2>1. 1..(i + 1 - 1) = 1..(i - 1) \cup {i}
    OBVIOUS
  <2>2. PICK k \in ks : s[i].keys = {k}
    BY <1>7
  <2>3. \A j \in ks : s[i].keys = {j} <=> j = k
    BY <2>2
  <2> QED
    BY <2>1, <2>2, <2>3
<1>11. \A i : Named(i) \subseteq Keys
  OBVIOUS
<1> HIDE DEF Named
<1>12. PICK g : g = [i \in 1..(n + 1) |-> IF type = "doc" THEN a \cup Named(i) ELSE a \ Named(i)]
  OBVIOUS
<1>13. g \in [1..(n + 1) -> SUBSET Keys]
  BY <1>11, <1>12
<1>14. ASSUME NEW i \in 1..n PROVE Leads(g[i], s[i], g[i+1]) /\ s[i].type # "filter"
  <2>1. PICK k \in ks : s[i].type = type /\ s[i].keys = {k}
    BY <1>7
  <2>2. i \in 1..(n + 1) /\ i + 1 \in 1..(n + 1)
    OBVIOUS
  <2>3. Named(i + 1) = Named(i) \cup {k}
    BY <1>10, <2>1
  <2>4. CASE type = "doc"
    <3>1. g[i] = a \cup Named(i) /\ g[i+1] = a \cup Named(i + 1)
      BY <1>12, <2>2, <2>4
    <3>2. g[i+1] = g[i] \cup {k}
      BY <2>3, <3>1
    <3> QED
      BY <2>1, <2>4, <3>2 DEF Leads
  <2>5. CASE type = "gone"
    <3>1. g[i] = a \ Named(i) /\ g[i+1] = a \ Named(i + 1)
      BY <1>12, <2>2, <2>5
    <3>2. g[i+1] = g[i] \ {k}
      BY <2>3, <3>1
    <3> QED
      BY <2>1, <2>5, <3>2 DEF Leads
  <2> QED
    BY <2>4, <2>5
<1>15. Along(g, s)
  BY <1>6, <1>13, <1>14 DEF Along
<1>16. g[1] = a /\ g[n + 1] = IF type = "doc" THEN a \cup ks ELSE a \ ks
  <2>1. 1 \in 1..(n + 1) /\ n + 1 \in 1..(n + 1)
    OBVIOUS
  <2> QED
    BY <1>9, <1>12, <2>1
<1> QED
  BY <1>4, <1>6, <1>15, <1>16 DEF Course

\* An answer to a listen, and what follows it.
Answering(rs, a, b) == Opens(rs) /\ Course(Tail(rs), a, b)

LEMMA AnsweringOn ==
  ASSUME NEW rs, NEW a, NEW b, NEW c, Answering(rs, a, b), NEW qs \in Seq(Quiet), Course(qs, b, c)
  PROVE  Answering(rs \o qs, a, c) /\ (rs \o qs)[1] = rs[1]
<1>1. /\ Opens(rs) /\ rs \in Seq(Msg) /\ rs # <<>> /\ Course(Tail(rs), a, b)
      /\ qs \in Seq(Msg) /\ Tail(rs) \in Seq(Msg)
  <2>1. rs \in Seq(Msg) /\ rs # <<>>
    BY DEF Answering, Opens
  <2> QED
    BY <2>1, Quiet \subseteq Msg DEF Answering, Quiet
<1>2. Opens(rs \o qs) /\ (rs \o qs)[1] = rs[1]
  BY <1>1, OpensQuietly
<1>3. Tail(rs \o qs) = Tail(rs) \o qs
  BY <1>1
<1>4. Course(Tail(rs) \o qs, a, c)
  BY <1>1, CourseConcat
<1> QED
  BY <1>2, <1>3, <1>4 DEF Answering

LEMMA AnsweringAlone ==
  ASSUME NEW a \in SUBSET Keys
  PROVE  Answering(<<Message("added")>>, a, a) /\ <<Message("added")>>[1].type = "added"
<1>1. Opens(<<Message("added")>>)
  BY OpensAlone DEF AnswerTypes
<1>2. Tail(<<Message("added")>>) = <<>>
  OBVIOUS
<1> QED
  BY <1>1, <1>2, CourseEmpty DEF Answering, Message

LEMMA SayingIs ==
  ASSUME NEW docs \in SUBSET Keys
  PROVE  /\ Message("current") \in Msg /\ Message("current").type = "current"
         /\ Message("reset") \in Msg /\ Message("reset").type = "reset"
         /\ Snapshot(docs) \in Msg /\ Snapshot(docs).type = "snapshot" /\ Snapshot(docs).keys = docs
         /\ Filter(Cardinality(docs)) \in Msg /\ Filter(Cardinality(docs)).type = "filter"
         /\ Filter(Cardinality(docs)).count = Cardinality(docs)
<1>1. Cardinality(docs) \in Nat
  BY WatchAssumption, FS_Subset, FS_CardinalityType
<1> QED
  BY <1>1 DEF Message, Snapshot, Filter, Msg, QuietTypes

LEMMA CourseSaid ==
  ASSUME NEW docs \in SUBSET Keys, NEW a \in SUBSET Keys
  PROVE  /\ Course(<<Message("current")>>, a, a)
         /\ Course(<<Message("reset")>>, a, {})
         /\ Course(<<Snapshot(docs)>>, docs, docs)
<1>1. Leads(a, Message("current"), a) /\ Leads(a, Message("reset"), {}) /\ Leads(docs, Snapshot(docs), docs)
  BY SayingIs DEF Leads
<1> QED
  BY <1>1, SayingIs, CourseOne

\* A listen is answered from its token on; a deletion that is left out shows
\* in the count.
LEMMA ListenServed ==
  ASSUME IInv, ServeListen
  PROVE  \E rs : /\ Answering(rs, Head(requests).from, present) /\ rs[1].type = "added"
                 /\ messages' = messages \o rs
<1>1. present \in SUBSET Keys /\ Head(requests).from \in SUBSET Keys
  <2>1. requests # <<>> /\ requests \in Seq(Request)
    BY DEF IInv, TypeInv, ServeListen
  <2>2. Head(requests) \in Request
    BY <2>1
  <2> QED
    BY <2>2 DEF IInv, TypeInv, Request
<1>2. PICK from \in SUBSET Keys, lost \in SUBSET Keys : from = Head(requests).from /\ lost = from \ present
  BY <1>1
<1>3. PICK untold \in SUBSET lost :
        Sends(<<Message("added")>> \o Documents("doc", present \ Head(requests).from)
                \o Documents("gone", lost \ untold)
                \o <<Message("current")>>
                \o (IF untold = {} THEN <<>> ELSE <<Filter(Cardinality(present))>>)
                \o <<Snapshot(present)>>)
  BY <1>2 DEF ServeListen
<1>4. PICK d1 \in Seq(Quiet) : d1 = Documents("doc", present \ from) /\ Course(d1, from, from \cup (present \ from))
  <2>1. present \ from \in SUBSET Keys
    BY <1>1
  <2> QED
    BY <2>1, DocumentsQuiet, CourseDocuments
<1>5. PICK b \in SUBSET Keys : b = from \cup (present \ from)
  BY <1>1
<1>6. PICK c \in SUBSET Keys : c = b \ (lost \ untold)
  OBVIOUS
<1>7. PICK d2 \in Seq(Quiet) : d2 = Documents("gone", lost \ untold) /\ Course(d2, b, c)
  <2>1. lost \ untold \in SUBSET Keys
    BY <1>2
  <2> QED
    BY <1>6, <2>1, DocumentsQuiet, CourseDocuments
<1>8. c = present \cup untold
  BY <1>2, <1>5, <1>6
<1>9. PICK r4 : /\ r4 = <<Message("added")>> \o d1 \o d2 \o <<Message("current")>>
                /\ Answering(r4, from, c) /\ r4[1].type = "added"
  <2>1. PICK r1 : r1 = <<Message("added")>> /\ Answering(r1, from, from) /\ r1[1].type = "added"
    BY AnsweringAlone
  <2>2. PICK r2 : r2 = r1 \o d1 /\ Answering(r2, from, b) /\ r2[1].type = "added"
    BY <1>4, <1>5, <2>1, AnsweringOn
  <2>3. PICK r3 : r3 = r2 \o d2 /\ Answering(r3, from, c) /\ r3[1].type = "added"
    <3>1. Course(d2, b, c) /\ Answering(r2, from, b)
      BY <1>7, <2>2
    <3>2. Answering(r2 \o d2, from, c) /\ (r2 \o d2)[1] = r2[1]
      BY <3>1, AnsweringOn
    <3> QED
      BY <2>2, <3>2
  <2>4. PICK q \in Seq(Quiet) : q = <<Message("current")>> /\ Course(q, c, c)
    BY <1>1, AloneQuiet, CourseSaid
  <2>5. Answering(r3 \o q, from, c) /\ (r3 \o q)[1].type = "added"
    BY <2>3, <2>4, AnsweringOn
  <2> QED
    BY <2>1, <2>2, <2>3, <2>4, <2>5
<1>10. PICK q : q = IF untold = {} THEN <<>> ELSE <<Filter(Cardinality(present))>>
  OBVIOUS
<1>11. messages' = messages \o (r4 \o q \o <<Snapshot(present)>>)
  BY <1>2, <1>3, <1>4, <1>7, <1>9, <1>10 DEF Sends
<1>12. r4 \in Seq(Msg)
  BY <1>9 DEF Answering, Opens
<1>13. CASE untold = {}
  <2>1. r4 \o q = r4 /\ c = present
    BY <1>8, <1>10, <1>12, <1>13
  <2>2. PICK w \in Seq(Quiet) : w = <<Snapshot(present)>> /\ Course(w, present, present)
    BY <1>1, AloneQuiet, CourseSaid
  <2>3. Answering(r4 \o w, from, present) /\ (r4 \o w)[1].type = "added"
    BY <1>9, <2>1, <2>2, AnsweringOn
  <2> QED
    BY <1>2, <1>11, <2>1, <2>2, <2>3
<1>14. CASE untold # {}
  <2>1. PICK f, m : /\ f = Filter(Cardinality(present)) /\ m = Snapshot(present)
                    /\ f \in Msg /\ f.type = "filter" /\ f.count = Cardinality(present)
                    /\ m \in Msg /\ m.type = "snapshot" /\ m.keys = present
    BY <1>1, SayingIs
  <2>2. PICK w \in Seq(Quiet) : w = <<f, m>>
    <3>1. f \in Quiet /\ m \in Quiet
      BY <2>1 DEF Quiet, QuietTypes
    <3>2. <<f, m>> \in Seq(Quiet)
      BY <3>1, PairIs
    <3> QED
      BY <3>2
  <2>3. r4 \o q \o <<Snapshot(present)>> = r4 \o w
    <3>1. q = <<f>> /\ <<Snapshot(present)>> = <<m>>
      BY <1>10, <1>14, <2>1
    <3>2. <<f>> \in Seq(Msg) /\ <<m>> \in Seq(Msg) /\ <<f>> \o <<m>> = <<f, m>>
      BY <2>1, PairIs
    <3>3. r4 \o <<f>> \o <<m>> = r4 \o (<<f>> \o <<m>>)
      BY <1>12, <3>2, ConcatAssociative
    <3> QED
      BY <2>2, <3>1, <3>2, <3>3
  <2>4. Cardinality(c) # Cardinality(present)
    <3>1. IsFiniteSet(c) /\ present \subseteq c
      BY <1>8, WatchAssumption, FS_Subset
    <3>2. present # c
      BY <1>2, <1>8, <1>14
    <3> QED
      BY <3>1, <3>2, FS_Subset
  <2>5. Course(w, c, present)
    BY <2>1, <2>2, <2>4, CourseCount
  <2>6. Answering(r4 \o w, from, present) /\ (r4 \o w)[1].type = "added"
    BY <1>9, <2>2, <2>5, AnsweringOn
  <2> QED
    BY <1>2, <1>11, <2>3, <2>6
<1> QED
  BY <1>13, <1>14

\* What is sent when the collection changes leads from the documents before
\* to those after.
LEMMA ChangesTold ==
  ASSUME IInv, CollectionChanges
  PROVE  /\ ~serving => messages' = messages
         /\ serving => \E rs \in Seq(Quiet) : messages' = messages \o rs /\ Course(rs, present, present')
<1>0. present \in SUBSET Keys /\ messages \in Seq(Msg)
  BY DEF IInv, TypeInv
<1>1. PICK k \in Keys : \E change \in Changes :
        /\ Head(change) = "gone" => k \in present
        /\ present' = IF Last(change) = "doc" THEN present \cup {k} ELSE present \ {k}
        /\ Sends(IF serving
                 THEN [i \in DOMAIN change |-> Document(change[i], k)] \o <<Snapshot(present')>>
                 ELSE <<>>)
  BY DEF CollectionChanges
<1>2. PICK change \in Changes :
        /\ present' = IF Last(change) = "doc" THEN present \cup {k} ELSE present \ {k}
        /\ Sends(IF serving
                 THEN [i \in DOMAIN change |-> Document(change[i], k)] \o <<Snapshot(present')>>
                 ELSE <<>>)
  BY <1>1
<1>3. CASE ~serving
  BY <1>0, <1>2, <1>3 DEF Sends
<1>4. CASE serving
  <2>1. PICK after \in SUBSET Keys : after = present'
    BY <1>0, <1>2
  <2>2. PICK w : w = [i \in DOMAIN change |-> Document(change[i], k)]
    OBVIOUS
  <2>3. /\ w \in Seq(Quiet) /\ Course(w, present, after)
    <3>1. CASE \E x \in {"doc", "gone"} : change = <<x>>
      <4>1. PICK x \in {"doc", "gone"} : change = <<x>>
        BY <3>1
      <4>2. DOMAIN change = 1..1 /\ change[1] = x /\ Last(change) = x
        BY <4>1 DEF Last
      <4>3. PICK d : /\ d = Document(x, k) /\ d \in Msg /\ d \in Quiet
                     /\ d.type = x /\ d.keys = {k}
        BY DocumentIs DEF Quiet, QuietTypes
      <4>4. w \in [1..1 -> Quiet] /\ w[1] = d
        BY <2>2, <4>2, <4>3
      <4>5. w \in Seq(Quiet) /\ w \in Seq(Msg) /\ Len(w) = 1 /\ \A i \in 1..Len(w) : w[i] = d
        <5>1. w \in Seq(Quiet) /\ Len(w) = 1
          BY <4>4
        <5> QED
          BY <4>4, <5>1, Quiet \subseteq Msg DEF Quiet
      <4>6. Leads(present, d, after)
        BY <1>2, <2>1, <4>2, <4>3 DEF Leads
      <4> QED
        BY <1>0, <4>3, <4>5, <4>6, CourseShort
    <3>2. CASE \E x, y \in {"doc", "gone"} : change = <<x, y>>
      <4>1. PICK x \in {"doc", "gone"}, y \in {"doc", "gone"} : change = <<x, y>>
        BY <3>2
      <4>2. DOMAIN change = 1..2 /\ change[1] = x /\ change[2] = y /\ Last(change) = y
        BY <4>1 DEF Last
      <4>3. PICK d, e : /\ d = Document(x, k) /\ d \in Msg /\ d \in Quiet /\ d.type = x /\ d.keys = {k}
                        /\ e = Document(y, k) /\ e \in Msg /\ e \in Quiet /\ e.type = y /\ e.keys = {k}
        BY DocumentIs DEF Quiet, QuietTypes
      <4>4. w \in [1..2 -> Quiet] /\ w[1] = d /\ w[2] = e
        <5>1. \A i \in 1..2 : i = 1 \/ i = 2
          OBVIOUS
        <5> QED
          BY <2>2, <4>2, <4>3, <5>1
      <4>5. w \in Seq(Quiet) /\ w \in Seq(Msg) /\ Len(w) = 2 /\ \A i \in 1..Len(w) : w[i] \in {d, e}
        <5>1. w = <<d, e>>
          BY <4>4
        <5>2. w \in Seq(Quiet) /\ w \in Seq(Msg) /\ Len(w) = 2
          BY <4>3, <5>1, PairIs
        <5>3. \A i \in 1..2 : i = 1 \/ i = 2
          OBVIOUS
        <5> QED
          BY <4>4, <5>2, <5>3
      <4>6. PICK b \in SUBSET Keys : b = IF x = "doc" THEN present \cup {k} ELSE present \ {k}
        BY <1>0
      <4>7. Leads(present, d, b) /\ Leads(b, e, after)
        BY <1>2, <2>1, <4>2, <4>3, <4>6 DEF Leads
      <4> QED
        BY <1>0, <4>3, <4>4, <4>5, <4>7, CourseShort
    <3> QED
      BY <3>1, <3>2 DEF Changes
  <2>4. PICK q \in Seq(Quiet) : q = <<Snapshot(after)>> /\ Course(q, after, after)
    BY AloneQuiet, CourseSaid
  <2>5. w \o q \in Seq(Quiet)
    BY <2>3, <2>4, ConcatProperties, Zenon
  <2>6. Course(w \o q, present, after)
    BY <2>3, <2>4, CourseQuiet
  <2>7. messages' = messages \o (w \o q)
    BY <1>2, <1>4, <2>1, <2>2, <2>4 DEF Sends
  <2> QED
    BY <1>4, <2>1, <2>5, <2>6, <2>7
<1> QED
  BY <1>3, <1>4

\* A target started over is brought up to the collection from nothing.
LEMMA ResetsTold ==
  ASSUME IInv, ServerResets
  PROVE  \E rs \in Seq(Quiet) : messages' = messages \o rs /\ Course(rs, present, present)
<1>1. present \in SUBSET Keys
  BY DEF IInv, TypeInv
<1>2. PICK r \in Seq(Quiet) : r = <<Message("reset")>> /\ Course(r, present, {})
  BY <1>1, AloneQuiet, CourseSaid
<1>3. PICK d \in Seq(Quiet) : d = Documents("doc", present) /\ Course(d, {}, present)
  BY <1>1, DocumentsQuiet, CourseDocuments
<1>4. PICK c : c = <<Message("current"), Snapshot(present)>>
  OBVIOUS
<1>5. c \in Seq(Quiet) /\ Course(c, present, present)
  <2>1. c \in Seq(Quiet)
    BY <1>1, <1>4, AloneQuiet
  <2>2. PICK m, s : /\ m = Message("current") /\ s = Snapshot(present) /\ m \in Msg /\ s \in Msg
                    /\ m.type = "current" /\ s.type = "snapshot"
                    /\ Leads(present, m, present) /\ Leads(present, s, present)
    BY <1>1, SayingIs DEF Leads
  <2>3. c \in Seq(Msg) /\ Len(c) = 2 /\ c[1] = m /\ c[2] = s
    BY <1>4, <2>2
  <2>4. \A i \in 1..Len(c) : c[i].type # "filter"
    <3>1. \A i \in 1..2 : i = 1 \/ i = 2
      OBVIOUS
    <3> QED
      BY <2>2, <2>3, <3>1
  <2> QED
    BY <1>1, <2>1, <2>2, <2>3, <2>4, CourseShort
<1>6. r \o d \in Seq(Quiet) /\ r \o d \o c \in Seq(Quiet)
  BY <1>5, ConcatProperties, Zenon
<1>7. Course(r \o d, present, present)
  BY <1>2, <1>3, CourseQuiet
<1>8. Course(r \o d \o c, present, present)
  BY <1>5, <1>6, <1>7, CourseQuiet
<1>9. messages' = messages \o (r \o d \o c)
  BY <1>2, <1>3, <1>4 DEF ServerResets, Sends
<1> QED
  BY <1>6, <1>8, <1>9

-----------------------------------------------------------------------------
(* What the view would show at a snapshot.                                 *)

Shown(docs, s) == (docs \cup Kind(s, "added")) \ Kind(s, "removed")

\* Changes are relative to the documents of the last snapshot.
Relative(docs, s) == Kind(s, "added") \cap docs = {} /\ Kind(s, "removed") \subseteq docs

Kinds == {"added", "modified", "removed"}

LEMMA KindsIn ==
  ASSUME NEW s \in Entry, NEW h
  PROVE  Kind(s, h) \in SUBSET Keys
<1>1. PICK ks \in SUBSET Keys : s.changes \in [ks -> Kinds]
  BY DEF Entry, ChangeMaps, Kinds
<1> QED
  BY <1>1 DEF Kind

LEMMA KindsChanged ==
  ASSUME NEW s \in Entry, NEW k \in Keys, NEW how \in Kinds, NEW h \in Kinds
  PROVE  Kind(Changed(s, k, how), h) = (Kind(s, h) \ {k}) \cup (IF h = how THEN {k} ELSE {})
<1>1. PICK c : c = [j \in DOMAIN s.changes \cup {k} |-> IF j = k THEN how ELSE s.changes[j]]
  OBVIOUS
<1>2. Changed(s, k, how) = [s EXCEPT !.changes = c]
  BY <1>1 DEF Changed
<1>3. Changed(s, k, how).changes = c
  BY <1>2 DEF Entry
<1> QED
  BY <1>1, <1>3 DEF Kind

LEMMA KindsForgotten ==
  ASSUME NEW s \in Entry, NEW k \in Keys, NEW h \in Kinds
  PROVE  Kind(Forgotten(s, k), h) = Kind(s, h) \ {k}
<1>1. PICK c : c = [j \in DOMAIN s.changes \ {k} |-> s.changes[j]]
  OBVIOUS
<1>2. Forgotten(s, k) = [s EXCEPT !.changes = c]
  BY <1>1 DEF Forgotten
<1>3. Forgotten(s, k).changes = c
  BY <1>2 DEF Entry
<1> QED
  BY <1>1, <1>3 DEF Kind

LEMMA KindsReset ==
  Kind(ResetState, "added") = {} /\ Kind(ResetState, "removed") = synced
<1>1. PICK c : c = [k \in synced |-> "removed"]
  OBVIOUS
<1>2. ResetState.changes = c
  BY <1>1 DEF ResetState, NewState
<1> QED
  BY <1>1, <1>2 DEF Kind

LEMMA KindsCleared ==
  ASSUME NEW s, s.changes = <<>>, NEW h
  PROVE  Kind(s, h) = {}
BY DEF Kind

\* The count of a view is of what it would show.
LEMMA CountIs ==
  ASSUME TypeInv, Relative(synced, state)
  PROVE  CurrentCount(state) = Cardinality(Shown(synced, state))
<1>1. PICK a \in SUBSET Keys, r \in SUBSET Keys : a = Kind(state, "added") /\ r = Kind(state, "removed")
  BY KindsIn DEF TypeInv
<1>2. IsFiniteSet(synced) /\ IsFiniteSet(a) /\ IsFiniteSet(r) /\ synced \in SUBSET Keys
  BY WatchAssumption, FS_Subset DEF TypeInv
<1>3. a \cap synced = {} /\ r \subseteq synced
  BY <1>1 DEF Relative
<1>4. PICK u : u = synced \cup a /\ IsFiniteSet(u) /\ Cardinality(u) = Cardinality(synced) + Cardinality(a)
  <2>1. PICK both : both = synced \cap a /\ both = {}
    BY <1>3
  <2>2. Cardinality(both) = 0
    BY <2>1, FS_EmptySet
  <2>3. Cardinality(synced) \in Nat /\ Cardinality(a) \in Nat
    BY <1>2, FS_CardinalityType
  <2>4. IsFiniteSet(synced \cup a)
        /\ Cardinality(synced \cup a) = Cardinality(synced) + Cardinality(a) - Cardinality(both)
    BY <1>2, <2>1, FS_Union
  <2> QED
    BY <2>2, <2>3, <2>4
<1>5. PICK d : d = u \ r /\ Cardinality(d) = Cardinality(u) - Cardinality(r)
  <2>1. u \cap r = r
    BY <1>3, <1>4
  <2>2. Cardinality(u \ r) = Cardinality(u) - Cardinality(u \cap r)
    BY <1>4, FS_Difference
  <2> QED
    BY <2>1, <2>2
<1>6. Shown(synced, state) = d
  BY <1>1, <1>4, <1>5 DEF Shown
<1>7. CurrentCount(state) = Cardinality(synced) + Cardinality(a) - Cardinality(r)
  BY <1>1 DEF CurrentCount
<1>8. Cardinality(Shown(synced, state)) = Cardinality(d)
  BY <1>6, Zenon
<1>9. Cardinality(d) = Cardinality(synced) + Cardinality(a) - Cardinality(r)
  <2>1. Cardinality(d) = Cardinality(u) - Cardinality(r)
    BY <1>5
  <2>2. Cardinality(u) = Cardinality(synced) + Cardinality(a)
    BY <1>4
  <2>3. /\ Cardinality(synced) \in Nat /\ Cardinality(a) \in Nat /\ Cardinality(r) \in Nat
        /\ Cardinality(u) \in Nat
    BY <1>2, <1>4, FS_CardinalityType
  <2> QED
    BY <2>1, <2>2, <2>3
<1> QED
  BY <1>7, <1>8, <1>9, Zenon

\* What a message that answers nothing makes of it.
LEMMA ShownAfter ==
  ASSUME TypeInv, Relative(synced, state), Active(state),
         NEW m \in Msg, m.type \in QuietTypes, m.type # "snapshot"
  PROVE  /\ Relative(synced, AfterMessage(state, m))
         /\ Mismatched(state, m) =>
              /\ Shown(synced, AfterMessage(state, m)) = {}
              /\ AfterMessage(state, m).pending = 0 /\ AfterMessage(state, m).current = FALSE
         /\ \A c : ~Mismatched(state, m) /\ Leads(Shown(synced, state), m, c) =>
              Shown(synced, AfterMessage(state, m)) = c
<1> DEFINE after == AfterMessage(state, m)
<1>1. state \in Entry /\ synced \subseteq Keys
  BY DEF TypeInv
<1>2. CASE m.type = "doc"
  <2>1. PICK k \in Keys : k = (CHOOSE j \in m.keys : TRUE) /\ k \in m.keys
    BY <1>2 DEF Msg
  <2>2. after = AddDocument(state, k)
    BY <1>2, <2>1 DEF AfterMessage, Told
  <2>3. /\ Kind(after, "added") = (Kind(state, "added") \ {k}) \cup (IF k \in synced THEN {} ELSE {k})
        /\ Kind(after, "removed") = Kind(state, "removed") \ {k}
    <3>1. CASE k \in synced
      BY <1>1, <2>2, <3>1, KindsChanged DEF AddDocument, Kinds
    <3>2. CASE k \notin synced
      BY <1>1, <2>2, <3>2, KindsChanged DEF AddDocument, Kinds
    <3> QED
      BY <3>1, <3>2
  <2>4. \A c : Leads(Shown(synced, state), m, c) => c = Shown(synced, state) \cup {k}
    BY <1>2, <2>1 DEF Leads
  <2>5. Shown(synced, after) = Shown(synced, state) \cup {k} /\ Relative(synced, after)
    BY <2>3 DEF Shown, Relative
  <2> QED
    BY <1>2, <2>4, <2>5 DEF Mismatched
<1>3. CASE m.type = "gone"
  <2>1. PICK k \in Keys : k = (CHOOSE j \in m.keys : TRUE) /\ k \in m.keys
    BY <1>3 DEF Msg
  <2>2. after = RemoveDocument(state, k)
    BY <1>3, <2>1 DEF AfterMessage, Told
  <2>3. /\ Kind(after, "added") = Kind(state, "added") \ {k}
        /\ Kind(after, "removed") = (Kind(state, "removed") \ {k}) \cup (IF k \in synced THEN {k} ELSE {})
    <3>1. CASE k \in synced
      BY <1>1, <2>2, <3>1, KindsChanged DEF RemoveDocument, Kinds
    <3>2. CASE k \notin synced
      BY <1>1, <2>2, <3>2, KindsForgotten DEF RemoveDocument, Kinds
    <3> QED
      BY <3>1, <3>2
  <2>4. \A c : Leads(Shown(synced, state), m, c) => c = Shown(synced, state) \ {k}
    BY <1>3, <2>1 DEF Leads
  <2>5. Shown(synced, after) = Shown(synced, state) \ {k} /\ Relative(synced, after)
    BY <2>3 DEF Shown, Relative
  <2> QED
    BY <1>3, <2>4, <2>5 DEF Mismatched
<1>4. CASE m.type = "current"
  <2>1. after = [state EXCEPT !.current = TRUE]
    BY <1>4 DEF AfterMessage, Told
  <2>2. \A h : Kind(after, h) = Kind(state, h)
    BY <1>1, <2>1 DEF Entry, Kind
  <2>3. Shown(synced, after) = Shown(synced, state) /\ Relative(synced, after)
    BY <2>2 DEF Shown, Relative
  <2> QED
    BY <1>4, <2>3 DEF Mismatched, Leads
<1>5. Shown(synced, ResetState) = {} /\ Relative(synced, ResetState)
  BY KindsReset DEF Shown, Relative
<1>6. CASE m.type = "reset"
  <2>1. after = ResetState
    BY <1>6 DEF AfterMessage, Told
  <2> QED
    BY <1>5, <1>6, <2>1 DEF Mismatched, Leads
<1>7. CASE m.type = "filter"
  <2>1. after = IF CurrentCount(state) # m.count THEN ResetState ELSE state
    BY <1>7 DEF AfterMessage, Told
  <2>2. Mismatched(state, m) <=> CurrentCount(state) # m.count
    BY <1>7 DEF Mismatched
  <2>3. \A c : Leads(Shown(synced, state), m, c) => Mismatched(state, m)
    BY <1>7, <2>2, CountIs DEF Leads
  <2>4. ResetState.pending = 0 /\ ResetState.current = FALSE
    BY DEF ResetState, NewState
  <2> QED
    BY <1>5, <2>1, <2>2, <2>3, <2>4
<1> QED
  BY <1>2, <1>3, <1>4, <1>6, <1>7 DEF QuietTypes

-----------------------------------------------------------------------------
(* The view of a target.                                                   *)

Uncut == ~cut /\ NoRefusalCrossed

\* The token, in memory or on disk, is for what the view has.
TokenInv == Uncut => IF listened THEN resume = synced ELSE token = synced

RelativeInv == Relative(synced, state)

\* A mismatch is found in a target with no answer to come; it is left with
\* nothing, and the snapshot is next.
MismatchInv ==
  Uncut /\ mismatch =>
    /\ Active(state) /\ ~state.current /\ Shown(synced, state) = {}
    /\ messages # <<>> /\ Head(messages).type = "snapshot"

\* A target with no answer to come is led to what the server has.
FollowsInv ==
  Uncut /\ open /\ listened /\ state.pending = 0 /\ ~mismatch =>
    serving /\ Course(messages, Shown(synced, state), present)

\* The last thing asked for is to be brought up from what the view has ...
AsksInv ==
  Uncut /\ open /\ listened /\ requests # <<>> => requests[Len(requests)] = Listening(synced)

\* ... and the last thing answered, if not refused, does so.
LastAnswer(v) ==
  /\ Opens(v) /\ v[1].type # "removed"
  /\ v[1].type = "added" => serving /\ Answering(v, synced, present)

AnswerInv ==
  Uncut /\ open /\ listened /\ state.pending # 0 /\ requests = <<>> =>
    \E u \in Seq(Msg), v \in Seq(Msg) : messages = u \o v /\ LastAnswer(v)

ViewInv ==
  /\ TokenInv /\ RelativeInv /\ MismatchInv /\ UncutViewIsServers
  /\ FollowsInv /\ AsksInv /\ AnswerInv

CInv == IInv /\ ViewInv

\* What is cut stays cut.
LEMMA UncutBefore == IInv /\ [Next]_vars => (Uncut' => Uncut)
<1> SUFFICES ASSUME IInv, [Next]_vars PROVE Uncut' => Uncut
  OBVIOUS
<1>1. TypeInv
  BY DEF IInv
<1>2. ASSUME NEW kind \in DOMAIN spent, NEW max, Spend(kind, max), cut => cut'
      PROVE  Uncut' => Uncut
  <2>1. \A other \in {"refusals", "unlistens"} : spent[other] # 0 => spent'[other] # 0
    BY <1>1, <1>2, Spending DEF TypeInv
  <2> QED
    BY <1>2, <2>1 DEF Uncut, NoRefusalCrossed
<1>3. ASSUME spent' = spent, cut => cut'
      PROVE  Uncut' => Uncut
  BY <1>3 DEF Uncut, NoRefusalCrossed
<1>4. DOMAIN spent = {"changes", "listens", "unlistens", "forgets", "refusals", "fails", "deaths"}
  BY <1>1 DEF TypeInv
<1>5. CASE Listen
  BY <1>2, <1>4, <1>5 DEF Listen
<1>6. CASE StopListening
  BY <1>2, <1>4, <1>6, Zenon DEF StopListening, ListenEnds
<1>7. CASE StreamLost
  BY <1>2, <1>4, <1>7 DEF StreamLost
<1>8. CASE Die
  BY <1>2, <1>4, <1>8, Zenon DEF Die, ListenEnds
<1>9. CASE Client
  <2>1. CASE StreamOpens \/ ReadChange \/ RaiseWatchSnapshot
    BY <1>3, <2>1 DEF StreamOpens, ReadChange, RaiseWatchSnapshot
  <2>2. CASE TargetRefused
    BY <1>3, <2>2, Zenon DEF TargetRefused, ListenEnds
  <2> QED
    BY <1>9, <2>1, <2>2 DEF Client
<1>10. CASE Server
  <2>1. CASE ServeListen
    BY <1>2, <1>3, <1>4, <2>1 DEF ServeListen
  <2>2. CASE ServeUnlisten
    BY <1>3, <2>2 DEF ServeUnlisten
  <2> QED
    BY <1>10, <2>1, <2>2 DEF Server
<1>11. CASE RefuseListen
  BY <1>2, <1>4, <1>11 DEF RefuseListen
<1>12. CASE CollectionChanges
  BY <1>2, <1>4, <1>12 DEF CollectionChanges
<1>13. CASE ServerResets
  BY <1>2, <1>4, <1>13 DEF ServerResets
<1>14. CASE UNCHANGED vars
  BY <1>3, <1>14 DEF vars
<1> QED
  BY <1>5, <1>6, <1>7, <1>8, <1>9, <1>10, <1>11, <1>12, <1>13, <1>14 DEF Next

\* With nothing pending nothing is on its way, and the other way round.
LEMMA Awaited ==
  ASSUME IInv, open, NoRefusalCrossed
  PROVE  /\ state.pending \in Nat
         /\ state.pending = 0 <=> requests = <<>> /\ Answers(messages) = {}
         /\ state.pending = 1 =>
              \/ requests = <<>> /\ Cardinality(Answers(messages)) = 1
              \/ Len(requests) = 1 /\ Answers(messages) = {}
<1>1. state.pending = Len(requests) + Cardinality(Answers(messages))
  BY DEF IInv, OutstandingAreCounted
<1>2. /\ requests \in Seq(Request) /\ Len(requests) \in Nat
      /\ IsFiniteSet(Answers(messages)) /\ Cardinality(Answers(messages)) \in Nat
  BY AnswersFinite DEF IInv, TypeInv
<1>3. /\ Len(requests) = 0 <=> requests = <<>>
      /\ Cardinality(Answers(messages)) = 0 <=> Answers(messages) = {}
  BY <1>2, FS_EmptySet
<1>4. PICK n \in Nat, c \in Nat : n = Len(requests) /\ c = Cardinality(Answers(messages))
  BY <1>2
<1>5. state.pending = n + c
  BY <1>1, <1>4, Zenon
<1>6. /\ state.pending \in Nat
      /\ state.pending = 0 <=> n = 0 /\ c = 0
      /\ state.pending = 1 => (n = 0 /\ c = 1) \/ (n = 1 /\ c = 0)
  BY <1>5
<1> QED
  BY <1>3, <1>4, <1>6, Zenon

LEMMA HeadKept ==
  ASSUME NEW ms \in Seq(Msg), NEW rs \in Seq(Msg), ms # <<>>
  PROVE  ms \o rs # <<>> /\ Head(ms \o rs) = Head(ms)
OBVIOUS

\* What the server sends changes nothing yet.
LEMMA ServerSends ==
  ASSUME CInv, Uncut' => Uncut, UNCHANGED <<clientVars, asOf, cut>>,
         NEW rs \in Seq(Msg), messages' = messages \o rs
  PROVE  TokenInv' /\ RelativeInv' /\ MismatchInv' /\ UncutViewIsServers'
<1> USE DEF CInv, ViewInv
<1>1. TokenInv'
  BY DEF TokenInv, clientVars
<1>2. RelativeInv'
  BY DEF RelativeInv, Relative, Kind, clientVars
<1>3. MismatchInv'
  <2>1. messages \in Seq(Msg)
    BY DEF IInv, TypeInv
  <2>2. messages # <<>> => messages' # <<>> /\ Head(messages') = Head(messages)
    BY <2>1, HeadKept
  <2> QED
    BY <2>2 DEF MismatchInv, Active, Shown, Kind, clientVars
<1>4. UncutViewIsServers'
  BY DEF UncutViewIsServers, Uncut, clientVars
<1> QED
  BY <1>1, <1>2, <1>3, <1>4

\* It answers the last request, or one before.
LEMMA ServerAnswersLast ==
  ASSUME CInv, IInv', Uncut' => Uncut, UNCHANGED <<clientVars, present, asOf, cut>>,
         requests # <<>>, requests' = Tail(requests),
         NEW rs, Opens(rs), messages' = messages \o rs,
         rs[1].type = "removed" => Head(requests).op = "unwatch",
         rs[1].type = "added" => serving' /\ Answering(rs, Head(requests).from, present)
  PROVE  FollowsInv' /\ AsksInv' /\ AnswerInv'
<1> USE DEF CInv, ViewInv
<1>1. /\ requests \in Seq(Request) /\ messages \in Seq(Msg) /\ rs \in Seq(Msg)
  BY DEF IInv, TypeInv, Opens
<1>2. UNCHANGED <<open, listened, state, synced, present, mismatch>>
  BY DEF clientVars
<1>3. Uncut /\ open => state.pending # 0
  BY Awaited DEF Uncut
<1>4. FollowsInv'
  BY <1>2, <1>3 DEF FollowsInv
<1>5. AsksInv'
  <2>1. Tail(requests) # <<>> => Tail(requests)[Len(Tail(requests))] = requests[Len(requests)]
    BY <1>1
  <2> QED
    BY <1>2, <2>1 DEF AsksInv, Listening
<1>6. AnswerInv'
  <2> SUFFICES ASSUME Uncut', open', listened', requests' = <<>>
               PROVE  \E u \in Seq(Msg), v \in Seq(Msg) : messages' = u \o v /\ LastAnswer(v)'
    BY DEF AnswerInv
  <2>1. requests[Len(requests)] = Head(requests)
    <3>1. Tail(requests) = <<>>
      OBVIOUS
    <3>2. Len(Tail(requests)) = Len(requests) - 1 /\ Len(requests) \in Nat
      BY <1>1
    <3>3. Len(requests) = 1
      BY <3>1, <3>2
    <3> QED
      BY <1>1, <3>3
  <2>2. Head(requests) = Listening(synced)
    BY <1>2, <2>1 DEF AsksInv
  <2>3. LastAnswer(rs)'
    BY <1>2, <2>2 DEF LastAnswer, Listening
  <2> QED
    BY <1>1, <2>3
<1> QED
  BY <1>4, <1>5, <1>6

\* It tells of documents what leads on.
LEMMA ServerLeadsOn ==
  ASSUME CInv, Uncut' => Uncut, UNCHANGED <<clientVars, requests, serving, asOf, cut>>,
         NEW rs \in Seq(Quiet), messages' = messages \o rs,
         serving => Course(rs, present, present'),
         ~serving => rs = <<>>
  PROVE  FollowsInv' /\ AsksInv' /\ AnswerInv'
<1> USE DEF CInv, ViewInv
<1>1. /\ messages \in Seq(Msg) /\ rs \in Seq(Msg)
  BY DEF IInv, TypeInv, Quiet
<1>2. UNCHANGED <<open, listened, state, synced, mismatch>>
  BY DEF clientVars
<1>3. FollowsInv'
  <2> SUFFICES ASSUME Uncut', open', listened', state'.pending = 0, ~mismatch'
               PROVE  serving' /\ Course(messages', Shown(synced', state'), present')
    BY DEF FollowsInv, Shown, Kind
  <2>1. serving /\ Course(messages, Shown(synced, state), present)
    BY <1>2 DEF FollowsInv
  <2>2. Course(messages \o rs, Shown(synced, state), present')
    BY <1>1, <2>1, CourseConcat
  <2> QED
    BY <1>2, <2>1, <2>2
<1>4. AsksInv'
  BY <1>2 DEF AsksInv, Listening
<1>5. AnswerInv'
  <2> SUFFICES ASSUME Uncut', open', listened', state'.pending # 0, requests' = <<>>
               PROVE  \E u \in Seq(Msg), v \in Seq(Msg) : messages' = u \o v /\ LastAnswer(v)'
    BY DEF AnswerInv
  <2>1. PICK u \in Seq(Msg), v \in Seq(Msg) : messages = u \o v /\ LastAnswer(v)
    BY <1>2 DEF AnswerInv
  <2>2. v \o rs \in Seq(Msg) /\ messages' = u \o (v \o rs)
    BY <1>1, <2>1, ConcatAssociative
  <2>3. Opens(v \o rs) /\ (v \o rs)[1] = v[1]
    BY <2>1, OpensQuietly DEF LastAnswer
  <2>4. v[1].type = "added" => serving /\ Answering(v \o rs, synced, present')
    BY <2>1, AnsweringOn DEF LastAnswer
  <2>5. LastAnswer(v \o rs)'
    BY <1>2, <2>1, <2>3, <2>4 DEF LastAnswer
  <2> QED
    BY <2>2, <2>5
<1> QED
  BY <1>3, <1>4, <1>5

LEMMA ServeListenView == CInv /\ ServeListen => ViewInv'
<1> SUFFICES ASSUME CInv, ServeListen PROVE ViewInv'
  OBVIOUS
<1>1. IInv /\ IInv'
  BY ServeListenStep DEF CInv
<1>2. Uncut' => Uncut
  BY <1>1, UncutBefore DEF Next, Server
<1>3. PICK rs : /\ Answering(rs, Head(requests).from, present) /\ rs[1].type = "added"
                /\ messages' = messages \o rs
  BY <1>1, ListenServed
<1>4. rs \in Seq(Msg) /\ Opens(rs)
  BY <1>3 DEF Answering, Opens
<1>5. /\ requests # <<>> /\ requests' = Tail(requests) /\ serving'
      /\ UNCHANGED <<clientVars, present, asOf, cut>>
  BY DEF ServeListen
<1>6. TokenInv' /\ RelativeInv' /\ MismatchInv' /\ UncutViewIsServers'
  BY <1>2, <1>3, <1>4, <1>5, ServerSends
<1>7. FollowsInv' /\ AsksInv' /\ AnswerInv'
  BY <1>1, <1>2, <1>3, <1>4, <1>5, ServerAnswersLast
<1> QED
  BY <1>6, <1>7 DEF ViewInv

LEMMA ServeUnlistenView == CInv /\ ServeUnlisten => ViewInv'
<1> SUFFICES ASSUME CInv, ServeUnlisten PROVE ViewInv'
  OBVIOUS
<1>1. IInv /\ IInv'
  BY ServeUnlistenStep DEF CInv
<1>2. Uncut' => Uncut
  BY <1>1, UncutBefore DEF Next, Server
<1>3. PICK rs : rs = <<Message("removed")>> /\ rs[1].type = "removed"
  <2>1. <<Message("removed")>>[1].type = "removed"
    BY DEF Message
  <2> QED
    BY <2>1
<1>4. rs \in Seq(Msg) /\ Opens(rs)
  BY <1>3, OpensAlone DEF Opens, AnswerTypes
<1>5. /\ requests # <<>> /\ requests' = Tail(requests) /\ Head(requests).op = "unwatch"
      /\ messages' = messages \o rs
      /\ UNCHANGED <<clientVars, present, asOf, cut>>
  BY <1>3 DEF ServeUnlisten, Sends
<1>6. TokenInv' /\ RelativeInv' /\ MismatchInv' /\ UncutViewIsServers'
  BY <1>2, <1>4, <1>5, ServerSends
<1>7. FollowsInv' /\ AsksInv' /\ AnswerInv'
  BY <1>1, <1>2, <1>3, <1>4, <1>5, ServerAnswersLast
<1> QED
  BY <1>6, <1>7 DEF ViewInv

LEMMA RefuseListenView == CInv /\ RefuseListen => ViewInv'
<1> SUFFICES ASSUME CInv, RefuseListen PROVE ViewInv'
  OBVIOUS
<1>1. IInv /\ IInv'
  BY RefuseListenStep DEF CInv
<1>2. Uncut' => Uncut
  BY <1>1, UncutBefore DEF Next
<1>3. PICK rs : rs = <<Message("refused")>> /\ rs[1].type = "refused"
  <2>1. <<Message("refused")>>[1].type = "refused"
    BY DEF Message
  <2> QED
    BY <2>1
<1>4. rs \in Seq(Msg) /\ Opens(rs)
  BY <1>3, OpensAlone DEF Opens, AnswerTypes
<1>5. /\ requests # <<>> /\ requests' = Tail(requests)
      /\ messages' = messages \o rs
      /\ UNCHANGED <<clientVars, present, asOf, cut>>
  BY <1>3 DEF RefuseListen, Sends
<1>6. TokenInv' /\ RelativeInv' /\ MismatchInv' /\ UncutViewIsServers'
  BY <1>2, <1>4, <1>5, ServerSends
<1>7. FollowsInv' /\ AsksInv' /\ AnswerInv'
  BY <1>1, <1>2, <1>3, <1>4, <1>5, ServerAnswersLast
<1> QED
  BY <1>6, <1>7 DEF ViewInv

LEMMA CollectionChangesView == CInv /\ CollectionChanges => ViewInv'
<1> SUFFICES ASSUME CInv, CollectionChanges PROVE ViewInv'
  OBVIOUS
<1>1. IInv
  BY DEF CInv
<1>2. Uncut' => Uncut
  BY <1>1, UncutBefore DEF Next
<1>3. PICK rs \in Seq(Quiet) : /\ messages' = messages \o rs
                               /\ serving => Course(rs, present, present')
                               /\ ~serving => rs = <<>>
  <2>1. CASE ~serving
    <3>1. messages' = messages \o <<>> /\ <<>> \in Seq(Quiet)
      BY <1>1, <2>1, ChangesTold DEF IInv, TypeInv
    <3> QED
      BY <2>1, <3>1
  <2>2. CASE serving
    BY <1>1, <2>2, ChangesTold
  <2> QED
    BY <2>1, <2>2
<1>4. rs \in Seq(Msg)
  BY DEF Quiet
<1>5. UNCHANGED <<clientVars, requests, serving, asOf, cut>>
  BY DEF CollectionChanges
<1>6. TokenInv' /\ RelativeInv' /\ MismatchInv' /\ UncutViewIsServers'
  BY <1>2, <1>3, <1>4, <1>5, ServerSends
<1>7. FollowsInv' /\ AsksInv' /\ AnswerInv'
  BY <1>2, <1>3, <1>5, ServerLeadsOn
<1> QED
  BY <1>6, <1>7 DEF ViewInv

LEMMA ServerResetsView == CInv /\ ServerResets => ViewInv'
<1> SUFFICES ASSUME CInv, ServerResets PROVE ViewInv'
  OBVIOUS
<1>1. IInv
  BY DEF CInv
<1>2. Uncut' => Uncut
  BY <1>1, UncutBefore DEF Next
<1>3. PICK rs \in Seq(Quiet) : messages' = messages \o rs /\ Course(rs, present, present)
  BY <1>1, ResetsTold
<1>4. rs \in Seq(Msg)
  BY DEF Quiet
<1>5. serving /\ present' = present /\ UNCHANGED <<clientVars, requests, serving, asOf, cut>>
  BY DEF ServerResets, serverVars
<1>6. TokenInv' /\ RelativeInv' /\ MismatchInv' /\ UncutViewIsServers'
  BY <1>2, <1>3, <1>4, <1>5, ServerSends
<1>7. FollowsInv' /\ AsksInv' /\ AnswerInv'
  BY <1>2, <1>3, <1>5, ServerLeadsOn
<1> QED
  BY <1>6, <1>7 DEF ViewInv

-----------------------------------------------------------------------------
(* Calls of the app, the stream and the process.                           *)

LEMMA KindsKept ==
  ASSUME NEW s, NEW t, s.changes = t.changes, NEW h
  PROVE  Kind(s, h) = Kind(t, h)
BY DEF Kind

LEMMA NoKinds == Kind(NewState, "added") = {} /\ Kind(NewState, "removed") = {}
BY NewStateIs, KindsCleared

LEMMA ListenView == CInv /\ Listen => ViewInv'
<1> SUFFICES ASSUME CInv, Listen PROVE ViewInv'
  OBVIOUS
<1> USE DEF CInv, ViewInv
<1>1. IInv /\ IInv'
  BY ListenStep
<1>2. Uncut' => Uncut
  BY <1>1, UncutBefore DEF Next
<1>3. /\ ~listened /\ listened' /\ resume' = token /\ ~current'
      /\ UNCHANGED <<open, token, synced, mismatch, broken, messages, serverVars, asOf, cut>>
  BY DEF Listen
<1>4. PICK ops \in Seq(Request) : ops = <<Listening(token)>> /\ Len(ops) = 1 /\ ops[1] = Listening(token)
  <2>1. <<Listening(token)>> \in Seq(Request)
    BY <1>1 DEF IInv, TypeInv, Listening, Request
  <2> QED
    BY <2>1
<1>5. /\ state'.changes = state.changes
      /\ open => requests' = requests \o ops /\ state'.pending = state.pending + 1
  <2>1. Send(ops, state)
    BY <1>4 DEF Listen
  <2> QED
    BY <1>1, <1>4, <2>1, Sending DEF IInv, TypeInv
<1>6. Uncut' => token = synced /\ ~mismatch
  BY <1>2, <1>3 DEF TokenInv, MismatchInv, Active
<1>7. TokenInv'
  BY <1>3, <1>6 DEF TokenInv
<1>8. RelativeInv'
  BY <1>3, <1>5, KindsKept DEF RelativeInv, Relative
<1>9. MismatchInv' /\ UncutViewIsServers'
  BY <1>3, <1>6 DEF MismatchInv, UncutViewIsServers
<1>10. open => requests' # <<>> /\ requests'[Len(requests')] = Listening(token)
  <2>1. requests \in Seq(Request)
    BY <1>1 DEF IInv, TypeInv
  <2> QED
    BY <1>4, <1>5, <2>1
<1>11. Uncut' /\ open => state'.pending # 0
  <2>1. Uncut' /\ open => state.pending \in Nat
    BY <1>1, <1>2, Awaited DEF Uncut
  <2> QED
    BY <1>5, <2>1
<1>12. FollowsInv' /\ AsksInv' /\ AnswerInv'
  BY <1>3, <1>6, <1>10, <1>11 DEF FollowsInv, AsksInv, AnswerInv, Listening
<1> QED
  BY <1>7, <1>8, <1>9, <1>12

LEMMA StopListeningView == CInv /\ StopListening => ViewInv'
<1> SUFFICES ASSUME CInv, StopListening PROVE ViewInv'
  OBVIOUS
<1> USE DEF CInv, ViewInv
<1>1. IInv /\ IInv'
  BY StopListeningStep
<1>2. Uncut' => Uncut
  BY <1>1, UncutBefore DEF Next
<1>3. /\ listened /\ ~listened' /\ ~current' /\ cut' = (cut \/ mismatch \/ resume # token)
      /\ UNCHANGED <<open, resume, token, synced, mismatch, broken, messages, serverVars, asOf>>
  BY DEF StopListening, ListenEnds
<1>4. state'.changes = state.changes
  <2>1. PICK ops \in Seq(Request) : ops = <<Unlistening>>
    <3>1. Unlistening \in Request
      BY DEF Unlistening, Request
    <3>2. <<Unlistening>> \in Seq(Request)
      BY <3>1
    <3> QED
      BY <3>2
  <2>2. Send(ops, state)
    BY <2>1 DEF StopListening
  <2> QED
    BY <1>1, <2>2, Sending DEF IInv, TypeInv
<1>5. Uncut' => token = synced /\ ~mismatch
  <2>1. Uncut' => ~mismatch /\ resume = token
    BY <1>3, Zenon DEF Uncut
  <2> QED
    BY <1>2, <1>3, <2>1 DEF TokenInv
<1>6. TokenInv'
  BY <1>3, <1>5 DEF TokenInv
<1>7. RelativeInv'
  BY <1>3, <1>4, KindsKept DEF RelativeInv, Relative
<1>8. MismatchInv' /\ UncutViewIsServers'
  BY <1>3, <1>5 DEF MismatchInv, UncutViewIsServers
<1>9. FollowsInv' /\ AsksInv' /\ AnswerInv'
  BY <1>3 DEF FollowsInv, AsksInv, AnswerInv
<1> QED
  BY <1>6, <1>7, <1>8, <1>9

LEMMA StreamOpensView == CInv /\ StreamOpens => ViewInv'
<1> SUFFICES ASSUME CInv, StreamOpens PROVE ViewInv'
  OBVIOUS
<1> USE DEF CInv, ViewInv
<1>1. IInv /\ IInv'
  BY StreamOpensStep
<1>2. Uncut' => Uncut
  BY <1>1, UncutBefore DEF Next, Client
<1>3. /\ ~open /\ listened /\ requests' = <<Listening(resume)>> /\ state' = Requested(NewState, 1)
      /\ UNCHANGED <<listened, resume, token, synced, current, mismatch, broken, messages,
                     serverVars, asOf, cut, spent>>
  BY DEF StreamOpens
<1>4. ~mismatch
  BY <1>1, <1>3 DEF IInv, ClosedInv
<1>5. state'.pending = 1 /\ state'.changes = <<>>
  BY <1>3 DEF Requested, NewState
<1>6. TokenInv'
  BY <1>2, <1>3 DEF TokenInv
<1>7. RelativeInv'
  BY <1>5, KindsCleared DEF RelativeInv, Relative
<1>8. MismatchInv' /\ UncutViewIsServers'
  BY <1>2, <1>3, <1>4 DEF MismatchInv, UncutViewIsServers, Uncut
<1>9. requests' # <<>> /\ requests'[Len(requests')] = Listening(resume)
  BY <1>3
<1>10. Uncut' => resume = synced
  BY <1>2, <1>3 DEF TokenInv
<1>11. FollowsInv' /\ AsksInv' /\ AnswerInv'
  BY <1>3, <1>5, <1>9, <1>10 DEF FollowsInv, AsksInv, AnswerInv, Listening
<1> QED
  BY <1>6, <1>7, <1>8, <1>11

\* Without a stream nothing is on its way.
LEMMA DisconnectedView ==
  ASSUME Disconnected, Uncut' => (current' => synced = asOf),
         Uncut' => IF listened' THEN resume = synced ELSE token = synced
  PROVE  ViewInv'
<1>1. /\ ~open' /\ state' = NewState /\ ~mismatch' /\ UNCHANGED <<resume, token, synced, asOf>>
  BY DEF Disconnected
<1>2. TokenInv'
  BY <1>1 DEF TokenInv
<1>3. RelativeInv'
  BY <1>1, NoKinds DEF RelativeInv, Relative
<1>4. MismatchInv' /\ UncutViewIsServers'
  BY <1>1 DEF MismatchInv, UncutViewIsServers, Uncut
<1>5. FollowsInv' /\ AsksInv' /\ AnswerInv'
  BY <1>1 DEF FollowsInv, AsksInv, AnswerInv
<1> QED
  BY <1>2, <1>3, <1>4, <1>5 DEF ViewInv

LEMMA StreamLostView == CInv /\ StreamLost => ViewInv'
<1> SUFFICES ASSUME CInv, StreamLost PROVE ViewInv'
  OBVIOUS
<1> USE DEF CInv, ViewInv
<1>1. Uncut' => Uncut
  BY UncutBefore DEF Next
<1>2. /\ Disconnected /\ UNCHANGED <<listened, cut>> /\ current' \in {current, FALSE}
  BY DEF StreamLost
<1>3. Uncut' => (current' => synced = asOf)
  <2>1. current' => current
    BY <1>2, Zenon
  <2> QED
    BY <1>1, <2>1 DEF UncutViewIsServers, Uncut
<1>4. Uncut' => IF listened' THEN resume = synced ELSE token = synced
  BY <1>1, <1>2 DEF TokenInv
<1> QED
  BY <1>2, <1>3, <1>4, DisconnectedView

LEMMA DieView == CInv /\ Die => ViewInv'
<1> SUFFICES ASSUME CInv, Die PROVE ViewInv'
  OBVIOUS
<1> USE DEF CInv, ViewInv
<1>1. Uncut' => Uncut
  BY UncutBefore DEF Next
<1>2. /\ Disconnected /\ ~listened' /\ ~current' /\ cut' = (cut \/ mismatch \/ resume # token)
  BY DEF Die, ListenEnds
<1>3. Uncut' => token = synced
  <2>1. Uncut' => resume = token
    BY <1>2, Zenon DEF Uncut
  <2> QED
    BY <1>1, <2>1 DEF TokenInv
<1> QED
  BY <1>2, <1>3, DisconnectedView

-----------------------------------------------------------------------------
(* Messages.                                                               *)

\* The answer waited for is read last of all, or is still on its way.
LEMMA WaitsOn ==
  ASSUME CInv, Uncut, open, listened, state.pending # 0, requests = <<>>, messages # <<>>
  PROVE  IF Head(messages).type \in AnswerTypes /\ state.pending = 1
         THEN LastAnswer(messages) /\ messages[1] = Head(messages)
         ELSE \E u \in Seq(Msg), v \in Seq(Msg) : Tail(messages) = u \o v /\ LastAnswer(v)
<1> USE DEF CInv, ViewInv
<1>1. PICK u \in Seq(Msg), v \in Seq(Msg) : messages = u \o v /\ LastAnswer(v)
  BY DEF AnswerInv
<1>2. messages \in Seq(Msg) /\ v # <<>> /\ Answers(v) = {1} /\ Opens(v)
  BY <1>1 DEF IInv, TypeInv, LastAnswer, Opens
<1>3. CASE u = <<>>
  <2>1. messages = v
    BY <1>1, <1>3
  <2>2. Cardinality(Answers(messages)) = 1
    BY <1>2, <2>1, FS_Singleton
  <2>3. state.pending = 1
    <3>1. state.pending = Len(requests) + Cardinality(Answers(messages))
      BY DEF IInv, OutstandingAreCounted, Uncut
    <3> QED
      BY <2>2, <3>1
  <2>4. messages[1] = Head(messages) /\ 1 \in Answers(messages)
    BY <1>2, <2>1
  <2>5. Head(messages).type \in AnswerTypes
    BY <2>4 DEF Answers, AnswerTypes
  <2> QED
    BY <1>1, <2>1, <2>3, <2>4, <2>5
<1>4. CASE u # <<>>
  <2>1. Tail(messages) = Tail(u) \o v /\ Tail(u) \in Seq(Msg) /\ Head(messages) = Head(u)
    BY <1>1, <1>4
  <2>2. ASSUME Head(messages).type \in AnswerTypes
        PROVE  state.pending # 1
    <3>1. 1 \in Answers(u)
      <4>1. 1 \in DOMAIN u /\ u[1] = Head(u)
        BY <1>4
      <4> QED
        BY <2>1, <2>2, <4>1 DEF Answers, AnswerTypes
    <3>2. IsFiniteSet(Answers(u)) /\ Cardinality(Answers(u)) \in Nat /\ Cardinality(Answers(u)) # 0
      BY <3>1, AnswersFinite, FS_EmptySet
    <3>3. Cardinality(Answers(messages)) = Cardinality(Answers(u)) + 1
      BY <1>1, <1>2, OpensAfter
    <3>4. state.pending = 1 => Cardinality(Answers(messages)) = 1
      <4>1. state.pending = Len(requests) + Cardinality(Answers(messages))
        BY DEF IInv, OutstandingAreCounted, Uncut
      <4>2. Len(requests) = 0 /\ Cardinality(Answers(messages)) \in Nat
        BY <3>2, <3>3
      <4> QED
        BY <4>1, <4>2
    <3> QED
      BY <3>2, <3>3, <3>4
  <2> QED
    BY <1>1, <2>1, <2>2
<1> QED
  BY <1>3, <1>4

LEMMA TargetRefusedView == CInv /\ TargetRefused => ViewInv'
<1> SUFFICES ASSUME CInv, TargetRefused PROVE ViewInv'
  OBVIOUS
<1> USE DEF CInv, ViewInv
<1>1. Uncut' => Uncut
  BY UncutBefore DEF Next, Client
<1>2. /\ UNCHANGED <<open, resume, token, synced, mismatch, requests, present, serving, asOf, spent>>
      /\ Head(messages).type = "refused"
  BY DEF TargetRefused, Read, serverVars
<1>3. Uncut' => ~mismatch
  BY <1>1, <1>2 DEF MismatchInv
<1>4. CASE listened
  <2>1. ~listened' /\ state' = NewState /\ ~current' /\ cut' = (cut \/ mismatch \/ resume # token)
    BY <1>4 DEF TargetRefused, ListenEnds
  <2>2. Uncut' => resume = token
    BY <2>1, Zenon DEF Uncut
  <2>3. TokenInv'
    BY <1>1, <1>2, <1>4, <2>1, <2>2 DEF TokenInv
  <2>4. RelativeInv'
    BY <2>1, NoKinds DEF RelativeInv, Relative
  <2>5. MismatchInv' /\ UncutViewIsServers'
    BY <1>2, <1>3, <2>1 DEF MismatchInv, UncutViewIsServers
  <2>6. FollowsInv' /\ AsksInv' /\ AnswerInv'
    BY <2>1 DEF FollowsInv, AsksInv, AnswerInv
  <2> QED
    BY <2>3, <2>4, <2>5, <2>6
<1>5. CASE ~listened
  <2>1. UNCHANGED <<listened, state, current, cut>>
    BY <1>5 DEF TargetRefused
  <2>2. TokenInv'
    BY <1>1, <1>2, <2>1 DEF TokenInv
  <2>3. RelativeInv'
    BY <1>2, <2>1 DEF RelativeInv, Relative, Kind
  <2>4. MismatchInv' /\ UncutViewIsServers'
    BY <1>1, <1>2, <1>3, <2>1 DEF MismatchInv, UncutViewIsServers, Uncut
  <2>5. FollowsInv' /\ AsksInv' /\ AnswerInv'
    BY <1>5, <2>1 DEF FollowsInv, AsksInv, AnswerInv
  <2> QED
    BY <2>2, <2>3, <2>4, <2>5
<1> QED
  BY <1>4, <1>5

LEMMA RaiseWatchSnapshotView == CInv /\ RaiseWatchSnapshot => ViewInv'
<1> SUFFICES ASSUME CInv, RaiseWatchSnapshot PROVE ViewInv'
  OBVIOUS
<1> USE DEF CInv, ViewInv
<1>1. Uncut' => Uncut
  BY UncutBefore DEF Next, Client
<1>2. /\ messages \in Seq(Msg) /\ messages # <<>> /\ messages' = Tail(messages)
      /\ Head(messages).type = "snapshot" /\ Head(messages).type \notin AnswerTypes /\ open
      /\ state \in Entry
  BY DEF RaiseWatchSnapshot, Read, IInv, TypeInv, ClosedInv, AnswerTypes
<1>3. PICK docs : docs = Head(messages).keys
  OBVIOUS
<1>4. PICK clear : clear = [state EXCEPT !.changes = <<>>]
  OBVIOUS
<1>5. PICK s : s = IF Active(state) THEN clear ELSE state
  OBVIOUS
<1>6. /\ IF Active(state) THEN ApplyTargetChange(docs) ELSE UNCHANGED <<broken, synced, current, token, asOf>>
      /\ IF mismatch /\ listened
         THEN resume' = {} /\ Send(<<Unlistening, Listening({})>>, s)
         ELSE /\ resume' = IF Active(state) THEN docs ELSE resume
              /\ state' = s /\ requests' = requests
      /\ mismatch' = FALSE
      /\ UNCHANGED <<open, listened, present, serving, cut, spent>>
  BY <1>3, <1>4, <1>5 DEF RaiseWatchSnapshot, serverVars
<1>7. s \in Entry /\ s.pending = state.pending /\ (Active(state) => s.changes = <<>>)
      /\ (~Active(state) => s.changes = state.changes)
  BY <1>2, <1>4, <1>5, Cleared
<1>8. PICK ops \in Seq(Request) : ops = <<Unlistening, Listening({})>> /\ Len(ops) = 2 /\ ops[2] = Listening({})
  <2>1. <<Unlistening, Listening({})>> \in Seq(Request)
    BY DEF Unlistening, Listening, Request
  <2> QED
    BY <2>1
<1>9. /\ state'.changes = s.changes
      /\ mismatch /\ listened => /\ requests' = requests \o ops
                                 /\ state'.pending = state.pending + 2
  <2>1. CASE mismatch /\ listened
    <3>1. Send(ops, s)
      BY <1>6, <1>8, <2>1
    <3> QED
      BY <1>2, <1>7, <1>8, <3>1, Sending DEF IInv
  <2>2. CASE ~(mismatch /\ listened)
    BY <1>6, <2>2
  <2> QED
    BY <2>1, <2>2
<1>10. MismatchInv'
  BY <1>6 DEF MismatchInv
<1>11. CASE Active(state)
  <2>1. /\ listened /\ state.pending = 0 /\ synced' = Shown(synced, state)
        /\ current' = state.current /\ token' = docs /\ asOf' = docs
    BY <1>6, <1>11 DEF ApplyTargetChange, Shown, Active
  <2>2. \A h : Kind(state', h) = {}
    BY <1>7, <1>9, <1>11, KindsCleared
  <2>3. RelativeInv' /\ Shown(synced', state') = synced'
    BY <2>2 DEF RelativeInv, Relative, Shown
  <2>4. CASE Uncut' /\ mismatch
    <3>1. synced' = {} /\ ~current' /\ resume' = {} /\ state'.pending = 2 /\ requests' = requests \o ops
      BY <1>1, <1>6, <1>9, <2>1, <2>4 DEF MismatchInv
    <3>2. requests' # <<>> /\ requests'[Len(requests')] = Listening({})
      <4>1. requests \in Seq(Request)
        BY DEF IInv, TypeInv
      <4> QED
        BY <1>8, <3>1, <4>1
    <3>3. TokenInv' /\ UncutViewIsServers'
      BY <1>6, <2>1, <3>1 DEF TokenInv, UncutViewIsServers
    <3>4. FollowsInv' /\ AsksInv' /\ AnswerInv'
      BY <3>1, <3>2 DEF FollowsInv, AsksInv, AnswerInv, Listening
    <3> QED
      BY <1>10, <2>3, <3>3, <3>4
  <2>5. CASE Uncut' /\ ~mismatch
    <3>1. serving /\ Course(messages, Shown(synced, state), present)
      BY <1>1, <1>2, <2>1, <2>5 DEF FollowsInv
    <3>2. PICK c \in SUBSET Keys : Leads(Shown(synced, state), Head(messages), c) /\ Course(Tail(messages), c, present)
      BY <1>2, <3>1, CourseRead
    <3>3. synced' = docs /\ c = docs
      BY <1>2, <1>3, <2>1, <3>2 DEF Leads
    <3>4. resume' = docs /\ state'.pending = 0 /\ requests' = requests /\ requests = <<>>
      BY <1>1, <1>2, <1>6, <1>7, <1>11, <2>1, <2>5, Awaited DEF Uncut
    <3>5. TokenInv' /\ UncutViewIsServers'
      BY <1>6, <2>1, <3>3, <3>4 DEF TokenInv, UncutViewIsServers
    <3>6. FollowsInv' /\ AsksInv' /\ AnswerInv'
      BY <1>2, <1>6, <2>3, <3>1, <3>2, <3>3, <3>4 DEF FollowsInv, AsksInv, AnswerInv
    <3> QED
      BY <1>10, <2>3, <3>5, <3>6
  <2>6. CASE ~Uncut'
    BY <1>10, <2>3, <2>6 DEF TokenInv, UncutViewIsServers, FollowsInv, AsksInv, AnswerInv, Uncut
  <2> QED
    BY <2>4, <2>5, <2>6
<1>12. CASE ~Active(state)
  <2>1. UNCHANGED <<synced, current, token, asOf>> /\ state'.changes = state.changes
    BY <1>6, <1>7, <1>9, <1>12
  <2>2. RelativeInv'
    BY <2>1, KindsKept DEF RelativeInv, Relative
  <2>3. UncutViewIsServers'
    BY <1>1, <2>1 DEF UncutViewIsServers, Uncut
  <2>4. Uncut' => ~mismatch
    BY <1>1, <1>12 DEF MismatchInv
  <2>5. Uncut' => state' = state /\ resume' = resume /\ requests' = requests
    BY <1>5, <1>6, <1>12, <2>4
  <2>6. TokenInv'
    BY <1>1, <1>6, <2>1, <2>5 DEF TokenInv
  <2>7. FollowsInv' /\ AsksInv'
    BY <1>1, <1>6, <1>12, <2>1, <2>5 DEF FollowsInv, AsksInv, Active, Listening
  <2>8. AnswerInv'
    <3> SUFFICES ASSUME Uncut', open', listened', state'.pending # 0, requests' = <<>>
                 PROVE  \E u \in Seq(Msg), v \in Seq(Msg) : messages' = u \o v /\ LastAnswer(v)'
      BY DEF AnswerInv
    <3>1. PICK u \in Seq(Msg), v \in Seq(Msg) : Tail(messages) = u \o v /\ LastAnswer(v)
      BY <1>1, <1>2, <1>6, <2>5, WaitsOn
    <3>2. LastAnswer(v)'
      BY <1>6, <2>1, <3>1 DEF LastAnswer
    <3> QED
      BY <1>2, <3>1, <3>2
  <2> QED
    BY <1>10, <2>2, <2>3, <2>6, <2>7, <2>8
<1> QED
  BY <1>11, <1>12

LEMMA ReadChangeView == CInv /\ ReadChange => ViewInv'
<1> SUFFICES ASSUME CInv, ReadChange PROVE ViewInv'
  OBVIOUS
<1> USE DEF CInv, ViewInv
<1>1. Uncut' <=> Uncut
  BY DEF ReadChange, Uncut, NoRefusalCrossed
<1>2. PICK m : m = Head(messages)
  OBVIOUS
<1>3. /\ TypeInv /\ messages \in Seq(Msg) /\ messages # <<>> /\ messages' = Tail(messages) /\ open
      /\ m \in Msg /\ m.type \notin {"snapshot", "refused"} /\ state \in Entry
      /\ Kind(state, "modified") \subseteq synced
  <2>1. messages \in Seq(Msg) /\ messages # <<>> /\ messages' = Tail(messages)
        /\ Head(messages).type \notin {"snapshot", "refused"}
    BY DEF ReadChange, Read, IInv, TypeInv
  <2> QED
    BY <1>2, <2>1 DEF IInv, TypeInv, ClosedInv, ModifiedInv
<1>4. /\ state' = AfterMessage(state, m) /\ mismatch' = (mismatch \/ Mismatched(state, m))
      /\ UNCHANGED <<open, listened, resume, token, synced, current, requests, present, serving, asOf>>
  BY <1>2 DEF ReadChange, serverVars
<1>5. /\ m.type \in AnswerTypes => state'.pending = state.pending - 1
      /\ m.type \notin AnswerTypes => state'.pending = state.pending
  BY <1>3, <1>4, AfterMessageIs
<1>6. m.type \notin AnswerTypes => m.type \in QuietTypes /\ m.type # "snapshot"
  BY <1>3 DEF Msg
<1>7. TokenInv' /\ UncutViewIsServers'
  BY <1>1, <1>4 DEF TokenInv, UncutViewIsServers, Uncut
<1>8. m.type \in AnswerTypes => state'.changes = <<>> \/ state'.changes = state.changes
  <2>1. CASE m.type = "added"
    <3>1. state' = TargetAdded(state)
      BY <1>4, <2>1 DEF AfterMessage
    <3> QED
      BY <1>3, <3>1 DEF TargetAdded, Entry
  <2>2. CASE m.type = "removed"
    <3>1. state' = TargetRemoved(state)
      BY <1>4, <2>2 DEF AfterMessage
    <3> QED
      BY <1>3, <3>1 DEF TargetRemoved, NewState, Entry
  <2> QED
    BY <1>3, <2>1, <2>2 DEF AnswerTypes
<1>9. m.type \notin AnswerTypes /\ ~Active(state) => state' = state
  BY <1>4 DEF AfterMessage, AnswerTypes
<1>10. RelativeInv'
  <2>1. CASE m.type \in AnswerTypes
    <3>1. CASE state'.changes = <<>>
      BY <3>1, KindsCleared DEF RelativeInv, Relative
    <3>2. CASE state'.changes = state.changes
      BY <1>4, <3>2, KindsKept DEF RelativeInv, Relative
    <3> QED
      BY <1>8, <2>1, <3>1, <3>2
  <2>2. CASE m.type \notin AnswerTypes /\ Active(state)
    BY <1>3, <1>4, <1>6, <2>2, ShownAfter DEF RelativeInv
  <2>3. CASE m.type \notin AnswerTypes /\ ~Active(state)
    BY <1>4, <1>9, <2>3 DEF RelativeInv, Relative, Kind
  <2> QED
    BY <2>1, <2>2, <2>3
<1>11. Uncut => ~mismatch
  BY <1>2, <1>3 DEF MismatchInv
<1>12. AsksInv'
  BY <1>1, <1>4 DEF AsksInv, Listening
\* The target waits for nothing.
<1>13. CASE Uncut /\ Active(state)
  <2>1. listened /\ state.pending = 0
    BY <1>13 DEF Active
  <2>2. requests = <<>> /\ Answers(messages) = {}
    BY <1>3, <1>13, <2>1, Awaited DEF Uncut
  <2>3. m.type \notin AnswerTypes
    <3>1. 1 \in DOMAIN messages /\ m = messages[1]
      BY <1>2, <1>3
    <3> QED
      BY <2>2, <3>1 DEF Answers, AnswerTypes
  <2>4. serving /\ Course(messages, Shown(synced, state), present)
    BY <1>3, <1>11, <1>13, <2>1 DEF FollowsInv
  <2>5. /\ m.type = "filter" => Tail(messages) # <<>> /\ Head(Tail(messages)).type = "snapshot"
    BY <1>2, <1>3, <2>4, CourseRead
  <2>6. PICK c \in SUBSET Keys : Leads(Shown(synced, state), m, c) /\ Course(Tail(messages), c, present)
    BY <1>2, <1>3, <2>4, CourseRead
  <2>7. /\ Mismatched(state, m) =>
              Shown(synced, state') = {} /\ state'.pending = 0 /\ state'.current = FALSE
        /\ ~Mismatched(state, m) => Shown(synced, state') = c
    BY <1>3, <1>4, <1>6, <1>13, <2>3, <2>6, ShownAfter DEF RelativeInv
  <2>8. MismatchInv'
    <3>1. mismatch' => Mismatched(state, m)
      BY <1>4, <1>11, <1>13, Zenon
    <3>2. Mismatched(state, m) => m.type = "filter"
      BY DEF Mismatched
    <3> QED
      BY <1>3, <1>4, <2>1, <2>5, <2>7, <3>1, <3>2 DEF MismatchInv, Active
  <2>9. FollowsInv'
    <3>1. ~mismatch' => ~Mismatched(state, m)
      BY <1>4, Zenon
    <3> QED
      BY <1>3, <1>4, <2>4, <2>6, <2>7, <3>1 DEF FollowsInv
  <2>10. AnswerInv'
    BY <1>5, <2>1, <2>3 DEF AnswerInv
  <2> QED
    BY <1>7, <1>10, <1>12, <2>8, <2>9, <2>10
\* It waits for an answer.
<1>14. CASE Uncut /\ ~Active(state)
  <2>1. ~mismatch'
    <3>1. ~Mismatched(state, m)
      BY <1>14 DEF Mismatched
    <3> QED
      BY <1>4, <1>11, <1>14, <3>1, Zenon
  <2>2. MismatchInv'
    BY <2>1 DEF MismatchInv
  <2>3. CASE ~listened
    <3>1. FollowsInv' /\ AnswerInv'
      BY <1>4, <2>3 DEF FollowsInv, AnswerInv
    <3> QED
      BY <1>7, <1>10, <1>12, <2>2, <3>1
  <2>4. CASE listened
    <3>1. state.pending \in Nat \ {0}
      BY <1>3, <1>14, <2>4, Awaited DEF Active, Uncut
    <3>2. FollowsInv'
      <4> SUFFICES ASSUME state'.pending = 0
                   PROVE  serving' /\ Course(messages', Shown(synced', state'), present')
        BY DEF FollowsInv
      <4>1. m.type \in AnswerTypes /\ state.pending = 1
        BY <1>5, <3>1
      <4>2. requests = <<>>
        <5>1. 1 \in DOMAIN messages /\ m = messages[1]
          BY <1>2, <1>3
        <5>2. Answers(messages) # {}
          BY <4>1, <5>1 DEF Answers, AnswerTypes
        <5> QED
          BY <1>3, <1>14, <4>1, <5>2, Awaited DEF Uncut
      <4>3. LastAnswer(messages) /\ messages[1] = m
        BY <1>2, <1>3, <1>14, <2>4, <3>1, <4>1, <4>2, WaitsOn
      <4>4. m.type = "added"
        BY <1>3, <4>1, <4>3 DEF LastAnswer, AnswerTypes
      <4>5. serving /\ Course(Tail(messages), synced, present)
        BY <4>3, <4>4 DEF LastAnswer, Answering
      <4>6. state'.changes = <<>>
        <5>1. state' = [state EXCEPT !.pending = 0, !.changes = <<>>]
          BY <1>4, <4>1, <4>4 DEF AfterMessage, TargetAdded
        <5> QED
          BY <1>3, <5>1 DEF Entry
      <4>7. Shown(synced, state') = synced
        BY <4>6, KindsCleared DEF Shown
      <4> QED
        BY <1>3, <1>4, <4>5, <4>7
    <3>3. AnswerInv'
      <4> SUFFICES ASSUME state'.pending # 0, requests' = <<>>
                   PROVE  \E u \in Seq(Msg), v \in Seq(Msg) : messages' = u \o v /\ LastAnswer(v)'
        BY DEF AnswerInv
      <4>1. ~(m.type \in AnswerTypes /\ state.pending = 1)
        BY <1>5, <3>1
      <4>2. PICK u \in Seq(Msg), v \in Seq(Msg) : Tail(messages) = u \o v /\ LastAnswer(v)
        BY <1>2, <1>3, <1>4, <1>14, <2>4, <3>1, <4>1, WaitsOn
      <4>3. LastAnswer(v)'
        BY <1>4, <4>2 DEF LastAnswer
      <4> QED
        BY <1>3, <4>2, <4>3
    <3> QED
      BY <1>7, <1>10, <1>12, <2>2, <3>2, <3>3
  <2> QED
    BY <2>3, <2>4
<1>15. CASE ~Uncut
  BY <1>1, <1>7, <1>10, <1>12, <1>15 DEF MismatchInv, FollowsInv, AnswerInv
<1> QED
  BY <1>13, <1>14, <1>15

-----------------------------------------------------------------------------
(* Init, Next and the theorem.                                             *)

LEMMA InitView == Init => ViewInv
<1> SUFFICES ASSUME Init PROVE ViewInv
  OBVIOUS
<1>1. TokenInv /\ MismatchInv /\ UncutViewIsServers
  BY DEF Init, TokenInv, MismatchInv, UncutViewIsServers
<1>2. RelativeInv
  BY NoKinds DEF Init, RelativeInv, Relative
<1>3. FollowsInv /\ AsksInv /\ AnswerInv
  BY DEF Init, FollowsInv, AsksInv, AnswerInv
<1> QED
  BY <1>1, <1>2, <1>3 DEF ViewInv

LEMMA StutterView == CInv /\ UNCHANGED vars => ViewInv'
<1> SUFFICES ASSUME CInv, UNCHANGED vars PROVE ViewInv'
  OBVIOUS
<1> USE DEF CInv, ViewInv, vars, clientVars, serverVars
<1>1. Uncut' <=> Uncut
  BY DEF Uncut, NoRefusalCrossed
<1>2. TokenInv' /\ UncutViewIsServers'
  BY <1>1 DEF TokenInv, UncutViewIsServers, Uncut
<1>3. RelativeInv'
  BY DEF RelativeInv, Relative, Kind
<1>4. MismatchInv'
  BY <1>1 DEF MismatchInv, Active, Shown, Kind
<1>5. FollowsInv'
  BY <1>1 DEF FollowsInv, Shown, Kind
<1>6. AsksInv'
  BY <1>1 DEF AsksInv, Listening
<1>7. AnswerInv'
  BY <1>1 DEF AnswerInv, LastAnswer
<1> QED
  BY <1>2, <1>3, <1>4, <1>5, <1>6, <1>7

LEMMA ViewGood == CInv /\ [Next]_vars => CInv'
<1> SUFFICES ASSUME CInv, [Next]_vars PROVE CInv'
  OBVIOUS
<1>1. IInv'
  BY NextGood DEF CInv
<1>2. ViewInv'
  <2>1. CASE Client
    BY <2>1, StreamOpensView, ReadChangeView, RaiseWatchSnapshotView, TargetRefusedView DEF Client
  <2>2. CASE Server
    BY <2>2, ServeListenView, ServeUnlistenView DEF Server
  <2>3. CASE Listen \/ StopListening \/ StreamLost \/ Die
    BY <2>3, ListenView, StopListeningView, StreamLostView, DieView
  <2>4. CASE RefuseListen \/ CollectionChanges \/ ServerResets
    BY <2>4, RefuseListenView, CollectionChangesView, ServerResetsView
  <2>5. CASE UNCHANGED vars
    BY <2>5, StutterView
  <2> QED
    BY <2>1, <2>2, <2>3, <2>4, <2>5 DEF Next
<1> QED
  BY <1>1, <1>2 DEF CInv

\* A view that is said to be current (View::ApplyTargetChange) has the
\* documents the server had at the snapshot, through crossing listens, unlistens
\* and lost streams, from the token on disk or from nothing, whatever the
\* server leaves to a count; for any number of documents and of each.
THEOREM ViewCorrect == Spec => []UncutViewIsServers
<1>1. Init => CInv
  BY InitGood, InitView DEF CInv
<1>2. CInv => UncutViewIsServers
  BY DEF CInv, ViewInv
<1> QED
  BY <1>1, <1>2, ViewGood, PTL DEF Spec

-----------------------------------------------------------------------------
(* When all is served and read.                                            *)

\* What the server sends ends with what closes it, and whatever takes "current"
\* away, or starts a target, is followed by it.
HasCurrent(ms) == \E j \in DOMAIN ms : ms[j].type = "current"

Closing == {"snapshot", "removed", "refused"}

WellSent(ms) ==
  /\ ms # <<>> => ms[Len(ms)].type \in Closing
  /\ \A i \in DOMAIN ms : ms[i].type \in {"added", "reset"} =>
       \E j \in DOMAIN ms : j > i /\ ms[j].type = "current"

SentInv == WellSent(messages)

\* A target with no answer to come is current, or will be told so; with
\* nothing to read its view is, and nothing waits for a snapshot.
DoneInv ==
  Uncut /\ open /\ listened /\ state.pending = 0 /\ ~mismatch =>
    /\ state.current \/ HasCurrent(messages)
    /\ messages = <<>> => current /\ state.changes = <<>>

SInv == CInv /\ SentInv /\ DoneInv

LEMMA SentNothing == WellSent(<<>>)
<1>1. DOMAIN <<>> = {}
  OBVIOUS
<1> QED
  BY <1>1 DEF WellSent

LEMMA SentAlone ==
  ASSUME NEW m \in Msg, m.type \in Closing
  PROVE  <<m>> \in Seq(Msg) /\ WellSent(<<m>>)
<1>1. PICK ms \in Seq(Msg) : ms = <<m>> /\ Len(ms) = 1 /\ DOMAIN ms = 1..1 /\ ms[1] = m
  <2>1. <<m>> \in Seq(Msg) /\ Len(<<m>>) = 1 /\ DOMAIN <<m>> = 1..1 /\ <<m>>[1] = m
    OBVIOUS
  <2> QED
    BY <2>1
<1> QED
  BY <1>1 DEF WellSent, Closing

LEMMA SentOn ==
  ASSUME NEW ms \in Seq(Msg), NEW rs \in Seq(Msg), WellSent(ms), WellSent(rs)
  PROVE  ms \o rs \in Seq(Msg) /\ WellSent(ms \o rs)
<1>1. PICK n \in Nat, k \in Nat : n = Len(ms) /\ k = Len(rs)
  OBVIOUS
<1>2. PICK q \in Seq(Msg) : q = ms \o rs
  <2>1. ms \o rs \in Seq(Msg)
    OBVIOUS
  <2> QED
    BY <2>1
<1>3. /\ DOMAIN ms = 1..n /\ DOMAIN rs = 1..k /\ DOMAIN q = 1..(n + k) /\ Len(q) = n + k
      /\ \A i \in 1..n : q[i] = ms[i]
      /\ \A i \in 1..k : q[n + i] = rs[i]
  BY <1>1, <1>2
<1>4. q # <<>> => q[Len(q)].type \in Closing
  <2>1. CASE k # 0
    <3>1. rs # <<>> /\ k \in 1..k
      BY <1>1, <2>1
    <3> QED
      BY <1>1, <1>3, <3>1 DEF WellSent
  <2>2. CASE k = 0 /\ n # 0
    <3>1. ms # <<>> /\ n \in 1..n /\ n + k = n
      BY <1>1, <2>2
    <3> QED
      BY <1>1, <1>3, <3>1 DEF WellSent
  <2>3. CASE k = 0 /\ n = 0
    BY <1>3, <2>3
  <2> QED
    BY <2>1, <2>2, <2>3
<1>5. ASSUME NEW i \in DOMAIN q, q[i].type \in {"added", "reset"}
      PROVE  \E j \in DOMAIN q : j > i /\ q[j].type = "current"
  <2>1. CASE i <= n
    <3>1. i \in DOMAIN ms /\ ms[i].type \in {"added", "reset"}
      BY <1>3, <1>5, <2>1
    <3>2. PICK j \in 1..n : j > i /\ ms[j].type = "current"
      BY <1>3, <3>1 DEF WellSent
    <3>3. j \in DOMAIN q /\ q[j] = ms[j]
      BY <1>3
    <3> QED
      BY <3>2, <3>3
  <2>2. CASE i > n
    <3>1. PICK l \in 1..k : i = n + l
      <4>1. i - n \in 1..k /\ i = n + (i - n)
        BY <1>3, <2>2
      <4> QED
        BY <4>1
    <3>2. PICK j \in 1..k : j > l /\ rs[j].type = "current"
      BY <1>3, <1>5, <3>1 DEF WellSent
    <3>3. n + j \in DOMAIN q /\ n + j > i /\ q[n + j] = rs[j]
      BY <1>3, <3>1, <3>2
    <3> QED
      BY <3>2, <3>3
  <2> QED
    BY <1>3, <2>1, <2>2
<1> QED
  BY <1>2, <1>4, <1>5 DEF WellSent

\* The first message, and the rest.
LEMMA SentRead ==
  ASSUME NEW ms \in Seq(Msg), ms # <<>>, WellSent(ms)
  PROVE  /\ Tail(ms) \in Seq(Msg) /\ WellSent(Tail(ms))
         /\ Head(ms).type \in {"added", "reset"} => HasCurrent(Tail(ms))
         /\ HasCurrent(ms) => Head(ms).type = "current" \/ HasCurrent(Tail(ms))
         /\ Tail(ms) = <<>> => Head(ms).type \in Closing
<1>1. PICK n \in Nat : Len(ms) = n + 1
  <2>1. Len(ms) - 1 \in Nat /\ Len(ms) = Len(ms) - 1 + 1
    OBVIOUS
  <2> QED
    BY <2>1
<1>2. PICK q \in Seq(Msg) : q = Tail(ms)
  <2>1. Tail(ms) \in Seq(Msg)
    OBVIOUS
  <2> QED
    BY <2>1
<1>3. /\ Head(ms) = ms[1] /\ Len(q) = n /\ DOMAIN q = 1..n /\ DOMAIN ms = 1..(n + 1)
      /\ \A i \in 1..n : q[i] = ms[i + 1]
  BY <1>1, <1>2
<1>4. ASSUME NEW i \in DOMAIN ms, NEW j \in DOMAIN ms, j > i
      PROVE  \E l \in DOMAIN q : j = l + 1 /\ q[l] = ms[j] /\ l >= i
  <2>1. j - 1 \in 1..n /\ j = (j - 1) + 1 /\ j - 1 >= i
    BY <1>3, <1>4
  <2> QED
    BY <1>3, <2>1
<1>5. 1 \in DOMAIN ms
  BY <1>3
<1>6. q # <<>> => q[Len(q)].type \in Closing
  <2>1. q # <<>> => n \in 1..n /\ q[n] = ms[n + 1]
    BY <1>3
  <2> QED
    BY <1>1, <1>3, <2>1 DEF WellSent
<1>7. ASSUME NEW i \in DOMAIN q, q[i].type \in {"added", "reset"}
      PROVE  \E j \in DOMAIN q : j > i /\ q[j].type = "current"
  <2>1. i + 1 \in DOMAIN ms /\ ms[i + 1].type \in {"added", "reset"}
    BY <1>3, <1>7
  <2>2. PICK j \in DOMAIN ms : j > i + 1 /\ ms[j].type = "current"
    BY <2>1 DEF WellSent
  <2>3. PICK l \in DOMAIN q : j = l + 1 /\ q[l] = ms[j] /\ l >= i + 1
    BY <1>4, <2>1, <2>2
  <2> QED
    BY <1>3, <2>1, <2>2, <2>3
<1>8. Head(ms).type \in {"added", "reset"} => HasCurrent(q)
  <2> SUFFICES ASSUME Head(ms).type \in {"added", "reset"} PROVE HasCurrent(q)
    OBVIOUS
  <2>1. PICK j \in DOMAIN ms : j > 1 /\ ms[j].type = "current"
    BY <1>3, <1>5 DEF WellSent
  <2> QED
    BY <1>4, <1>5, <2>1 DEF HasCurrent
<1>9. HasCurrent(ms) => Head(ms).type = "current" \/ HasCurrent(q)
  <2> SUFFICES ASSUME NEW j \in DOMAIN ms, ms[j].type = "current", j # 1
               PROVE  HasCurrent(q)
    BY <1>3 DEF HasCurrent
  <2>1. j > 1
    BY <1>3
  <2> QED
    BY <1>4, <1>5, <2>1 DEF HasCurrent
<1>10. q = <<>> => Head(ms).type \in Closing
  <2>1. q = <<>> => n = 0 /\ Len(ms) = 1
    BY <1>1, <1>3
  <2> QED
    BY <1>3, <2>1 DEF WellSent
<1> QED
  BY <1>2, <1>6, <1>7, <1>8, <1>9, <1>10 DEF WellSent

\* What is sent is whole: "current" at n, nothing that takes it away behind it,
\* and a snapshot at the end.
LEMMA SentBy ==
  ASSUME NEW ms \in Seq(Msg), NEW n \in 1..Len(ms), ms[n].type = "current",
         \A i \in (n + 1)..Len(ms) : ms[i].type \notin {"added", "reset"},
         ms[Len(ms)].type = "snapshot"
  PROVE  WellSent(ms)
<1>1. Len(ms) \in Nat /\ DOMAIN ms = 1..Len(ms)
  OBVIOUS
<1>2. ASSUME NEW i \in DOMAIN ms, ms[i].type \in {"added", "reset"}
      PROVE  \E j \in DOMAIN ms : j > i /\ ms[j].type = "current"
  <2>1. i # n
    BY <1>2
  <2>2. ~(i > n)
    BY <1>1, <1>2
  <2>3. n > i /\ n \in DOMAIN ms
    BY <1>1, <2>1, <2>2
  <2> QED
    BY <2>3
<1> QED
  BY <1>1, <1>2 DEF WellSent, Closing

\* Documents and a snapshot.
LEMMA SentPlain ==
  ASSUME NEW w \in Seq(Msg), \A i \in 1..Len(w) : w[i].type \in {"doc", "gone"},
         NEW docs \in SUBSET Keys
  PROVE  w \o <<Snapshot(docs)>> \in Seq(Msg) /\ WellSent(w \o <<Snapshot(docs)>>)
<1>1. PICK m \in Msg : m = Snapshot(docs) /\ m.type = "snapshot"
  BY SayingIs
<1>2. WellSent(w) \/ w # <<>>
  BY SentNothing
<1>3. PICK n \in Nat : n = Len(w)
  OBVIOUS
<1>4. PICK q \in Seq(Msg) : q = w \o <<m>>
  <2>1. w \o <<m>> \in Seq(Msg)
    OBVIOUS
  <2> QED
    BY <2>1
<1>5. /\ Len(q) = n + 1 /\ DOMAIN q = 1..(n + 1) /\ q[n + 1] = m
      /\ \A i \in 1..n : q[i] = w[i]
  BY <1>3, <1>4
<1>6. \A i \in DOMAIN q : q[i].type \notin {"added", "reset"}
  <2>1. \A i \in 1..(n + 1) : i = n + 1 \/ i \in 1..n
    OBVIOUS
  <2> QED
    BY <1>1, <1>3, <1>5, <2>1
<1>7. WellSent(q)
  BY <1>1, <1>5, <1>6 DEF WellSent, Closing
<1> QED
  BY <1>1, <1>4, <1>7

LEMMA ListenWellSent ==
  ASSUME IInv, ServeListen
  PROVE  \E rs \in Seq(Msg) : messages' = messages \o rs /\ WellSent(rs)
<1>1. present \in SUBSET Keys /\ Head(requests).from \in SUBSET Keys
  <2>1. requests # <<>> /\ requests \in Seq(Request)
    BY DEF IInv, TypeInv, ServeListen
  <2>2. Head(requests) \in Request
    BY <2>1
  <2> QED
    BY <2>2 DEF IInv, TypeInv, Request
<1>2. PICK lost \in SUBSET Keys : lost = Head(requests).from \ present
  BY <1>1
<1>3. PICK untold \in SUBSET lost :
        Sends(<<Message("added")>> \o Documents("doc", present \ Head(requests).from)
                \o Documents("gone", lost \ untold)
                \o <<Message("current")>>
                \o (IF untold = {} THEN <<>> ELSE <<Filter(Cardinality(present))>>)
                \o <<Snapshot(present)>>)
  BY <1>2 DEF ServeListen
<1>4. PICK h \in Seq(Msg) : h = <<Message("added")>> \o Documents("doc", present \ Head(requests).from)
                                  \o Documents("gone", lost \ untold)
  <2>1. PICK d1 \in Seq(Msg), d2 \in Seq(Msg) :
          /\ d1 = Documents("doc", present \ Head(requests).from)
          /\ d2 = Documents("gone", lost \ untold)
    <3>1. present \ Head(requests).from \in SUBSET Keys /\ lost \ untold \in SUBSET Keys
      BY <1>1
    <3>2. Documents("doc", present \ Head(requests).from) \in Seq(Quiet)
          /\ Documents("gone", lost \ untold) \in Seq(Quiet)
      BY <3>1, DocumentsQuiet
    <3> QED
      BY <3>2, Quiet \subseteq Msg DEF Quiet
  <2>2. PICK a \in Seq(Msg) : a = <<Message("added")>>
    <3>1. <<Message("added")>> \in Seq(Msg)
      BY OpensAlone DEF Opens, AnswerTypes
    <3> QED
      BY <3>1
  <2>3. a \o d1 \o d2 \in Seq(Msg)
    OBVIOUS
  <2> QED
    BY <2>1, <2>2, <2>3
<1>5. PICK c \in Msg, f \in Msg, m \in Msg :
        /\ c = Message("current") /\ c.type = "current"
        /\ f = Filter(Cardinality(present)) /\ f.type = "filter"
        /\ m = Snapshot(present) /\ m.type = "snapshot"
  BY <1>1, SayingIs
<1>6. CASE untold = {}
  <2>1. PICK rs \in Seq(Msg) : rs = h \o <<c>> \o <<>> \o <<m>>
    <3>1. h \o <<c>> \o <<>> \o <<m>> \in Seq(Msg)
      OBVIOUS
    <3> QED
      BY <3>1
  <2>2. PICK n \in Nat : n = Len(h)
    OBVIOUS
  <2>3. Len(rs) = n + 2 /\ rs[n + 1] = c /\ rs[n + 2] = m
    BY <2>1, <2>2
  <2>4. \A i \in (n + 1 + 1)..(n + 2) : i = n + 2
    BY <2>2
  <2>5. WellSent(rs)
    BY <1>5, <2>3, <2>4, SentBy
  <2>6. messages' = messages \o rs
    BY <1>3, <1>4, <1>5, <1>6, <2>1 DEF Sends
  <2> QED
    BY <2>5, <2>6
<1>7. CASE untold # {}
  <2>1. PICK rs \in Seq(Msg) : rs = h \o <<c>> \o <<f>> \o <<m>>
    <3>1. h \o <<c>> \o <<f>> \o <<m>> \in Seq(Msg)
      OBVIOUS
    <3> QED
      BY <3>1
  <2>2. PICK n \in Nat : n = Len(h)
    OBVIOUS
  <2>3. Len(rs) = n + 3 /\ rs[n + 1] = c /\ rs[n + 2] = f /\ rs[n + 3] = m
    <3>1. PICK r \in Seq(Msg) : r = h \o <<c>> /\ Len(r) = n + 1 /\ r[n + 1] = c
      <4>1. h \o <<c>> \in Seq(Msg) /\ Len(h \o <<c>>) = n + 1 /\ (h \o <<c>>)[n + 1] = c
        BY <2>2
      <4> QED
        BY <4>1
    <3>2. PICK s \in Seq(Msg) : s = r \o <<f>> /\ Len(s) = n + 2 /\ s[n + 1] = c /\ s[n + 2] = f
      <4>1. /\ r \o <<f>> \in Seq(Msg) /\ Len(r \o <<f>>) = n + 2
            /\ (r \o <<f>>)[n + 1] = c /\ (r \o <<f>>)[n + 2] = f
        BY <2>2, <3>1
      <4> QED
        BY <4>1
    <3>3. rs = s \o <<m>>
      BY <2>1, <3>1, <3>2, Zenon
    <3> QED
      BY <2>2, <3>2, <3>3
  <2>4. \A i \in (n + 1 + 1)..(n + 3) : i = n + 2 \/ i = n + 3
    BY <2>2
  <2>5. WellSent(rs)
    BY <1>5, <2>3, <2>4, SentBy
  <2>6. messages' = messages \o rs
    BY <1>3, <1>4, <1>5, <1>7, <2>1 DEF Sends
  <2> QED
    BY <2>5, <2>6
<1> QED
  BY <1>6, <1>7

LEMMA ChangesWellSent ==
  ASSUME IInv, CollectionChanges
  PROVE  \E rs \in Seq(Msg) : messages' = messages \o rs /\ WellSent(rs)
<1>1. PICK k \in Keys : \E change \in Changes :
        /\ present' = IF Last(change) = "doc" THEN present \cup {k} ELSE present \ {k}
        /\ Sends(IF serving
                 THEN [i \in DOMAIN change |-> Document(change[i], k)] \o <<Snapshot(present')>>
                 ELSE <<>>)
  BY DEF CollectionChanges
<1>2. PICK change \in Changes :
        /\ present' = IF Last(change) = "doc" THEN present \cup {k} ELSE present \ {k}
        /\ Sends(IF serving
                 THEN [i \in DOMAIN change |-> Document(change[i], k)] \o <<Snapshot(present')>>
                 ELSE <<>>)
  BY <1>1
<1>3. present' \in SUBSET Keys
  BY <1>2 DEF IInv, TypeInv
<1>4. PICK n \in 1..2 : change \in [1..n -> {"doc", "gone"}]
  <2>1. CASE Len(change) = 1
    BY <2>1 DEF Changes
  <2>2. CASE Len(change) = 2
    BY <2>2 DEF Changes
  <2> QED
    BY <2>1, <2>2 DEF Changes
<1>5. PICK w \in Seq(Msg) : /\ w = [i \in DOMAIN change |-> Document(change[i], k)]
                            /\ \A i \in 1..Len(w) : w[i].type \in {"doc", "gone"}
  <2>1. \A i \in 1..n : Document(change[i], k) \in Msg /\ Document(change[i], k).type \in {"doc", "gone"}
    BY <1>4 DEF Document, Message, Msg, QuietTypes
  <2>2. PICK w : w = [i \in DOMAIN change |-> Document(change[i], k)]
    OBVIOUS
  <2>3. w \in [1..n -> Msg] /\ \A i \in 1..n : w[i].type \in {"doc", "gone"}
    BY <1>4, <2>1, <2>2
  <2>4. w \in Seq(Msg) /\ Len(w) = n
    BY <2>3
  <2> QED
    BY <2>2, <2>3, <2>4
<1>6. CASE serving
  <2>1. w \o <<Snapshot(present')>> \in Seq(Msg) /\ WellSent(w \o <<Snapshot(present')>>)
    BY <1>3, <1>5, SentPlain
  <2>2. messages' = messages \o (w \o <<Snapshot(present')>>)
    BY <1>2, <1>5, <1>6 DEF Sends
  <2> QED
    BY <2>1, <2>2
<1>7. CASE ~serving
  <2>1. messages' = messages \o <<>>
    BY <1>2, <1>7 DEF Sends
  <2>2. <<>> \in Seq(Msg)
    OBVIOUS
  <2> QED
    BY <2>1, <2>2, SentNothing
<1> QED
  BY <1>6, <1>7

LEMMA ResetsWellSent ==
  ASSUME IInv, ServerResets
  PROVE  \E rs \in Seq(Msg) : messages' = messages \o rs /\ WellSent(rs)
<1>1. present \in SUBSET Keys
  BY DEF IInv, TypeInv
<1>2. PICK h \in Seq(Msg) : h = <<Message("reset")>> \o Documents("doc", present)
  <2>1. PICK d \in Seq(Msg) : d = Documents("doc", present)
    <3>1. Documents("doc", present) \in Seq(Quiet)
      BY <1>1, DocumentsQuiet
    <3> QED
      BY <3>1, Quiet \subseteq Msg DEF Quiet
  <2>2. PICK a \in Msg : a = Message("reset")
    BY SayingIs
  <2>3. <<a>> \o d \in Seq(Msg)
    OBVIOUS
  <2> QED
    BY <2>1, <2>2, <2>3
<1>3. PICK c \in Msg, m \in Msg :
        /\ c = Message("current") /\ c.type = "current"
        /\ m = Snapshot(present) /\ m.type = "snapshot"
  BY <1>1, SayingIs
<1>4. PICK rs \in Seq(Msg) : rs = h \o <<c, m>>
  <2>1. h \o <<c, m>> \in Seq(Msg)
    OBVIOUS
  <2> QED
    BY <2>1
<1>5. PICK n \in Nat : n = Len(h)
  OBVIOUS
<1>6. Len(rs) = n + 2 /\ rs[n + 1] = c /\ rs[n + 2] = m
  BY <1>4, <1>5
<1>7. \A i \in (n + 1 + 1)..(n + 2) : i = n + 2
  BY <1>5
<1>8. WellSent(rs)
  BY <1>3, <1>6, <1>7, SentBy
<1>9. messages' = messages \o rs
  BY <1>2, <1>3, <1>4 DEF ServerResets, Sends
<1> QED
  BY <1>8, <1>9

\* Every message ever sent is part of such a whole.
LEMMA SentGood == IInv /\ SentInv /\ [Next]_vars => SentInv'
<1> SUFFICES ASSUME IInv, SentInv, [Next]_vars PROVE SentInv'
  OBVIOUS
<1>1. messages \in Seq(Msg)
  BY DEF IInv, TypeInv
<1>2. ASSUME NEW rs \in Seq(Msg), messages' = messages \o rs, WellSent(rs)
      PROVE  SentInv'
  BY <1>1, <1>2, SentOn DEF SentInv
<1>3. ASSUME messages' = messages PROVE SentInv'
  BY <1>3 DEF SentInv
<1>4. ASSUME Read PROVE SentInv'
  BY <1>1, <1>4, SentRead DEF SentInv, Read
<1>5. ASSUME Disconnected PROVE SentInv'
  BY <1>5, SentNothing DEF SentInv, Disconnected
<1>6. CASE Client
  BY <1>3, <1>4, <1>6 DEF Client, StreamOpens, ReadChange, RaiseWatchSnapshot, TargetRefused
<1>7. CASE Server
  <2>1. CASE ServeListen
    BY <1>2, <2>1, ListenWellSent
  <2>2. CASE ServeUnlisten
    <3>1. Message("removed") \in Msg /\ Message("removed").type \in Closing
      BY DEF Message, Msg, AnswerTypes, Closing
    <3> QED
      BY <1>2, <2>2, <3>1, SentAlone DEF ServeUnlisten, Sends
  <2> QED
    BY <1>7, <2>1, <2>2 DEF Server
<1>8. CASE Listen \/ StopListening
  BY <1>3, <1>8 DEF Listen, StopListening
<1>9. CASE StreamLost \/ Die
  BY <1>5, <1>9 DEF StreamLost, Die
<1>10. CASE RefuseListen
  <2>1. Message("refused") \in Msg /\ Message("refused").type \in Closing
    BY DEF Message, Msg, AnswerTypes, Closing
  <2> QED
    BY <1>2, <1>10, <2>1, SentAlone DEF RefuseListen, Sends
<1>11. CASE CollectionChanges \/ ServerResets
  BY <1>2, <1>11, ChangesWellSent, ResetsWellSent
<1>12. CASE UNCHANGED vars
  BY <1>3, <1>12 DEF vars
<1> QED
  BY <1>6, <1>7, <1>8, <1>9, <1>10, <1>11, <1>12 DEF Next

\* With a request not served an answer is to come.
LEMMA Owed == IInv /\ open /\ NoRefusalCrossed /\ requests # <<>> => state.pending # 0
BY Awaited

LEMMA ServerDone ==
  ASSUME SInv, Uncut' => Uncut, UNCHANGED clientVars,
         NEW rs \in Seq(Msg), messages' = messages \o rs
  PROVE  DoneInv'
<1>1. messages \in Seq(Msg)
  BY DEF SInv, CInv, IInv, TypeInv
<1>2. messages' = <<>> => messages = <<>>
  <2>1. Len(messages \o rs) = Len(messages) + Len(rs) /\ Len(messages) \in Nat /\ Len(rs) \in Nat
    BY <1>1
  <2>2. messages' = <<>> => Len(messages) = 0
    BY <2>1
  <2> QED
    BY <1>1, <2>2
<1>3. HasCurrent(messages) => HasCurrent(messages')
  <2> SUFFICES ASSUME NEW j \in DOMAIN messages, messages[j].type = "current"
               PROVE  HasCurrent(messages')
    BY DEF HasCurrent
  <2>1. j \in DOMAIN messages' /\ messages'[j] = messages[j]
    BY <1>1
  <2> QED
    BY <2>1 DEF HasCurrent
<1> QED
  BY <1>2, <1>3 DEF SInv, DoneInv, clientVars

\* The flag of an active target after a message that answers nothing.
LEMMA CurrentAfter ==
  ASSUME TypeInv, Active(state), NEW m \in Msg, m.type \in QuietTypes, m.type # "snapshot",
         ~Mismatched(state, m)
  PROVE  AfterMessage(state, m).current =
           CASE m.type = "current" -> TRUE [] m.type = "reset" -> FALSE [] OTHER -> state.current
<1>1. state \in Entry
  BY DEF TypeInv
<1>2. CASE m.type = "doc" \/ m.type = "gone"
  <2>1. \A k, how : Changed(state, k, how).current = state.current
    BY <1>1 DEF Changed, Entry
  <2>2. \A k : Forgotten(state, k).current = state.current
    BY <1>1 DEF Forgotten, Entry
  <2>3. \A k : /\ AddDocument(state, k).current = state.current
               /\ RemoveDocument(state, k).current = state.current
    BY <2>1, <2>2 DEF AddDocument, RemoveDocument
  <2>4. AfterMessage(state, m).current = state.current
    BY <1>2, <2>3 DEF AfterMessage, Told
  <2> QED
    BY <1>2, <2>4
<1>3. CASE m.type = "current"
  <2>1. AfterMessage(state, m) = [state EXCEPT !.current = TRUE]
    BY <1>3 DEF AfterMessage, Told
  <2> QED
    BY <1>1, <1>3, <2>1 DEF Entry
<1>4. CASE m.type = "reset"
  <2>1. AfterMessage(state, m) = ResetState
    BY <1>4 DEF AfterMessage, Told
  <2> QED
    BY <1>4, <2>1 DEF ResetState, NewState
<1>5. CASE m.type = "filter"
  <2>1. AfterMessage(state, m) = state
    BY <1>5 DEF AfterMessage, Told, Mismatched
  <2> QED
    BY <1>5, <2>1
<1> QED
  BY <1>2, <1>3, <1>4, <1>5 DEF QuietTypes

LEMMA ReadChangeDone == SInv /\ ReadChange => DoneInv'
<1> SUFFICES ASSUME SInv, ReadChange, Uncut', open', listened', state'.pending = 0, ~mismatch'
             PROVE  /\ state'.current \/ HasCurrent(messages')
                    /\ messages' = <<>> => current' /\ state'.changes = <<>>
  BY DEF DoneInv
<1> USE DEF SInv, CInv
<1>1. PICK m : m = Head(messages)
  OBVIOUS
<1>2. /\ messages \in Seq(Msg) /\ messages # <<>> /\ messages' = Tail(messages) /\ m \in Msg
      /\ m.type \notin {"snapshot", "refused"} /\ TypeInv /\ WellSent(messages)
  <2>1. /\ messages \in Seq(Msg) /\ messages # <<>> /\ messages' = Tail(messages)
        /\ Head(messages).type \notin {"snapshot", "refused"}
    BY DEF ReadChange, Read, IInv, TypeInv
  <2> QED
    BY <1>1, <2>1 DEF IInv, SentInv
<1>3. /\ state' = AfterMessage(state, m) /\ mismatch' = (mismatch \/ Mismatched(state, m))
      /\ UNCHANGED <<open, listened, requests, current>>
  BY <1>1 DEF ReadChange
<1>4. Uncut /\ open /\ listened /\ ~mismatch /\ ~Mismatched(state, m)
  <2>1. Uncut
    BY UncutBefore DEF Next, Client
  <2>2. ~mismatch /\ ~Mismatched(state, m)
    BY <1>3, Zenon
  <2> QED
    BY <1>3, <2>1, <2>2
<1>5. /\ m.type \in AnswerTypes => state'.pending = state.pending - 1
      /\ m.type \notin AnswerTypes => state'.pending = state.pending
  <2>1. state \in Entry /\ Kind(state, "modified") \subseteq synced
    BY <1>2 DEF IInv, TypeInv, ModifiedInv
  <2> QED
    BY <1>2, <1>3, <2>1, AfterMessageIs
<1>6. /\ m.type \in {"added", "reset"} => HasCurrent(messages')
      /\ HasCurrent(messages) => m.type = "current" \/ HasCurrent(messages')
      /\ messages' = <<>> => m.type \in Closing
  BY <1>1, <1>2, SentRead
<1>7. m.type \in AnswerTypes => 1 \in Answers(messages)
  <2>1. 1 \in DOMAIN messages /\ m = messages[1]
    BY <1>1, <1>2
  <2> QED
    BY <2>1 DEF Answers, AnswerTypes
<1>8. CASE state.pending = 0
  <2>1. m.type \notin AnswerTypes
    BY <1>4, <1>7, <1>8, Awaited DEF Uncut
  <2>2. m.type \in QuietTypes /\ m.type # "snapshot"
    BY <1>2, <2>1 DEF Msg
  <2>3. Active(state)
    BY <1>4, <1>8 DEF Active
  <2>4. state'.current =
          CASE m.type = "current" -> TRUE [] m.type = "reset" -> FALSE [] OTHER -> state.current
    BY <1>2, <1>3, <1>4, <2>2, <2>3, CurrentAfter
  <2>5. state.current \/ HasCurrent(messages)
    BY <1>4, <1>8 DEF DoneInv
  <2>6. state'.current \/ HasCurrent(messages')
    <3>1. CASE m.type \in {"current", "reset"}
      BY <1>6, <2>4, <3>1
    <3>2. CASE m.type \notin {"current", "reset"}
      BY <1>6, <2>4, <2>5, <3>2
    <3> QED
      BY <3>1, <3>2
  <2> QED
    BY <1>2, <1>6, <2>1, <2>6 DEF Closing, AnswerTypes
<1>9. CASE state.pending # 0
  <2>1. m.type \in AnswerTypes /\ state.pending = 1
    <3>1. state.pending \in Nat
      BY <1>4, Awaited DEF Uncut
    <3> QED
      BY <1>5, <1>9, <3>1
  <2>2. requests = <<>>
    BY <1>4, <1>7, <2>1, Awaited DEF Uncut
  <2>3. LastAnswer(messages) /\ messages[1] = m
    BY <1>1, <1>2, <1>4, <1>9, <2>1, <2>2, WaitsOn
  <2>4. m.type = "added"
    BY <1>2, <2>1, <2>3 DEF LastAnswer, AnswerTypes
  <2> QED
    BY <1>6, <2>4 DEF Closing
<1> QED
  BY <1>8, <1>9

LEMMA RaiseWatchSnapshotDone == SInv /\ IInv' /\ RaiseWatchSnapshot => DoneInv'
<1> SUFFICES ASSUME SInv, IInv', RaiseWatchSnapshot,
                    Uncut', open', listened', state'.pending = 0, ~mismatch'
             PROVE  /\ state'.current \/ HasCurrent(messages')
                    /\ messages' = <<>> => current' /\ state'.changes = <<>>
  BY DEF DoneInv
<1> USE DEF SInv, CInv
<1>1. /\ messages \in Seq(Msg) /\ messages # <<>> /\ messages' = Tail(messages)
      /\ Head(messages).type = "snapshot" /\ WellSent(messages) /\ state \in Entry
      /\ requests \in Seq(Request)
  BY DEF RaiseWatchSnapshot, Read, IInv, TypeInv, SentInv
<1>2. Uncut /\ open /\ listened
  <2>1. Uncut
    BY UncutBefore DEF Next, Client
  <2> QED
    BY <2>1 DEF RaiseWatchSnapshot
<1>3. requests' = <<>>
  <2>1. (IInv /\ open /\ NoRefusalCrossed /\ requests # <<>> => state.pending # 0)'
    BY Owed, PTL
  <2> QED
    BY <2>1 DEF Uncut
<1>4. ~mismatch
  <2> SUFFICES ASSUME mismatch PROVE FALSE
    OBVIOUS
  <2>1. requests' = requests \o <<Unlistening, Listening({})>>
    BY <1>2 DEF RaiseWatchSnapshot, Send
  <2> QED
    BY <1>1, <1>3, <2>1
<1>5. Active(state)
  <2>1. ~Active(state) => state' = state
    BY <1>2, <1>4 DEF RaiseWatchSnapshot
  <2> QED
    BY <1>2, <2>1 DEF Active
<1>6. state' = [state EXCEPT !.changes = <<>>] /\ current' = state.current
  BY <1>2, <1>4, <1>5 DEF RaiseWatchSnapshot, ApplyTargetChange
<1>7. state'.current = state.current /\ state'.changes = <<>>
  BY <1>1, <1>6 DEF Entry
<1>8. state.current \/ HasCurrent(messages')
  <2>1. HasCurrent(messages) => HasCurrent(messages')
    BY <1>1, SentRead
  <2> QED
    BY <1>2, <1>4, <1>5, <2>1 DEF DoneInv, Active
<1>9. messages' = <<>> => ~HasCurrent(messages')
  <2>1. DOMAIN <<>> = {}
    OBVIOUS
  <2> QED
    BY <2>1 DEF HasCurrent
<1> QED
  BY <1>6, <1>7, <1>8, <1>9

LEMMA DoneGood == SInv /\ [Next]_vars => SInv'
<1> SUFFICES ASSUME SInv, [Next]_vars PROVE SInv'
  OBVIOUS
<1>1. CInv' /\ IInv' /\ IInv
  BY ViewGood DEF SInv, CInv
<1>2. SentInv'
  BY <1>1, SentGood DEF SInv
<1>3. Uncut' => Uncut
  BY <1>1, UncutBefore
<1>4. SUFFICES DoneInv'
  BY <1>1, <1>2 DEF SInv
<1>5. ASSUME ~listened' \/ ~open' PROVE DoneInv'
  BY <1>5 DEF DoneInv
<1>6. ASSUME requests' # <<>> PROVE DoneInv'
  <2>1. (IInv /\ open /\ NoRefusalCrossed /\ requests # <<>> => state.pending # 0)'
    BY Owed, PTL
  <2> QED
    BY <1>1, <1>6, <2>1 DEF DoneInv, Uncut
<1>7. CASE Client
  <2>1. CASE StreamOpens
    BY <1>6, <2>1 DEF StreamOpens
  <2>2. CASE ReadChange
    BY <2>2, ReadChangeDone
  <2>3. CASE RaiseWatchSnapshot
    BY <1>1, <2>3, RaiseWatchSnapshotDone
  <2>4. CASE TargetRefused
    BY <1>5, <2>4 DEF TargetRefused
  <2> QED
    BY <1>7, <2>1, <2>2, <2>3, <2>4 DEF Client
<1>8. CASE Server
  <2>1. CASE ServeListen
    BY <1>1, <1>3, <2>1, ListenWellSent, ServerDone DEF ServeListen
  <2>2. CASE ServeUnlisten
    <3>1. <<Message("removed")>> \in Seq(Msg)
      BY OpensAlone DEF Opens, AnswerTypes
    <3> QED
      BY <1>3, <2>2, <3>1, ServerDone DEF ServeUnlisten, Sends
  <2> QED
    BY <1>8, <2>1, <2>2 DEF Server
<1>9. CASE Listen
  <2>1. open => requests' # <<>>
    <3>1. requests \in Seq(Request) /\ Listening(token) \in Request
      BY <1>1 DEF IInv, TypeInv, Listening, Request
    <3>2. open => requests' = requests \o <<Listening(token)>>
      BY <1>9 DEF Listen, Send
    <3>3. requests \o <<Listening(token)>> # <<>>
      BY <3>1
    <3> QED
      BY <3>2, <3>3
  <2>2. ~open => ~open'
    BY <1>9 DEF Listen
  <2> QED
    BY <1>5, <1>6, <2>1, <2>2
<1>10. CASE StopListening \/ StreamLost \/ Die
  BY <1>5, <1>10 DEF StopListening, StreamLost, Die, Disconnected
<1>11. CASE RefuseListen
  <2>1. <<Message("refused")>> \in Seq(Msg)
    BY OpensAlone DEF Opens, AnswerTypes
  <2> QED
    BY <1>3, <1>11, <2>1, ServerDone DEF RefuseListen, Sends
<1>12. CASE CollectionChanges
  BY <1>1, <1>3, <1>12, ChangesWellSent, ServerDone DEF CollectionChanges
<1>13. CASE ServerResets
  BY <1>1, <1>3, <1>13, ResetsWellSent, ServerDone DEF ServerResets
<1>14. CASE UNCHANGED vars
  BY <1>3, <1>14 DEF SInv, DoneInv, HasCurrent, vars, clientVars
<1> QED
  BY <1>7, <1>8, <1>9, <1>10, <1>11, <1>12, <1>13, <1>14 DEF Next

\* With no request to serve and no message to read, a query that is listened
\* to is current and has what the server has: RaiseWatchSnapshot, the answers
\* counted and the mismatches listened to anew leave nothing behind that only
\* another message would put right.
THEOREM SettledViewCorrect == Spec => []SettledViewIsServers
<1>1. Init => SInv
  <2> SUFFICES ASSUME Init PROVE SInv
    OBVIOUS
  <2>1. CInv
    BY InitGood, InitView DEF CInv
  <2>2. SentInv /\ DoneInv
    BY SentNothing DEF Init, SentInv, DoneInv
  <2> QED
    BY <2>1, <2>2 DEF SInv
<1>2. SInv => SettledViewIsServers
  <2> SUFFICES ASSUME SInv, open, listened, requests = <<>>, messages = <<>>, ~cut, NoRefusalCrossed
               PROVE  current /\ synced = present
    BY DEF SettledViewIsServers
  <2> USE DEF SInv, CInv
  <2>1. Uncut /\ ~mismatch
    BY DEF Uncut, ViewInv, MismatchInv
  <2>2. state.pending = 0
    BY NoAnswers, Awaited
  <2>3. current /\ state.changes = <<>>
    BY <2>1, <2>2 DEF DoneInv
  <2>4. Course(<<>>, Shown(synced, state), present)
    BY <2>1, <2>2 DEF ViewInv, FollowsInv
  <2>5. Shown(synced, state) = present
    BY <2>4 DEF Course
  <2>6. Shown(synced, state) = synced
    BY <2>3, KindsCleared DEF Shown
  <2> QED
    BY <2>3, <2>5, <2>6
<1> QED
  BY <1>1, <1>2, DoneGood, PTL DEF Spec

=============================================================================
