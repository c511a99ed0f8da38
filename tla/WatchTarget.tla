----------------------------- MODULE WatchTarget -----------------------------
(***************************************************************************)
(* remote/remote_event.cc and the watch half of remote_store.cc for one    *)
(* target, the app's query: listens and unlistens on their way to the      *)
(* server, its messages on their way back, and what the aggregator makes   *)
(* of them at each snapshot.  A listen goes on from a resume token, which  *)
(* stands for the documents the server knows the client to have.           *)
(*                                                                         *)
(* The server is modelled from what the client reads: it serves requests   *)
(* in order; a listen is answered with the difference from the token and   *)
(* "current", a count to check (an existence filter) if part of it was     *)
(* left out, and a snapshot.                                               *)
(***************************************************************************)
EXTENDS Integers, FiniteSets, SequencesExt

CONSTANTS
  Keys,        \* documents
  MaxChanges,  \* bound on changes of the collection
  MaxListens,  \* bound on listens of the app
  MaxUnlistens, \* bound on their ends
  MaxForgets,  \* bound on deletions the server reports by count only
  MaxRefusals, \* bound on listens the server refuses
  MaxFails,    \* bound on streams lost
  MaxDeaths    \* bound on ends of the process

ASSUME WatchAssumption ==
  /\ IsFiniteSet(Keys)
  /\ MaxChanges \in Nat /\ MaxListens \in Nat /\ MaxUnlistens \in Nat
  /\ MaxForgets \in Nat /\ MaxRefusals \in Nat /\ MaxFails \in Nat /\ MaxDeaths \in Nat

VARIABLES
  open,        \* the watch stream is open
  listened,    \* the target is in listen_targets_
  resume,      \* its resume token there
  token,       \* LocalStore's, on disk
  synced,      \* View::synced_documents_, on disk too
  current,     \* View::current_
  state,       \* the target's entry in target_states_
  mismatch,    \* the target is in pending_target_resets_
  broken,      \* a HARD_ASSERT failed
  requests,    \* listens and unlistens the server has not served
  messages,    \* messages the client has not read
  present,     \* the server's documents
  serving,     \* the server has the target
  asOf,        \* history: the documents at the last snapshot that was raised
  cut,         \* history: a listen ended before a reset of its target was done
  spent        \* what is spent of each bound

clientVars == <<open, listened, resume, token, synced, current, state, mismatch, broken>>
serverVars == <<present, serving>>
vars == <<clientVars, requests, messages, serverVars, asOf, cut, spent>>

NewState == [pending |-> 0, current |-> FALSE, changes |-> <<>>]

Spend(kind, max) == spent[kind] < max /\ spent' = [spent EXCEPT ![kind] = @ + 1]

Listening(from) == [op |-> "watch", from |-> from]
Unlistening     == [op |-> "unwatch", from |-> {}]

Message(type)      == [type |-> type, keys |-> {}, count |-> 0]
Document(type, k)  == [Message(type) EXCEPT !.keys = {k}]
Snapshot(docs)     == [Message("snapshot") EXCEPT !.keys = docs]
Filter(n)          == [Message("filter") EXCEPT !.count = n]
Documents(type, ks) == SetToSeq({ Document(type, k) : k \in ks })

-----------------------------------------------------------------------------
(* WatchChangeAggregator, on the target's entry s.                         *)

\* Slip: messages count whatever answers are outstanding.
Active_Always(s) == listened

\* IsActiveTarget: listened to, and every request on it answered.
Active(s) == listened /\ s.pending = 0

\* RecordPendingTargetRequest, n times.
Requested(s, n) == [s EXCEPT !.pending = @ + n]

Changed(s, k, how) ==
  [s EXCEPT !.changes = [j \in DOMAIN @ \cup {k} |-> IF j = k THEN how ELSE @[j]]]

Forgotten(s, k) == [s EXCEPT !.changes = [j \in DOMAIN @ \ {k} |-> @[j]]]

\* Slip: a document sent twice between snapshots is modified.
AddDocument_Twice(s, k) ==
  Changed(s, k, IF k \in synced \cup DOMAIN s.changes THEN "modified" ELSE "added")

AddDocument(s, k) == Changed(s, k, IF k \in synced THEN "modified" ELSE "added")

RemoveDocument(s, k) == IF k \in synced THEN Changed(s, k, "removed") ELSE Forgotten(s, k)

Kind(s, how) == { k \in DOMAIN s.changes : s.changes[k] = how }

\* GetCurrentDocumentCountForTarget.
CurrentCount(s) ==
  Cardinality(synced) + Cardinality(Kind(s, "added")) - Cardinality(Kind(s, "removed"))

\* ResetTarget: all that is known goes, unless it is sent again.
ResetState == [NewState EXCEPT !.changes = [k \in synced |-> "removed"]]

\* Slip: what was told before the listen stays.
TargetAdded_Keeps(s) == [s EXCEPT !.pending = @ - 1]

\* HandleTargetChange for an answer to a listen.
TargetAdded(s) ==
  IF s.pending = 1 THEN [s EXCEPT !.pending = 0, !.changes = <<>>] ELSE [s EXCEPT !.pending = @ - 1]

\* ... and to an unlisten.
TargetRemoved(s) == IF s.pending = 1 THEN NewState ELSE [s EXCEPT !.pending = @ - 1]

\* The entry of an active target after message m.
Told(s, m) ==
  CASE m.type = "doc"     -> AddDocument(s, CHOOSE k \in m.keys : TRUE)
    [] m.type = "gone"    -> RemoveDocument(s, CHOOSE k \in m.keys : TRUE)
    [] m.type = "current" -> [s EXCEPT !.current = TRUE]
    [] m.type = "reset"   -> ResetState
    [] m.type = "filter"  -> IF CurrentCount(s) # m.count THEN ResetState ELSE s

\* ... and of any: until the answers are in, nothing else counts.
AfterMessage(s, m) ==
  CASE m.type = "added"   -> TargetAdded(s)
    [] m.type = "removed" -> TargetRemoved(s)
    [] OTHER              -> IF Active(s) THEN Told(s, m) ELSE s

\* Slip: a filter is not checked.
Mismatched_Never(s, m) == FALSE

Mismatched(s, m) == m.type = "filter" /\ Active(s) /\ CurrentCount(s) # m.count

-----------------------------------------------------------------------------
(* Calls of the app, the stream and the process.                           *)

Init ==
  /\ open = FALSE /\ listened = FALSE /\ resume = {} /\ token = {}
  /\ synced = {} /\ current = FALSE /\ state = NewState /\ mismatch = FALSE /\ broken = FALSE
  /\ requests = <<>> /\ messages = <<>>
  /\ present \in SUBSET Keys /\ serving = FALSE
  /\ asOf = {} /\ cut = FALSE
  /\ spent = [kind \in {"changes", "listens", "unlistens", "forgets", "refusals",
                         "fails", "deaths"} |-> 0]

\* SendWatchRequest and SendUnwatchRequest, when the stream is open.
Send(ops, s) ==
  IF open THEN requests' = requests \o ops /\ state' = Requested(s, Len(ops))
          ELSE requests' = requests /\ state' = s

\* SyncEngine::Listen and RemoteStore::Listen, from the token on disk.
Listen ==
  /\ ~listened /\ listened' = TRUE /\ Spend("listens", MaxListens)
  /\ resume' = token /\ current' = FALSE
  /\ Send(<<Listening(token)>>, state)
  /\ UNCHANGED <<open, token, synced, mismatch, broken, messages, serverVars, asOf, cut>>

\* A listen to a target whose reset is still to be answered ends.
ListenEnds == cut' = (cut \/ mismatch \/ resume # token)

StopListening ==
  /\ listened /\ listened' = FALSE /\ Spend("unlistens", MaxUnlistens)
  /\ current' = FALSE
  /\ Send(<<Unlistening>>, state)
  /\ ListenEnds
  /\ UNCHANGED <<open, resume, token, synced, mismatch, broken, messages, serverVars, asOf>>

\* StartWatchStream makes a new aggregator; OnWatchStreamOpen listens again.
StreamOpens ==
  /\ ~open /\ listened /\ open' = TRUE
  /\ requests' = <<Listening(resume)>> /\ state' = Requested(NewState, 1)
  /\ UNCHANGED <<listened, resume, token, synced, current, mismatch, broken, messages,
                 serverVars, asOf, cut, spent>>

Disconnected ==
  /\ open' = FALSE /\ state' = NewState /\ mismatch' = FALSE
  /\ requests' = <<>> /\ messages' = <<>> /\ serving' = FALSE
  /\ UNCHANGED <<resume, token, synced, broken, present, asOf>>

\* OnWatchStreamClose; the view may be told that the client is offline.
StreamLost ==
  /\ open /\ Spend("fails", MaxFails)
  /\ Disconnected
  /\ current' \in {current, FALSE}
  /\ UNCHANGED <<listened, cut>>

Die ==
  /\ Spend("deaths", MaxDeaths)
  /\ Disconnected
  /\ listened' = FALSE /\ current' = FALSE /\ ListenEnds

-----------------------------------------------------------------------------
(* Messages.                                                               *)

Read == messages # <<>> /\ messages' = Tail(messages)

\* OnWatchStreamChange without a snapshot version.
ReadChange ==
  /\ Read
  /\ LET m == Head(messages) IN
     /\ m.type \notin {"snapshot", "refused"}
     /\ state' = AfterMessage(state, m)
     /\ mismatch' = (mismatch \/ Mismatched(state, m))
  /\ UNCHANGED <<open, listened, resume, token, synced, current, broken, requests,
                 serverVars, asOf, cut, spent>>

\* View::ApplyTargetChange, and the token kept with the keys.
ApplyTargetChange(docs) ==
  /\ broken' = (broken \/ ~(Kind(state, "modified") \subseteq synced \cup Kind(state, "added")))
  /\ synced' = (synced \cup Kind(state, "added")) \ Kind(state, "removed")
  /\ current' = state.current
  /\ token' = docs /\ asOf' = docs

\* RaiseWatchSnapshot: the event is raised for an active target; one that did
\* not match is listened to anew, without a token.
RaiseWatchSnapshot ==
  /\ Read /\ Head(messages).type = "snapshot"
  /\ LET docs  == Head(messages).keys
         clear == [state EXCEPT !.changes = <<>>]
     IN
     /\ IF Active(state) THEN ApplyTargetChange(docs) ELSE UNCHANGED <<broken, synced, current, token, asOf>>
     /\ IF mismatch /\ listened
        THEN /\ resume' = {}
             /\ Send(<<Unlistening, Listening({})>>, IF Active(state) THEN clear ELSE state)
        ELSE /\ resume' = IF Active(state) THEN docs ELSE resume
             /\ state' = IF Active(state) THEN clear ELSE state
             /\ UNCHANGED requests
  /\ mismatch' = FALSE
  /\ UNCHANGED <<open, listened, serverVars, cut, spent>>

\* Slip: the entry stays.
TargetRefused_KeepsState ==
  /\ Read /\ Head(messages).type = "refused"
  /\ listened' = FALSE /\ current' = FALSE /\ ListenEnds
  /\ UNCHANGED <<open, resume, token, synced, state, mismatch, broken, requests, serverVars,
                 asOf, spent>>

\* ProcessTargetError: the target and its entry go, and the view.
TargetRefused ==
  /\ Read /\ Head(messages).type = "refused"
  /\ IF listened
     THEN listened' = FALSE /\ state' = NewState /\ current' = FALSE /\ ListenEnds
     ELSE UNCHANGED <<listened, state, current, cut>>
  /\ UNCHANGED <<open, resume, token, synced, mismatch, broken, requests, serverVars,
                 asOf, spent>>

-----------------------------------------------------------------------------
(* The server.                                                             *)

Sends(ms) == messages' = messages \o ms

ServeListen ==
  /\ requests # <<>> /\ Head(requests).op = "watch" /\ requests' = Tail(requests)
  /\ serving' = TRUE
  /\ LET from == Head(requests).from
         lost == from \ present
     IN \E untold \in SUBSET lost :
          /\ IF untold = {} THEN UNCHANGED spent ELSE Spend("forgets", MaxForgets)
          /\ Sends(<<Message("added")>> \o Documents("doc", present \ from)
                     \o Documents("gone", lost \ untold)
                     \o <<Message("current")>>
                     \o (IF untold = {} THEN <<>> ELSE <<Filter(Cardinality(present))>>)
                     \o <<Snapshot(present)>>)
  /\ UNCHANGED <<clientVars, present, asOf, cut>>

ServeUnlisten ==
  /\ requests # <<>> /\ Head(requests).op = "unwatch" /\ requests' = Tail(requests)
  /\ serving' = FALSE /\ Sends(<<Message("removed")>>)
  /\ UNCHANGED <<clientVars, present, asOf, cut, spent>>

RefuseListen ==
  /\ requests # <<>> /\ Head(requests).op = "watch" /\ requests' = Tail(requests)
  /\ Spend("refusals", MaxRefusals)
  /\ serving' = FALSE /\ Sends(<<Message("refused")>>)
  /\ UNCHANGED <<clientVars, present, asOf, cut>>

\* What may become of a document between two snapshots.
Changes == {<<"doc">>, <<"gone">>, <<"doc", "doc">>, <<"doc", "gone">>, <<"gone", "doc">>}

\* A document changes, and the target is brought up to it.
CollectionChanges ==
  /\ Spend("changes", MaxChanges)
  /\ \E k \in Keys, change \in Changes :
       /\ Head(change) = "gone" => k \in present
       /\ present' = IF Last(change) = "doc" THEN present \cup {k} ELSE present \ {k}
       /\ Sends(IF serving
                THEN [i \in DOMAIN change |-> Document(change[i], k)] \o <<Snapshot(present')>>
                ELSE <<>>)
  /\ UNCHANGED <<clientVars, requests, serving, asOf, cut>>

\* The server starts the target over.
ServerResets ==
  /\ serving /\ Spend("changes", MaxChanges)
  /\ Sends(<<Message("reset")>> \o Documents("doc", present)
             \o <<Message("current"), Snapshot(present)>>)
  /\ UNCHANGED <<clientVars, requests, serverVars, asOf, cut>>

-----------------------------------------------------------------------------
Client == StreamOpens \/ ReadChange \/ RaiseWatchSnapshot \/ TargetRefused
Server == ServeListen \/ ServeUnlisten

Next ==
  \/ Client \/ Server
  \/ Listen \/ StopListening \/ StreamLost \/ Die
  \/ RefuseListen \/ CollectionChanges \/ ServerResets

Spec == Init /\ [][Next]_vars

\* The stream opens, messages are read and requests served, in the end.
FairSpec == Spec /\ WF_vars(Client) /\ WF_vars(Server)

=============================================================================
