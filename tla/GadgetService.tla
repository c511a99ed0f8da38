--------------------------- MODULE GadgetService ---------------------------
(***************************************************************************)
(* FIRFireStoreService and the Firestore client behind it, seen through    *)
(* the calls the app makes: addDocument, setData, delete and               *)
(* addSnapshotListener on the shared collection "gadgets".                 *)
(*                                                                         *)
(* Each call puts a task on the client's worker queue and returns.  A task *)
(* takes effect in the persisted, latency-compensated view "docs" when the *)
(* worker runs it; when the process ends first, the task is lost.  A       *)
(* change of the view reaches the listeners as a snapshot on the main      *)
(* queue, in order.  Other devices share the collection, and the server    *)
(* may reject a write: either changes the view from outside.               *)
(*                                                                         *)
(* A gadget carries no vehicle ID.  "of" stands for the name, type, number *)
(* and notes in it: the vehicle a reader would recognise.  Foreign stands  *)
(* for another device's vehicle, Malformed for a document the app's        *)
(* decoder rejects.                                                        *)
(***************************************************************************)
EXTENDS VehicleDatabase

CONSTANTS
  MaxDocs,     \* bound on the document IDs ever made
  MaxRemote    \* bound on the changes from outside

ASSUME DocsAssumption   == MaxDocs \in Nat
ASSUME RemoteAssumption == MaxRemote \in Nat

VARIABLES
  docs,        \* the collection as this device sees it, on disk
  tasks,       \* the worker queue
  inbox,       \* snapshots posted to the main queue
  listening,   \* the process has a snapshot listener
  usedDocs,    \* document IDs taken so far
  remote       \* number of changes from outside so far

gadgetVars == <<docs, tasks, inbox, listening, usedDocs, remote>>

Foreign   == 0
Malformed == -1
DocIDs    == 1..MaxDocs
Gadget    == [doc : DocIDs, of : VehicleIDs \cup {Foreign, Malformed}, due : Days]

ListenTask == [kind |-> "listen"]
Task == [kind : {"set"}, gadget : Gadget] \cup [kind : {"delete"}, doc : DocIDs]
          \cup {ListenTask}

GadgetOf(d, v) == [doc |-> d, of |-> v.vehicleID, due |-> v.serviceDueDate]

ServiceInit ==
  /\ docs = {} /\ tasks = <<>> /\ inbox = <<>>
  /\ listening = FALSE /\ usedDocs = {} /\ remote = 0

Put(view, g)  == { h \in view : h.doc # g.doc } \cup {g}
Drop(view, d) == { h \in view : h.doc # d }

SetTask(d, v)  == [kind |-> "set", gadget |-> GadgetOf(d, v)]
DeleteTask(d)  == [kind |-> "delete", doc |-> d]

\* create: the document ID is random and chosen before the task is queued.
Create(v) ==
  \E d \in DocIDs \ usedDocs :
    /\ tasks'    = Append(tasks, SetTask(d, v))
    /\ usedDocs' = usedDocs \cup {d}

\* Slip: the ID left out of the JSON is missing from the path as well.
Update_NoID(queue, g, v) == Append(queue, SetTask(0, v))

\* update: overwrite the document of the given gadget with the vehicle's data.
Update(queue, g, v) == Append(queue, SetTask(g.doc, v))

\* delete: the document of the given gadget, whether or not it still exists.
Delete(queue, g) == Append(queue, DeleteTask(g.doc))

\* read: one more snapshot listener; none is ever removed.
Read(queue) == Append(queue, ListenTask)

\* What a task makes of a view.
Applied(view, t) ==
  CASE t.kind = "set"    -> Put(view, t.gadget)
    [] t.kind = "delete" -> Drop(view, t.doc)
    [] t.kind = "listen" -> view

\* A new listener is told the current view, the others only a view that
\* changed.
Raises(t, view) == t.kind = "listen" \/ (listening /\ view # docs)

\* The worker runs the oldest task and posts the snapshot it raises.
RunTask ==
  LET t == Head(tasks) IN
  /\ tasks # <<>>
  /\ tasks' = Tail(tasks)
  /\ docs'  = Applied(docs, t)
  /\ listening' = (listening \/ t.kind = "listen")
  /\ inbox' = IF Raises(t, docs') THEN Append(inbox, docs') ELSE inbox
  /\ UNCHANGED <<usedDocs, remote>>

\* Another device, or the server rejecting a write, changes one document.
RemoteChange ==
  /\ remote < MaxRemote
  /\ remote' = remote + 1
  /\ \/ \E d \in DocIDs \ usedDocs, of \in {Foreign, Malformed}, due \in Days :
          /\ docs' = Put(docs, [doc |-> d, of |-> of, due |-> due])
          /\ usedDocs' = usedDocs \cup {d}
     \/ \E g \in docs : docs' = docs \ {g} /\ usedDocs' = usedDocs
     \/ \E g \in docs, due \in Days :
          docs' = Put(docs, [g EXCEPT !.due = due]) /\ usedDocs' = usedDocs
  /\ docs' # docs
  /\ inbox' = IF listening THEN Append(inbox, docs') ELSE inbox
  /\ UNCHANGED <<tasks, listening>>

\* The process ends: the queues and the listener go with it.
LoseQueues ==
  /\ tasks' = <<>> /\ inbox' = <<>> /\ listening' = FALSE
  /\ UNCHANGED <<docs, usedDocs, remote>>

Decodable(view) == \A g \in view : g.of # Malformed

=============================================================================
