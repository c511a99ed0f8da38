-------------------------- MODULE ServiceBookProofs --------------------------
(***************************************************************************)
(* Theorems about ServiceBook, for every value of the constants.           *)
(***************************************************************************)
EXTENDS ServiceBookProperties, FiniteSetTheorems, WellFoundedInduction, TLAPS

USE CalendarAssumption, VehiclesAssumption, DocsAssumption, RemoteAssumption, BoundsAssumption

-----------------------------------------------------------------------------
(* What the operators return.                                              *)

\* The empty sequence, for the queues and lists a death clears.
LEMMA EmptySeq == \A S : <<>> \in Seq(S)
OBVIOUS

\* A fetch of finitely many rows lists rows.
LEMMA FetchesType ==
  ASSUME NEW table \in SUBSET Vehicle, IsFiniteSet(table), NEW ok \in BOOLEAN,
         NEW s \in Fetches(table, ok)
  PROVE  s \in Seq(Vehicle) /\ Listed(s) \subseteq table
<1>1. Cardinality(table) \in Nat
  BY FS_CardinalityType
<1>2. CASE ok
  <2>1. s \in [1..Cardinality(table) -> table]
    BY <1>2 DEF Fetches, Sorted
  <2> QED
    BY <1>1, <2>1 DEF Listed
<1>3. CASE ~ok
  <2>1. s = <<>>
    BY <1>3 DEF Fetches
  <2> QED
    BY <2>1 DEF Listed
<1> QED
  BY <1>2, <1>3

\* So does a snapshot of its documents.
LEMMA SnapshotType ==
  ASSUME NEW view \in View, NEW s \in Sorted(view, "doc")
  PROVE  s \in Seq(Gadget)
<1>1. Cardinality(view) \in Nat
  BY FS_CardinalityType DEF View
<1>2. s \in [1..Cardinality(view) -> view]
  BY DEF Sorted
<1> QED
  BY <1>1, <1>2 DEF View

\* The parts of a finite table are finite.
LEMMA TablePartsType ==
  ASSUME NEW table \in SUBSET Vehicle, IsFiniteSet(table)
  PROVE  /\ Upcoming(table) \in SUBSET Vehicle /\ IsFiniteSet(Upcoming(table))
         /\ Past(table) \in SUBSET Vehicle /\ IsFiniteSet(Past(table))
BY FS_Subset DEF Upcoming, Past

\* Writing and dropping documents keeps a view a view.
LEMMA ViewsType ==
  ASSUME NEW view \in View
  PROVE  /\ \A g \in Gadget : Put(view, g) \in View
         /\ \A d \in DocIDs : Drop(view, d) \in View
         /\ \A g \in view : view \ {g} \in View
<1>1. \A d \in DocIDs : Drop(view, d) \in View
  BY FS_Subset DEF Drop, View
<1>2. ASSUME NEW g \in Gadget PROVE Put(view, g) \in View
  <2>1. Drop(view, g.doc) \in View
    BY <1>1 DEF Gadget
  <2>2. Put(view, g) = Drop(view, g.doc) \cup {g}
    BY DEF Put, Drop
  <2> QED
    BY <2>1, <2>2, FS_AddElement DEF View
<1>3. \A g \in view : view \ {g} \in View
  BY FS_Subset DEF View
<1> QED
  BY <1>1, <1>2, <1>3

\* A task turns a view into a view.
LEMMA AppliedType ==
  ASSUME NEW view \in View, NEW t \in Task
  PROVE  Applied(view, t) \in View
BY ViewsType DEF Applied, Task, ListenTask

\* The reminder requests stay requests.
LEMMA RequestsType ==
  ASSUME NEW requests \in SUBSET Reminder, NEW id \in VehicleIDs, NEW date \in Days
  PROVE  /\ RemoveNotification(requests, id) \in SUBSET Reminder
         /\ SetLocalNotification(requests, id, date) \in SUBSET Reminder
BY DEF RemoveNotification, SetLocalNotification, Without, Reminder

-----------------------------------------------------------------------------
(* Types.                                                                  *)

\* What a database operation leaves is a pair of finite tables.
LEMMA DatabaseOperations ==
  ASSUME DatabaseType, NEW saved \in BOOLEAN
  PROVE  /\ \A v \in Vehicle : AddRecord(v, saved) => DatabaseType'
         /\ \A v \in Vehicle, fetched \in BOOLEAN : EditRecord(v, fetched, saved) => DatabaseType'
         /\ \A id \in VehicleIDs : DeleteRecord(id, saved) => DatabaseType'
         /\ SaveContext(saved) => DatabaseType'
         /\ LoseContext => DatabaseType'
<1>1. ASSUME NEW v \in Vehicle, AddRecord(v, saved) PROVE DatabaseType'
  BY <1>1, FS_AddElement DEF AddRecord, Save, DatabaseType
<1>2. ASSUME NEW v \in Vehicle, NEW fetched \in BOOLEAN, EditRecord(v, fetched, saved)
      PROVE  DatabaseType'
  <2>1. context' \in SUBSET Vehicle /\ IsFiniteSet(context')
    <3>1. CASE context' = context
      BY <3>1 DEF DatabaseType
    <3>2. CASE context' # context
      <4>1. PICK s : context' = (context \ {s}) \cup {v}
        BY <1>2, <3>2 DEF EditRecord
      <4>2. IsFiniteSet(context \ {s})
        BY FS_Subset DEF DatabaseType
      <4> QED
        BY <4>1, <4>2, FS_AddElement DEF DatabaseType
    <3> QED
      BY <3>1, <3>2
  <2> QED
    BY <1>2, <2>1 DEF EditRecord, Save, DatabaseType
<1>3. ASSUME NEW id \in VehicleIDs, DeleteRecord(id, saved) PROVE DatabaseType'
  <2>1. context' \in SUBSET Vehicle /\ IsFiniteSet(context')
    BY <1>3, FS_Subset DEF DeleteRecord, Matching, DatabaseType
  <2> QED
    BY <1>3, <2>1 DEF DeleteRecord, Save, DatabaseType
<1>4. SaveContext(saved) => DatabaseType'
  BY DEF SaveContext, Save, DatabaseType
<1>5. LoseContext => DatabaseType'
  BY DEF LoseContext, DatabaseType
<1> QED
  BY <1>1, <1>2, <1>3, <1>4, <1>5

\* Showing a list of a well-typed table.
LEMMA ListsType ==
  ASSUME NEW table \in SUBSET Vehicle, IsFiniteSet(table), NEW failed, ViewType
  PROVE  /\ ShowUpcoming(table, failed) => rows' \in Seq(Vehicle) /\ tableRows' \in Nat
         /\ ShowPast(table, failed) => rows' \in Seq(Vehicle) /\ tableRows' \in Nat
<1>1. Len(arrGadgets) \in Nat
  BY DEF ViewType
<1> QED
  BY <1>1, TablePartsType, FetchesType DEF ShowUpcoming, ShowPast, ViewType

\* Queueing keeps the worker queue a queue of tasks.
LEMMA QueuesType ==
  ASSUME NEW queue \in Seq(Task)
  PROVE  /\ Read(queue) \in Seq(Task)
         /\ \A g \in Gadget, v \in Vehicle : Update(queue, g, v) \in Seq(Task)
         /\ \A g \in Gadget : Delete(queue, g) \in Seq(Task)
<1>1. ListenTask \in Task
  BY DEF ListenTask, Task
<1>2. \A g \in Gadget, v \in Vehicle : SetTask(g.doc, v) \in Task
  BY DEF SetTask, GadgetOf, Task, Gadget, Vehicle
<1>3. \A g \in Gadget : DeleteTask(g.doc) \in Task
  BY DEF DeleteTask, Task, Gadget
<1> QED
  BY <1>1, <1>2, <1>3 DEF Read, Update, Delete

\* The end of a process leaves RAM in its initial state.
LEMMA DeathType ==
  ASSUME TypeOK, Die
  PROVE  ViewType' /\ delegateSet' \in BOOLEAN /\ deaths' \in 0..MaxDeaths
<1>1. deaths' \in 0..MaxDeaths
  BY DEF TypeOK, BoundType, Die
<1>4. alive' \in BOOLEAN /\ delegateSet' \in BOOLEAN
  BY DEF Die
<1>2. rows' \in Seq(Vehicle) /\ arrGadgets' \in Seq(Gadget)
  BY EmptySeq DEF Die
<1>3. /\ screen' \in Screens /\ tableRows' \in Nat
      /\ editing' \in Edit \cup {NoEdit} /\ screen' # "EditUpcoming"
  BY DEF Die, Screens
<1> QED
  BY <1>1, <1>2, <1>3, <1>4 DEF ViewType

\* A trap or a kill leaves well-typed state; the reminder centre is the caller's.
LEMMA CrashType ==
  ASSUME TypeOK, Crash, delivered' \in SUBSET VehicleIDs, steps' \in 0..MaxSteps
  PROVE  TypeOK'
<1>1. DatabaseType'
  BY DatabaseOperations DEF Crash, TypeOK
<1>2. ReminderType' /\ ViewType'
  BY DeathType DEF Crash, TypeOK, ReminderType
<1>5. GadgetType'
  <2>1. tasks' \in Seq(Task) /\ inbox' \in Seq(View)
    BY EmptySeq DEF Crash, LoseQueues
  <2> QED
    BY <2>1 DEF Crash, LoseQueues, TypeOK, GadgetType
<1>3. Unsaved \in SUBSET VehicleIDs
  BY DEF Unsaved, IDs, TypeOK, DatabaseType, Vehicle
<1>4. BoundType'
  BY <1>3, DeathType DEF Crash, TypeOK, BoundType
<1> QED
  BY <1>1, <1>2, <1>4, <1>5 DEF TypeOK

\* A user's action that only traps.
LEMMA TrapType ==
  ASSUME TypeOK, NEW where, Step(where), Trap
  PROVE  TypeOK'
<1>1. delivered' \in SUBSET VehicleIDs /\ steps' \in 0..MaxSteps
  BY DEF Step, Trap, TypeOK, ReminderType, BoundType
<1> QED
  BY <1>1, CrashType DEF Trap

\* Every variable starts with its type.
LEMMA TypeInit == Init => TypeOK
<1> SUFFICES ASSUME Init PROVE TypeOK
  OBVIOUS
<1>1. DatabaseType
  BY FS_EmptySet DEF Init, DatabaseInit, DatabaseType
<1>2. ReminderType
  <2>1. today \in Days /\ pending \in SUBSET Reminder /\ delivered \in SUBSET VehicleIDs
    BY DEF Init, RemindersInit, Days
  <2>2. delegateSet \in BOOLEAN
    BY DEF Init, RemindersInit
  <2> QED
    BY <2>1, <2>2 DEF ReminderType
<1>3. GadgetType
  <2>1. tasks \in Seq(Task) /\ inbox \in Seq(View)
    BY EmptySeq DEF Init, ServiceInit
  <2>2. docs \in View
    BY FS_EmptySet DEF Init, ServiceInit, View
  <2>3. listening \in BOOLEAN
    BY DEF Init, ServiceInit
  <2>4. usedDocs \in SUBSET DocIDs /\ remote \in 0..MaxRemote
    BY DEF Init, ServiceInit
  <2> QED
    BY <2>1, <2>2, <2>3, <2>4 DEF GadgetType
<1>4. ViewType
  <2>1. rows \in Seq(Vehicle) /\ arrGadgets \in Seq(Gadget)
    BY EmptySeq DEF Init
  <2>2. screen \in Screens /\ screen # "EditUpcoming" /\ editing \in Edit \cup {NoEdit}
    BY DEF Init, Screens
  <2>3. alive \in BOOLEAN
    BY DEF Init
  <2>4. tableRows \in Nat
    BY DEF Init
  <2> QED
    BY <2>1, <2>2, <2>3, <2>4 DEF ViewType
<1>5. BoundType
  BY DEF Init, BoundType
<1> QED
  BY <1>1, <1>2, <1>3, <1>4, <1>5 DEF TypeOK

\* Getting about changes the view, the worker queue and the bounds.
LEMMA NavigateType == TypeOK /\ Navigate => TypeOK'
<1> SUFFICES ASSUME TypeOK, Navigate PROVE TypeOK'
  OBVIOUS
<1> USE DEF TypeOK
<1>1. \A queue \in Seq(Task) : Read(queue) \in Seq(Task)
  BY QueuesType
<1>2. ASSUME NEW failed PROVE /\ ShowUpcoming(context, failed) => rows' \in Seq(Vehicle) /\ tableRows' \in Nat
                              /\ ShowPast(context, failed) => rows' \in Seq(Vehicle) /\ tableRows' \in Nat
  BY ListsType DEF DatabaseType
<1>3. CASE Launch
  BY <1>1, <1>2, <1>3 DEF Launch, AppearAll, Failing, dbVars, reminderVars,
     DatabaseType, ReminderType, GadgetType, ViewType, BoundType, Screens
<1>4. CASE SelectAll
  BY <1>1, <1>2, <1>4 DEF SelectAll, Step, AppearAll, Failing, CellsShown, dbVars,
     DatabaseType, ReminderType, GadgetType, ViewType, BoundType, Screens
<1>5. CASE SelectHistory
  BY <1>2, <1>5 DEF SelectHistory, Step, Failing, CellsShown, dbVars, gadgetVars,
     DatabaseType, ReminderType, GadgetType, ViewType, BoundType, Screens
<1>6. CASE SelectAdd
  BY <1>6 DEF SelectAdd, Step, dbVars, gadgetVars, reminderVars,
     DatabaseType, ReminderType, GadgetType, ViewType, BoundType, Screens
<1>7. CASE TapRow
  <2>1. editing' \in Edit
    BY <1>7 DEF TapRow, PairedRows, ViewType, Edit
  <2> QED
    BY <1>7, <2>1 DEF TapRow, Step, dbVars, gadgetVars, reminderVars,
       DatabaseType, ReminderType, GadgetType, ViewType, BoundType, Screens
<1>8. CASE TapHistoryRow
  BY <1>8 DEF TapHistoryRow, Step, dbVars, gadgetVars, reminderVars,
     DatabaseType, ReminderType, GadgetType, ViewType, BoundType, Screens
<1>9. CASE BackToAll
  BY <1>1, <1>2, <1>9 DEF BackToAll, UncoverAll, Step, Failing, CellsShown, dbVars,
     DatabaseType, ReminderType, GadgetType, ViewType, BoundType, Screens
<1>10. CASE BackToHistory
  BY <1>2, <1>10 DEF BackToHistory, Step, Failing, CellsShown, dbVars, gadgetVars,
     DatabaseType, ReminderType, GadgetType, ViewType, BoundType, Screens
<1> QED
  BY <1>3, <1>4, <1>5, <1>6, <1>7, <1>8, <1>9, <1>10 DEF Navigate

\* The handlers that save or delete a vehicle.
LEMMA ChangeType == TypeOK /\ Change => TypeOK'
<1> SUFFICES ASSUME TypeOK, Change PROVE TypeOK'
  OBVIOUS
<1> USE DEF TypeOK
<1>1. ASSUME NEW failed, DatabaseType'
      PROVE  /\ ShowUpcoming(context', failed) => rows' \in Seq(Vehicle) /\ tableRows' \in Nat
             /\ ShowPast(context', failed) => rows' \in Seq(Vehicle) /\ tableRows' \in Nat
  BY <1>1, ListsType DEF DatabaseType
<1>2. \A r \in PairedRows : rows[r] \in Vehicle /\ arrGadgets[r] \in Gadget
  BY DEF PairedRows, ViewType
<1>3. \A r \in DOMAIN rows : rows[r] \in Vehicle
  BY DEF ViewType
<1>4. CASE PickDate
  BY <1>4 DEF PickDate, Step, dbVars, gadgetVars, viewVars,
     DatabaseType, ReminderType, GadgetType, ViewType, BoundType
<1>5. CASE SaveNew
  <2>1. PICK due \in Days, failed \in SUBSET {"save"}, d \in DocIDs, v \in Vehicle :
          /\ v = [vehicleID |-> NewVehicleID, serviceDueDate |-> due]
          /\ Failing(failed)
          /\ AddRecord(v, "save" \notin failed)
          /\ tasks' = Append(tasks, SetTask(d, v)) /\ usedDocs' = usedDocs \cup {d}
          /\ pending' = SetLocalNotification(pending, v.vehicleID, v.serviceDueDate)
    BY <1>5 DEF SaveNew, Create, Vehicle
  <2>2. DatabaseType'
    BY <2>1, DatabaseOperations
  <2>3. ReminderType'
    BY <1>5, <2>1, RequestsType DEF SaveNew, ReminderType, Vehicle
  <2>4. SetTask(d, v) \in Task
    BY DEF SetTask, GadgetOf, Task, Gadget, Vehicle
  <2>5. GadgetType'
    BY <1>5, <2>1, <2>4 DEF SaveNew, GadgetType
  <2>6. ViewType'
    BY <1>5 DEF SaveNew, viewVars, ViewType
  <2>7. BoundType'
    BY <1>5, <2>1 DEF SaveNew, Step, Failing, NewVehicleID, VehicleIDs, BoundType
  <2> QED
    BY <2>2, <2>3, <2>5, <2>6, <2>7
<1>6. CASE SaveEdit
  <2>1. editing \in Edit
    BY <1>6 DEF SaveEdit, Step, ViewType
  <2>2. PICK due \in Days, failed \in SUBSET Calls, v \in Vehicle :
          /\ Failing(failed)
          /\ EditRecord(v, "lookup" \notin failed, "save" \notin failed)
          /\ tasks' = Read(Update(tasks, editing.gadget, v))
          /\ pending' = SetLocalNotification(RemoveNotification(pending, v.vehicleID),
                                             v.vehicleID, v.serviceDueDate)
          /\ UncoverAll(context', failed)
          /\ damaged' \in {damaged \cup {v.vehicleID}, damaged \ {v.vehicleID}}
    BY <1>6, <2>1 DEF SaveEdit, Edit, Vehicle
  <2>3. DatabaseType'
    BY <2>2, DatabaseOperations
  <2>4. ReminderType'
    BY <1>6, <2>2, RequestsType DEF SaveEdit, ReminderType, Vehicle
  <2>5. GadgetType'
    BY <1>6, <2>1, <2>2, QueuesType DEF SaveEdit, GadgetType, Edit
  <2>6. ViewType'
    BY <1>6, <1>1, <2>2, <2>3 DEF SaveEdit, UncoverAll, ViewType, Screens
  <2>7. BoundType'
    BY <1>6, <2>2 DEF SaveEdit, Step, Failing, BoundType, Vehicle
  <2> QED
    BY <2>3, <2>4, <2>5, <2>6, <2>7
<1>7. CASE DeleteRow
  <2>1. PICK r \in PairedRows, failed \in SUBSET {"save", "list"} :
          /\ Failing(failed)
          /\ DeleteRecord(rows[r].vehicleID, "save" \notin failed)
          /\ tasks' = Delete(tasks, arrGadgets[r])
          /\ pending' = RemoveNotification(pending, rows[r].vehicleID)
          /\ ShowUpcoming(context', failed)
          /\ damaged' = damaged \ {rows[r].vehicleID}
    BY <1>7 DEF DeleteRow
  <2>2. rows[r].vehicleID \in VehicleIDs
    BY <1>2 DEF Vehicle
  <2>3. DatabaseType'
    BY <2>1, <2>2, DatabaseOperations
  <2>4. ReminderType'
    BY <1>7, <2>1 DEF DeleteRow, ReminderType, RemoveNotification, Without
  <2>5. GadgetType'
    BY <1>2, <1>7, <2>1, QueuesType DEF DeleteRow, GadgetType
  <2>6. ViewType'
    BY <1>7, <1>1, <2>1, <2>3 DEF DeleteRow, ViewType
  <2>7. BoundType'
    BY <1>7, <2>1 DEF DeleteRow, Step, Failing, BoundType
  <2> QED
    BY <2>3, <2>4, <2>5, <2>6, <2>7
<1>8. CASE DeleteHistoryRow
  <2>1. PICK r \in DOMAIN rows, failed \in SUBSET {"save", "list"} :
          /\ Failing(failed)
          /\ DeleteRecord(rows[r].vehicleID, "save" \notin failed)
          /\ ShowPast(context', failed)
    BY <1>8 DEF DeleteHistoryRow
  <2>2. rows[r].vehicleID \in VehicleIDs
    BY <1>3 DEF Vehicle
  <2>3. DatabaseType'
    BY <2>1, <2>2, DatabaseOperations
  <2>4. ReminderType' /\ GadgetType'
    BY <1>8 DEF DeleteHistoryRow, reminderVars, gadgetVars, ReminderType, GadgetType
  <2>5. ViewType'
    BY <1>8, <1>1, <2>1, <2>3 DEF DeleteHistoryRow, ViewType
  <2>6. BoundType'
    BY <1>8, <2>1 DEF DeleteHistoryRow, Step, Failing, BoundType
  <2> QED
    BY <2>3, <2>4, <2>5, <2>6
<1> QED
  BY <1>4, <1>5, <1>6, <1>7, <1>8 DEF Change

\* The steps on which the process traps.
LEMMA TrapsType == TypeOK /\ Traps => TypeOK'
<1> SUFFICES ASSUME TypeOK, Traps PROVE TypeOK'
  OBVIOUS
<1>1. CASE OpenReminder
  <2>1. delivered' \in SUBSET VehicleIDs /\ steps' \in 0..MaxSteps
    BY <1>1 DEF OpenReminder, TypeOK, ReminderType, BoundType
  <2> QED
    BY <1>1, <2>1, CrashType DEF OpenReminder
<1>2. CASE ~OpenReminder
  <2>1. PICK where : Step(where) /\ Trap
    BY <1>2 DEF Traps, TouchMissingRow, ScrollToMissingRow, SaveBadForm,
       SaveEditFromHistory, DeleteLookupFails
  <2> QED
    BY <2>1, TrapType
<1> QED
  BY <1>1, <1>2

\* A death inside a handler, after its save.
LEMMA TornType ==
  ASSUME TypeOK, NEW id \in VehicleIDs, NEW view \in View, Torn(id, view),
         DatabaseType', pending' \in SUBSET Reminder, usedDocs' \in SUBSET DocIDs,
         made' \in 0..MaxVehicles, steps' \in 0..MaxSteps
  PROVE  TypeOK'
<1>1. ReminderType' /\ ViewType'
  BY DeathType DEF Torn, TypeOK, ReminderType
<1>2. GadgetType'
  <2>1. tasks' \in Seq(Task) /\ inbox' \in Seq(View)
    BY EmptySeq DEF Torn
  <2>2. docs' \in View
    BY DEF Torn, TypeOK, GadgetType
  <2>3. listening' \in BOOLEAN
    BY DEF Torn
  <2> QED
    BY <2>1, <2>2, <2>3 DEF Torn, TypeOK, GadgetType
<1>3. BoundType'
  BY DeathType DEF Torn, TypeOK, BoundType
<1> QED
  BY <1>1, <1>2, <1>3 DEF TypeOK

\* The other ends of the process.
LEMMA EndsType == TypeOK /\ Ends => TypeOK'
<1> SUFFICES ASSUME TypeOK, Ends PROVE TypeOK'
  OBVIOUS
<1>1. CASE Quit
  <2>1. DatabaseType' /\ ReminderType' /\ ViewType'
    BY <1>1, DatabaseOperations, DeathType DEF Quit, TypeOK, ReminderType
  <2>2. tasks' \in Seq(Task) /\ inbox' \in Seq(View)
    BY <1>1, EmptySeq DEF Quit, LoseQueues
  <2>3. GadgetType' /\ BoundType'
    BY <1>1, <2>2, DeathType DEF Quit, LoseQueues, TypeOK, GadgetType, BoundType
  <2> QED
    BY <2>1, <2>3 DEF TypeOK
<1>2. CASE Kill
  BY <1>2, CrashType DEF Kill, TypeOK, ReminderType, BoundType
<1>3. CASE TornNew
  <2>1. PICK due \in Days, d \in DocIDs, v \in Vehicle :
          /\ AddRecord(v, TRUE)
          /\ usedDocs' = usedDocs \cup {d}
          /\ Torn(v.vehicleID, Put(docs, GadgetOf(d, v)))
    BY <1>3 DEF TornNew, Vehicle
  <2>2. Put(docs, GadgetOf(d, v)) \in View
    BY ViewsType DEF GadgetOf, Gadget, Vehicle, TypeOK, GadgetType
  <2>3. DatabaseType'
    BY <2>1, DatabaseOperations DEF TypeOK
  <2>4. made' \in 0..MaxVehicles /\ steps' \in 0..MaxSteps
    BY <1>3 DEF TornNew, Step, NewVehicleID, VehicleIDs, TypeOK, BoundType
  <2>5. pending' \in SUBSET Reminder /\ usedDocs' \in SUBSET DocIDs
    BY <1>3, <2>1 DEF TornNew, TypeOK, ReminderType, GadgetType
  <2> QED
    BY <2>1, <2>2, <2>3, <2>4, <2>5, TornType DEF Vehicle
<1>4. CASE TornEdit
  <2>1. editing \in Edit
    BY <1>4 DEF TornEdit, Step, TypeOK, ViewType
  <2>2. PICK due \in Days, v \in Vehicle :
          /\ EditRecord(v, TRUE, TRUE)
          /\ Torn(v.vehicleID, Put(docs, GadgetOf(editing.gadget.doc, v)))
          /\ pending' \in {pending, RemoveNotification(pending, v.vehicleID)}
    BY <1>4, <2>1 DEF TornEdit, Edit, Vehicle
  <2>3. Put(docs, GadgetOf(editing.gadget.doc, v)) \in View
    BY <2>1, ViewsType DEF GadgetOf, Edit, Gadget, Vehicle, TypeOK, GadgetType
  <2>4. DatabaseType'
    BY <2>2, DatabaseOperations DEF TypeOK
  <2>5. made' \in 0..MaxVehicles /\ steps' \in 0..MaxSteps
    BY <1>4 DEF TornEdit, Step, TypeOK, BoundType
  <2>6. pending' \in SUBSET Reminder /\ usedDocs' \in SUBSET DocIDs
    BY <1>4, <2>2 DEF TornEdit, RemoveNotification, Without, TypeOK, ReminderType, GadgetType
  <2> QED
    BY <2>2, <2>3, <2>4, <2>5, <2>6, TornType DEF Vehicle
<1>5. CASE TornDelete
  <2>1. PICK r \in PairedRows :
          /\ DeleteRecord(rows[r].vehicleID, TRUE)
          /\ Torn(rows[r].vehicleID, Drop(docs, arrGadgets[r].doc))
    BY <1>5 DEF TornDelete
  <2>2. rows[r] \in Vehicle /\ arrGadgets[r] \in Gadget
    BY DEF PairedRows, TypeOK, ViewType
  <2>3. Drop(docs, arrGadgets[r].doc) \in View
    BY <2>2, ViewsType DEF Gadget, TypeOK, GadgetType
  <2>4. DatabaseType'
    BY <2>1, <2>2, DatabaseOperations DEF TypeOK, Vehicle
  <2>5. made' \in 0..MaxVehicles /\ steps' \in 0..MaxSteps
    BY <1>5 DEF TornDelete, Step, TypeOK, BoundType
  <2>6. pending' \in SUBSET Reminder /\ usedDocs' \in SUBSET DocIDs
    BY <1>5 DEF TornDelete, TypeOK, ReminderType, GadgetType
  <2> QED
    BY <2>1, <2>2, <2>3, <2>4, <2>5, <2>6, TornType DEF Vehicle
<1> QED
  BY <1>1, <1>2, <1>3, <1>4, <1>5 DEF Ends

\* The calendar, the worker, the snapshots and the other devices.
LEMMA SystemType == TypeOK /\ System => TypeOK'
<1> SUFFICES ASSUME TypeOK, System PROVE TypeOK'
  OBVIOUS
<1> USE DEF TypeOK
<1>1. CASE NextDay
  <2>1. today' \in Days /\ pending' \in SUBSET Reminder
    BY <1>1 DEF NextDay, Midnight, ReminderType, Days
  <2>2. delivered' \in SUBSET VehicleIDs
    BY <1>1 DEF NextDay, Midnight, Due, ReminderType, Reminder
  <2> QED
    BY <1>1, <2>1, <2>2 DEF NextDay, dbVars, gadgetVars, viewVars, boundVars,
       DatabaseType, ReminderType, GadgetType, ViewType, BoundType
<1>2. CASE OpenUnheardReminder
  BY <1>2 DEF OpenUnheardReminder, dbVars, gadgetVars, viewVars, boundVars,
     DatabaseType, ReminderType, GadgetType, ViewType, BoundType
<1>3. CASE SnapshotArrives
  <2>1. Head(inbox) \in View /\ inbox' \in Seq(View)
    BY <1>3 DEF SnapshotArrives, GadgetType
  <2>2. arrGadgets' \in Seq(Gadget)
    BY <1>3, <2>1, SnapshotType DEF SnapshotArrives, ViewType
  <2> QED
    BY <1>3, <2>1, <2>2 DEF SnapshotArrives, dbVars, reminderVars, boundVars,
       DatabaseType, ReminderType, GadgetType, ViewType, BoundType
<1>4. CASE Worker
  <2>1. Head(tasks) \in Task /\ tasks' \in Seq(Task)
    BY <1>4 DEF Worker, RunTask, GadgetType
  <2>2. docs' \in View
    BY <1>4, <2>1, AppliedType DEF Worker, RunTask, GadgetType
  <2>3. inbox' \in Seq(View)
    BY <1>4, <2>2 DEF Worker, RunTask, GadgetType
  <2>4. listening' \in BOOLEAN
    BY <1>4 DEF Worker, RunTask
  <2>5. GadgetType'
    BY <1>4, <2>1, <2>2, <2>3, <2>4 DEF Worker, RunTask, GadgetType
  <2> QED
    BY <1>4, <2>5 DEF Worker, dbVars, reminderVars, viewVars, boundVars,
       DatabaseType, ReminderType, ViewType, BoundType
<1>5. CASE Outside
  <2>1. docs' \in View /\ usedDocs' \in SUBSET DocIDs
    <3>1. CASE \E d \in DocIDs \ usedDocs, of \in {Foreign, Malformed}, due \in Days :
                 /\ docs' = Put(docs, [doc |-> d, of |-> of, due |-> due])
                 /\ usedDocs' = usedDocs \cup {d}
      BY <3>1, ViewsType DEF GadgetType, Gadget
    <3>2. CASE \E g \in docs : docs' = docs \ {g} /\ usedDocs' = usedDocs
      BY <3>2, ViewsType DEF GadgetType
    <3>3. CASE \E g \in docs, due \in Days :
                 docs' = Put(docs, [g EXCEPT !.due = due]) /\ usedDocs' = usedDocs
      <4>1. PICK g \in docs, due \in Days :
               docs' = Put(docs, [g EXCEPT !.due = due]) /\ usedDocs' = usedDocs
        BY <3>3
      <4>2. [g EXCEPT !.due = due] \in Gadget
        BY DEF GadgetType, View, Gadget
      <4> QED
        BY <4>1, <4>2, ViewsType DEF GadgetType
    <3> QED
      BY <1>5, <3>1, <3>2, <3>3 DEF Outside, RemoteChange
  <2>2. inbox' \in Seq(View)
    BY <1>5, <2>1 DEF Outside, RemoteChange, GadgetType
  <2>3. GadgetType'
    BY <1>5, <2>1, <2>2 DEF Outside, RemoteChange, GadgetType
  <2> QED
    BY <1>5, <2>3 DEF Outside, dbVars, reminderVars, viewVars, boundVars,
       DatabaseType, ReminderType, ViewType, BoundType
<1> QED
  BY <1>1, <1>2, <1>3, <1>4, <1>5 DEF System

\* Every step keeps the types.
LEMMA TypeStep == TypeOK /\ [Next]_vars => TypeOK'
<1>1. TypeOK /\ UNCHANGED vars => TypeOK'
  BY DEF vars, dbVars, reminderVars, gadgetVars, viewVars, boundVars, TypeOK,
     DatabaseType, ReminderType, GadgetType, ViewType, BoundType
<1> QED
  BY <1>1, NavigateType, ChangeType, TrapsType, EndsType, SystemType DEF Next

\* Every variable keeps its type in every behaviour of the app: the tables stay
\* finite sets of vehicles, the queues hold tasks and snapshots, and the edit
\* screen over the upcoming list always has a vehicle and a gadget.
THEOREM TypeCorrect == Spec => []TypeOK
BY TypeInit, TypeStep, PTL DEF Spec

-----------------------------------------------------------------------------
(* Reminders.  Row by row, RemindersMatchVehicles says "Matched".          *)

Row(id, date)     == [vehicleID |-> id, serviceDueDate |-> date]
Request(id, date) == [id |-> id, date |-> date]

Matched(id) ==
  \A date \in Days : Request(id, date) \in pending <=> Row(id, date) \in context /\ date > today

AllMatched == \A id \in VehicleIDs \ damaged : Matched(id)

\* RemindersMatchVehicles, said row by row and request by request.
LEMMA MatchedRows ==
  DatabaseType /\ ReminderType => (RemindersMatchVehicles <=> AllMatched)
<1> SUFFICES ASSUME DatabaseType, ReminderType PROVE RemindersMatchVehicles <=> AllMatched
  OBVIOUS
<1>1. ASSUME NEW id \in VehicleIDs
      PROVE  (ReminderDates(id) = DatesToCome(id)) <=> Matched(id)
  <2>1. /\ \A date : date \in ReminderDates(id) <=> date \in Days /\ Request(id, date) \in pending
        /\ ReminderDates(id) \subseteq Days
    BY DEF ReminderDates, Request, ReminderType, Reminder
  <2>2. \A date : date \in DatesToCome(id)
                    <=> date \in Days /\ Row(id, date) \in context /\ date > today
    BY DEF DatesToCome, Matching, Row, DatabaseType, Vehicle
  <2> QED
    BY <2>1, <2>2 DEF Matched
<1> QED
  BY <1>1 DEF RemindersMatchVehicles, AllMatched

\* With one row per ID, an edit replaces that row.
LEMMA EditReplaces ==
  ASSUME DatabaseType, VehicleIDsUnique, NEW row \in context, NEW v,
         v.vehicleID = row.vehicleID,
         NEW fetched \in BOOLEAN, NEW saved \in BOOLEAN, EditRecord(v, fetched, saved)
  PROVE  /\ fetched => context' = (context \ {row}) \cup {v}
         /\ ~fetched => context' = context
<1>1. Matching(v.vehicleID) = {row}
  BY DEF Matching, VehicleIDsUnique
<1>2. CASE fetched
  <2>1. PICK s \in Sorted({row}, "serviceDueDate") : context' = (context \ {s[1]}) \cup {v}
    BY <1>1, <1>2 DEF EditRecord
  <2>2. Cardinality({row}) = 1
    BY FS_Singleton
  <2>3. s[1] = row
    BY <2>2 DEF Sorted
  <2> QED
    BY <1>2, <2>1, <2>3
<1>3. CASE ~fetched
  BY <1>3 DEF EditRecord
<1> QED
  BY <1>2, <1>3

\* ... and a delete removes it.
LEMMA DeleteRemoves ==
  ASSUME VehicleIDsUnique, NEW row \in context, NEW saved \in BOOLEAN,
         DeleteRecord(row.vehicleID, saved)
  PROVE  context' = context \ {row}
BY DEF DeleteRecord, Matching, VehicleIDsUnique

\* What a shown list holds.
LEMMA ListsShow ==
  ASSUME NEW table \in SUBSET Vehicle, IsFiniteSet(table), NEW failed
  PROVE  /\ ShowUpcoming(table, failed) => Listed(rows') \subseteq table
         /\ ShowPast(table, failed) => Listed(rows') \subseteq Past(table)
<1>1. /\ Upcoming(table) \in SUBSET Vehicle /\ IsFiniteSet(Upcoming(table))
      /\ Past(table) \in SUBSET Vehicle /\ IsFiniteSet(Past(table))
  BY TablePartsType
<1>2. Upcoming(table) \subseteq table
  BY DEF Upcoming
<1> QED
  BY <1>1, <1>2, FetchesType DEF ShowUpcoming, ShowPast

\* One row per ID: what each operation on the tables does to it.
LEMMA KeysKept ==
  ASSUME TypeOK, VehicleIDsUnique, made' \in Nat, made <= made',
         \A v, w \in context' : v.vehicleID = w.vehicleID => v = w,
         \A v \in context' : v.vehicleID <= made',
         store' = store \/ store' = context'
  PROVE  VehicleIDsUnique'
<1>1. \A v \in store : v.vehicleID \in Nat /\ made \in Nat
  BY DEF TypeOK, DatabaseType, Vehicle, VehicleIDs, BoundType
<1>2. \A v \in store : v.vehicleID <= made'
  BY <1>1 DEF VehicleIDsUnique
<1> QED
  BY <1>2 DEF VehicleIDsUnique

\* Every step keeps the IDs of the two tables apart.
LEMMA KeysStep == ReminderInvariant /\ [Next]_vars => VehicleIDsUnique'
<1> SUFFICES ASSUME ReminderInvariant, [Next]_vars PROVE VehicleIDsUnique'
  OBVIOUS
<1> USE DEF ReminderInvariant
<1>1. made \in Nat /\ \A v \in Vehicle : v.vehicleID \in Nat
  BY DEF TypeOK, BoundType, Vehicle, VehicleIDs
<1>2. ASSUME UNCHANGED <<context, store, made>> PROVE VehicleIDsUnique'
  BY <1>2 DEF VehicleIDsUnique
<1>3. ASSUME LoseContext, made' = made PROVE VehicleIDsUnique'
  BY <1>3 DEF LoseContext, VehicleIDsUnique
<1>4. ASSUME NEW v \in Vehicle, v.vehicleID = made + 1, made' = made + 1,
             NEW saved \in BOOLEAN, AddRecord(v, saved)
      PROVE  VehicleIDsUnique'
  <2>1. \A w \in context : w.vehicleID # v.vehicleID
    BY <1>1, <1>4 DEF VehicleIDsUnique, TypeOK, DatabaseType
  <2>2. \A x, w \in context' : x.vehicleID = w.vehicleID => x = w
    BY <1>4, <2>1 DEF AddRecord, VehicleIDsUnique
  <2>3. \A w \in context' : w.vehicleID <= made'
    BY <1>1, <1>4 DEF AddRecord, VehicleIDsUnique, TypeOK, DatabaseType
  <2> QED
    BY <1>1, <1>4, <2>2, <2>3, KeysKept DEF AddRecord, Save
<1>5. ASSUME NEW row \in context, NEW v, v.vehicleID = row.vehicleID, made' = made,
             NEW fetched \in BOOLEAN, NEW saved \in BOOLEAN, EditRecord(v, fetched, saved)
      PROVE  VehicleIDsUnique'
  <2>1. context' = (context \ {row}) \cup {v} \/ context' = context
    BY <1>5, EditReplaces DEF TypeOK
  <2>2. \A x, w \in context' : x.vehicleID = w.vehicleID => x = w
    BY <1>5, <2>1 DEF VehicleIDsUnique
  <2>3. \A w \in context' : w.vehicleID <= made'
    BY <1>5, <2>1 DEF VehicleIDsUnique
  <2> QED
    BY <1>1, <1>5, <2>2, <2>3, KeysKept DEF EditRecord, Save
<1>6. ASSUME NEW id, NEW saved \in BOOLEAN, DeleteRecord(id, saved), made' = made
      PROVE  VehicleIDsUnique'
  <2>1. context' \subseteq context
    BY <1>6 DEF DeleteRecord
  <2> QED
    BY <1>1, <1>6, <2>1, KeysKept DEF DeleteRecord, Save, VehicleIDsUnique
<1>7. CASE Navigate
  BY <1>2, <1>7 DEF Navigate, Launch, SelectAll, SelectHistory, SelectAdd, TapRow,
     TapHistoryRow, BackToAll, BackToHistory, dbVars
<1>8. CASE Change
  <2>1. CASE PickDate
    BY <1>2, <2>1 DEF PickDate, dbVars
  <2>2. CASE SaveNew
    BY <1>4, <2>2 DEF SaveNew, NewVehicleID, Vehicle
  <2>3. CASE SaveEdit
    <3>1. editing.row \in context /\ editing.row \in Vehicle
      BY <2>3 DEF SaveEdit, Step, ScreensShowTheTable, TypeOK, DatabaseType
    <3> QED
      BY <1>5, <2>3, <3>1 DEF SaveEdit, Vehicle
  <2>4. CASE DeleteRow
    BY <1>6, <2>4 DEF DeleteRow
  <2>5. CASE DeleteHistoryRow
    BY <1>6, <2>5 DEF DeleteHistoryRow
  <2> QED
    BY <1>8, <2>1, <2>2, <2>3, <2>4, <2>5 DEF Change
<1>9. CASE Traps
  BY <1>3, <1>9 DEF Traps, TouchMissingRow, ScrollToMissingRow, SaveBadForm, SaveEditFromHistory,
     DeleteLookupFails, OpenReminder, Trap, Crash
<1>10. CASE Ends
  <2>1. CASE Quit
    <3>1. context' = context /\ store' = context /\ made' = made
      BY <2>1 DEF Quit, SaveContext, Save
    <3> QED
      BY <3>1 DEF VehicleIDsUnique
  <2>2. CASE Kill
    BY <1>3, <2>2 DEF Kill, Crash
  <2>3. CASE TornNew
    BY <1>4, <2>3 DEF TornNew, NewVehicleID, Vehicle
  <2>4. CASE TornEdit
    <3>1. editing.row \in context /\ editing.row \in Vehicle
      BY <2>4 DEF TornEdit, Step, ScreensShowTheTable, TypeOK, DatabaseType
    <3> QED
      BY <1>5, <2>4, <3>1 DEF TornEdit, Vehicle
  <2>5. CASE TornDelete
    BY <1>6, <2>5 DEF TornDelete
  <2> QED
    BY <1>10, <2>1, <2>2, <2>3, <2>4, <2>5 DEF Ends
<1>11. CASE System
  BY <1>2, <1>11 DEF System, NextDay, OpenUnheardReminder, SnapshotArrives, Worker, Outside, dbVars
<1>12. CASE UNCHANGED vars
  BY <1>2, <1>12 DEF vars, dbVars
<1> QED
  BY <1>7, <1>8, <1>9, <1>10, <1>11, <1>12 DEF Next

\* Every step leaves the screen in front with rows of the table.
LEMMA ScreensStep == ReminderInvariant /\ [Next]_vars => ScreensShowTheTable'
<1> SUFFICES ASSUME ReminderInvariant, [Next]_vars, alive'
             PROVE  /\ screen' \in {"All", "EditUpcoming"} => Listed(rows') \subseteq context'
                    /\ screen' = "EditUpcoming" => editing'.row \in context'
                    /\ screen' = "History" => Listed(rows') \subseteq Past(context)'
  BY DEF ScreensShowTheTable, Listed
<1> USE DEF ReminderInvariant
<1>1. DatabaseType' /\ today \in Int /\ today' \in Int
  BY TypeStep DEF TypeOK, ReminderType, Days
<1>2. ASSUME NEW failed
      PROVE  /\ ShowUpcoming(context, failed) => Listed(rows') \subseteq context
             /\ ShowUpcoming(context', failed) => Listed(rows') \subseteq context'
             /\ ShowPast(context, failed) => Listed(rows') \subseteq Past(context)
             /\ ShowPast(context', failed) => Listed(rows') \subseteq Past(context')
  BY <1>1, ListsShow DEF TypeOK, DatabaseType
<1>3. today' = today => Past(context)' = Past(context')
  BY DEF Past
<1>4. CASE Navigate
  <2>1. CASE Launch
    BY <1>2, <2>1 DEF Launch, AppearAll, dbVars
  <2>2. CASE SelectAll
    BY <1>2, <2>2 DEF SelectAll, AppearAll, dbVars
  <2>3. CASE SelectHistory
    BY <1>2, <1>3, <2>3 DEF SelectHistory, dbVars
  <2>4. CASE SelectAdd
    BY <2>4 DEF SelectAdd
  <2>5. CASE TapRow
    <3>1. Listed(rows) \subseteq context /\ Listed(rows') = Listed(rows)
      BY <2>5 DEF TapRow, Step, ScreensShowTheTable
    <3>2. editing'.row \in Listed(rows)
      BY <2>5 DEF TapRow, PairedRows, Listed
    <3> QED
      BY <2>5, <3>1, <3>2 DEF TapRow, dbVars
  <2>6. CASE TapHistoryRow
    BY <2>6 DEF TapHistoryRow
  <2>7. CASE BackToAll
    BY <1>2, <2>7 DEF BackToAll, UncoverAll, dbVars
  <2>8. CASE BackToHistory
    BY <1>2, <1>3, <2>8 DEF BackToHistory, dbVars
  <2> QED
    BY <1>4, <2>1, <2>2, <2>3, <2>4, <2>5, <2>6, <2>7, <2>8 DEF Navigate
<1>5. CASE Change
  <2>1. CASE PickDate
    BY <2>1 DEF PickDate, Step, viewVars
  <2>2. CASE SaveNew
    BY <2>2 DEF SaveNew, Step, viewVars
  <2>3. CASE SaveEdit
    BY <1>2, <2>3 DEF SaveEdit, UncoverAll
  <2>4. CASE DeleteRow
    BY <1>2, <2>4 DEF DeleteRow, Step
  <2>5. CASE DeleteHistoryRow
    BY <1>2, <1>3, <2>5 DEF DeleteHistoryRow, Step, reminderVars
  <2> QED
    BY <1>5, <2>1, <2>2, <2>3, <2>4, <2>5 DEF Change
<1>6. ~Traps
  BY DEF Traps, TouchMissingRow, ScrollToMissingRow, SaveBadForm, SaveEditFromHistory,
     DeleteLookupFails, OpenReminder, Trap, Crash, Die
<1>7. ~Ends
  BY DEF Ends, Quit, Kill, TornNew, TornEdit, TornDelete, Torn, Crash, Die
<1>8. CASE UNCHANGED <<alive, screen, editing, rows, context>> /\ today' \in {today, today + 1}
  <2>1. Past(context) \subseteq Past(context)'
    <3>1. \A v \in context : v.serviceDueDate \in Int
      BY DEF TypeOK, DatabaseType, Vehicle, Days
    <3> QED
      BY <1>1, <1>8, <3>1 DEF Past
  <2> QED
    BY <1>8, <2>1 DEF ScreensShowTheTable
<1>9. CASE System
  <2>1. CASE NextDay
    BY <1>8, <2>1 DEF NextDay, Midnight, dbVars, viewVars
  <2>2. CASE OpenUnheardReminder
    BY <1>8, <2>2 DEF OpenUnheardReminder, dbVars, viewVars
  <2>3. CASE SnapshotArrives
    BY <1>8, <2>3 DEF SnapshotArrives, dbVars, reminderVars
  <2>4. CASE Worker \/ Outside
    BY <1>8, <2>4 DEF Worker, Outside, dbVars, reminderVars, viewVars
  <2> QED
    BY <1>9, <2>1, <2>2, <2>3, <2>4 DEF System
<1>10. CASE UNCHANGED vars
  BY <1>8, <1>10 DEF vars, dbVars, reminderVars, viewVars
<1> QED
  BY <1>4, <1>5, <1>6, <1>7, <1>9, <1>10 DEF Next

-----------------------------------------------------------------------------
\* The steps that move neither rows, reminders nor the day.
LEMMA MatchedFrame ==
  ASSUME NEW id, Matched(id), UNCHANGED <<context, pending, today>>
  PROVE  Matched(id)'
BY DEF Matched

\* The requests after setLocalNotification.
LEMMA RequestsSet ==
  ASSUME NEW requests, NEW id, NEW date, NEW i, NEW d
  PROVE  Request(i, d) \in SetLocalNotification(requests, id, date)
           <=> (i # id /\ Request(i, d) \in requests) \/ (i = id /\ d = date /\ date > today)
<1>1. Request(i, d).id = i /\ (Request(i, d) = Request(id, date) <=> i = id /\ d = date)
  BY DEF Request
<1>2. \A x : x \in SetLocalNotification(requests, id, date)
               <=> (x \in requests /\ x.id # id) \/ (x = Request(id, date) /\ date > today)
  BY Zenon DEF SetLocalNotification, Without, Request
<1>3. Request(i, d) \in SetLocalNotification(requests, id, date)
         <=> (Request(i, d) \in requests /\ Request(i, d).id # id)
               \/ (Request(i, d) = Request(id, date) /\ date > today)
  BY <1>2, Zenon
<1> QED
  BY <1>1, <1>3, Zenon

\* A reminder set for the row's date, with no other row of that ID.
LEMMA MatchedSet ==
  ASSUME TypeOK, NEW id \in VehicleIDs, NEW v \in Vehicle, id = v.vehicleID \/ Matched(id),
         pending' \in {SetLocalNotification(pending, v.vehicleID, v.serviceDueDate),
                      SetLocalNotification(RemoveNotification(pending, v.vehicleID),
                                           v.vehicleID, v.serviceDueDate)},
         \A date \in Days : Row(id, date) \in context'
            <=> Row(id, date) = v \/ (Row(id, date) \in context /\ id # v.vehicleID),
         today' = today
  PROVE  Matched(id)'
<1>1. ASSUME NEW date \in Days
      PROVE  Request(id, date) \in pending' <=> Row(id, date) \in context' /\ date > today
  <2>1. PICK requests \in {pending, RemoveNotification(pending, v.vehicleID)} :
          pending' = SetLocalNotification(requests, v.vehicleID, v.serviceDueDate)
    OBVIOUS
  <2>2. id # v.vehicleID => (Request(id, date) \in requests <=> Request(id, date) \in pending)
    BY DEF RemoveNotification, Without, Request
  <2>3. Row(id, date) = v <=> id = v.vehicleID /\ date = v.serviceDueDate
    BY DEF Row, Vehicle
  <2>4. id # v.vehicleID => (Request(id, date) \in pending <=> Row(id, date) \in context /\ date > today)
    BY DEF Matched
  <2>5. CASE id # v.vehicleID
    <3>1. Request(id, date) \in pending' <=> Request(id, date) \in pending
      BY <2>1, <2>2, <2>5, RequestsSet
    <3>2. Row(id, date) \in context' <=> Row(id, date) \in context
      BY <2>3, <2>5
    <3> QED
      BY <2>4, <2>5, <3>1, <3>2
  <2>6. CASE id = v.vehicleID
    BY <2>1, <2>3, <2>6, RequestsSet
  <2> QED
    BY <2>5, <2>6
<1> QED
  BY <1>1 DEF Matched, Request, Row

\* A reminder removed with the rows of its ID.
LEMMA MatchedRemoved ==
  ASSUME TypeOK, NEW id \in VehicleIDs, NEW other \in VehicleIDs,
         id = other \/ Matched(id),
         pending' = RemoveNotification(pending, other), today' = today,
         context' = context \ Matching(other)
  PROVE  Matched(id)'
BY DEF Matched, RemoveNotification, Without, Request, Row, Matching

\* What a handler does to the other vehicles.
LEMMA MatchedElsewhere ==
  ASSUME NEW id \in VehicleIDs, NEW other, id # other, Matched(id),
         pending' \in {pending, RemoveNotification(pending, other)}, today' = today,
         \A date \in Days : Row(id, date) \in context' <=> Row(id, date) \in context
  PROVE  Matched(id)'
<1>1. \A date : Request(id, date) \in pending' <=> Request(id, date) \in pending
  BY DEF RemoveNotification, Without, Request
<1> QED
  BY <1>1 DEF Matched, Request, Row

\* A crash: an ID whose rows were saved keeps its row.
LEMMA MatchedCrash ==
  ASSUME NEW id \in VehicleIDs \ Unsaved, Matched(id),
         LoseContext, UNCHANGED <<pending, today>>
  PROVE  Matched(id)'
<1>1. \A date : Row(id, date) \in context <=> Row(id, date) \in store
  BY DEF Unsaved, IDs, Row
<1> QED
  BY <1>1 DEF Matched, LoseContext

\* At midnight the requests that fire are those of the rows that become past.
LEMMA NextDayStep ==
  ASSUME TypeOK, NEW id \in VehicleIDs, Matched(id), NextDay
  PROVE  Matched(id)'
<1>1. today \in Int /\ today' = today + 1 /\ context' = context
  BY DEF NextDay, Midnight, dbVars, TypeOK, ReminderType, Days
<1>2. ASSUME NEW date \in Days
      PROVE  Request(id, date) \in pending' <=> Request(id, date) \in pending /\ date # today + 1
  BY DEF NextDay, Midnight, Due, Request
<1>3. ASSUME NEW date \in Days
      PROVE  date > today /\ date # today + 1 <=> date > today'
  BY <1>1 DEF Days
<1> QED
  BY <1>1, <1>2, <1>3 DEF Matched

\* Every step keeps reminders and rows together, outside "damaged".
LEMMA RemindersStep == ReminderInvariant /\ [Next]_vars => RemindersMatchVehicles'
<1>1. SUFFICES ASSUME ReminderInvariant, [Next]_vars, NEW id \in VehicleIDs, id \notin damaged'
               PROVE  Matched(id)'
  <2>1. (DatabaseType /\ ReminderType)' => (RemindersMatchVehicles' <=> AllMatched')
    BY MatchedRows, PTL
  <2>2. ReminderInvariant /\ [Next]_vars => (DatabaseType /\ ReminderType)'
    BY TypeStep DEF ReminderInvariant, TypeOK
  <2> QED
    BY <2>1, <2>2 DEF AllMatched
<1> USE <1>1 DEF ReminderInvariant
<1>2. \A i \in VehicleIDs : i \notin damaged => Matched(i)
  BY MatchedRows DEF TypeOK, AllMatched
<1>3. ASSUME UNCHANGED <<context, pending, today, damaged>> PROVE Matched(id)'
  BY <1>2, <1>3, MatchedFrame
<1>4. ASSUME Crash PROVE Matched(id)'
  BY <1>2, <1>4, MatchedCrash DEF Crash
<1>5. editing.row \in context => editing.row \in Vehicle
  BY DEF TypeOK, DatabaseType
<1>6. CASE Navigate
  BY <1>3, <1>6 DEF Navigate, Launch, SelectAll, SelectHistory, SelectAdd, TapRow,
     TapHistoryRow, BackToAll, BackToHistory, dbVars, reminderVars
<1>7. CASE Change
  <2>1. CASE PickDate
    BY <1>3, <2>1 DEF PickDate, dbVars
  <2>2. CASE SaveNew
    <3>1. PICK v \in Vehicle :
            /\ v.vehicleID = made + 1
            /\ context' = context \cup {v}
            /\ pending' = SetLocalNotification(pending, v.vehicleID, v.serviceDueDate)
      BY <2>2 DEF SaveNew, AddRecord, NewVehicleID, Vehicle
    <3>2. \A w \in context : w.vehicleID # v.vehicleID
      BY <3>1 DEF VehicleIDsUnique, TypeOK, DatabaseType, Vehicle, VehicleIDs, BoundType
    <3>3. \A date \in Days : Row(id, date) \in context'
             <=> Row(id, date) = v \/ (Row(id, date) \in context /\ id # v.vehicleID)
      BY <3>1, <3>2 DEF Row
    <3>4. today' = today /\ damaged' = damaged
      BY <2>2 DEF SaveNew
    <3> QED
      BY <1>1, <1>2, <3>1, <3>3, <3>4, MatchedSet
  <2>3. CASE SaveEdit
    <3>1. editing.row \in context /\ editing.row \in Vehicle
      BY <1>5, <2>3 DEF SaveEdit, Step, ScreensShowTheTable
    <3>2. PICK v \in Vehicle, failed \in SUBSET Calls :
            /\ v.vehicleID = editing.row.vehicleID
            /\ EditRecord(v, "lookup" \notin failed, "save" \notin failed)
            /\ pending' = SetLocalNotification(RemoveNotification(pending, v.vehicleID),
                                               v.vehicleID, v.serviceDueDate)
            /\ damaged' = IF "lookup" \in failed THEN damaged \cup {v.vehicleID}
                                                 ELSE damaged \ {v.vehicleID}
      BY <2>3, <3>1 DEF SaveEdit, Vehicle
    <3>3. today' = today
      BY <2>3 DEF SaveEdit
    <3>4. id = v.vehicleID \/ Matched(id)
      BY <1>1, <1>2, <3>2
    <3>5. \A date \in Days : Row(id, date) \in context'
             <=> Row(id, date) = v \/ (Row(id, date) \in context /\ id # v.vehicleID)
      <4>1. CASE "lookup" \notin failed
        <5>1. context' = (context \ {editing.row}) \cup {v}
          BY <3>1, <3>2, <4>1, EditReplaces DEF TypeOK
        <5>2. \A date : Row(id, date) \in context /\ id = v.vehicleID => Row(id, date) = editing.row
          BY <3>1, <3>2 DEF VehicleIDsUnique, Row
        <5>3. \A date : id # v.vehicleID => Row(id, date) # editing.row
          BY <3>2 DEF Row
        <5> QED
          BY <5>1, <5>2, <5>3
      <4>2. CASE "lookup" \in failed
        <5>1. context' = context /\ id # v.vehicleID
          BY <1>1, <3>1, <3>2, <4>2, EditReplaces DEF TypeOK
        <5>2. \A date : Row(id, date) # v
          BY <5>1 DEF Row
        <5> QED
          BY <5>1, <5>2
      <4> QED
        BY <4>1, <4>2
    <3> QED
      BY <3>2, <3>3, <3>4, <3>5, MatchedSet
  <2>4. CASE DeleteRow
    <3>1. PICK r \in PairedRows :
            /\ context' = context \ Matching(rows[r].vehicleID)
            /\ pending' = RemoveNotification(pending, rows[r].vehicleID)
            /\ damaged' = damaged \ {rows[r].vehicleID}
      BY <2>4 DEF DeleteRow, DeleteRecord
    <3>2. rows[r].vehicleID \in VehicleIDs
      <4>1. rows[r] \in Vehicle
        BY DEF PairedRows, TypeOK, ViewType
      <4> QED
        BY <4>1 DEF Vehicle
    <3>3. id = rows[r].vehicleID \/ Matched(id)
      BY <1>1, <1>2, <3>1
    <3>4. today' = today
      BY <2>4 DEF DeleteRow
    <3> QED
      BY <3>1, <3>2, <3>3, <3>4, MatchedRemoved
  <2>5. CASE DeleteHistoryRow
    <3>1. PICK r \in DOMAIN rows, saved \in BOOLEAN : DeleteRecord(rows[r].vehicleID, saved)
      BY <2>5 DEF DeleteHistoryRow
    <3>2. rows[r] \in context /\ rows[r].serviceDueDate <= today
      BY <2>5 DEF DeleteHistoryRow, Step, ScreensShowTheTable, Listed, Past
    <3>3. context' = context \ {rows[r]}
      BY <3>1, <3>2, DeleteRemoves
    <3>4. UNCHANGED <<pending, today, damaged>>
      BY <2>5 DEF DeleteHistoryRow, reminderVars
    <3>5. \A date \in Days : date > today => Row(id, date) # rows[r]
      BY <3>2 DEF Row, Days, TypeOK, ReminderType
    <3> QED
      BY <1>1, <1>2, <3>3, <3>4, <3>5 DEF Matched, Request
  <2> QED
    BY <1>7, <2>1, <2>2, <2>3, <2>4, <2>5 DEF Change
<1>8. CASE Traps
  BY <1>4, <1>8 DEF Traps, TouchMissingRow, ScrollToMissingRow, SaveBadForm, SaveEditFromHistory,
     DeleteLookupFails, OpenReminder, Trap
<1>9. CASE Ends
  <2>1. CASE Quit
    BY <1>3, <2>1 DEF Quit, SaveContext
  <2>2. CASE Kill
    BY <1>4, <2>2 DEF Kill
  <2>3. CASE TornNew
    <3>1. PICK v \in Vehicle : \E view : AddRecord(v, TRUE) /\ Torn(v.vehicleID, view)
      BY <2>3 DEF TornNew, Vehicle
    <3>2. id # v.vehicleID /\ id \notin damaged /\ pending' = pending /\ today' = today
      BY <1>1, <2>3, <3>1 DEF Torn, TornNew
    <3>3. \A date \in Days : Row(id, date) \in context' <=> Row(id, date) \in context
      BY <3>1, <3>2 DEF AddRecord, Row
    <3> QED
      BY <1>2, <3>2, <3>3, MatchedElsewhere
  <2>4. CASE TornEdit
    <3>1. editing.row \in context /\ editing.row \in Vehicle
      BY <1>5, <2>4 DEF TornEdit, Step, ScreensShowTheTable
    <3>2. PICK v \in Vehicle : \E view :
            /\ v.vehicleID = editing.row.vehicleID
            /\ EditRecord(v, TRUE, TRUE)
            /\ Torn(v.vehicleID, view)
            /\ pending' \in {pending, RemoveNotification(pending, v.vehicleID)}
      BY <2>4, <3>1 DEF TornEdit, Vehicle
    <3>3. id # v.vehicleID /\ id \notin damaged /\ today' = today
      BY <1>1, <3>2 DEF Torn
    <3>4. context' = (context \ {editing.row}) \cup {v}
      BY <3>1, <3>2, EditReplaces DEF TypeOK
    <3>5. \A date \in Days : Row(id, date) \in context' <=> Row(id, date) \in context
      BY <3>2, <3>3, <3>4 DEF Row
    <3> QED
      BY <1>2, <3>2, <3>3, <3>5, MatchedElsewhere
  <2>5. CASE TornDelete
    <3>1. PICK r \in PairedRows : \E view :
            /\ DeleteRecord(rows[r].vehicleID, TRUE)
            /\ Torn(rows[r].vehicleID, view)
      BY <2>5 DEF TornDelete
    <3>2. id # rows[r].vehicleID /\ id \notin damaged /\ pending' = pending /\ today' = today
      BY <1>1, <2>5, <3>1 DEF Torn, TornDelete
    <3>3. \A date \in Days : Row(id, date) \in context' <=> Row(id, date) \in context
      BY <3>1, <3>2 DEF DeleteRecord, Matching, Row
    <3> QED
      BY <1>2, <3>2, <3>3, MatchedElsewhere
  <2> QED
    BY <1>9, <2>1, <2>2, <2>3, <2>4, <2>5 DEF Ends
<1>10. CASE System
  <2>1. CASE NextDay
    BY <1>1, <1>2, <2>1, NextDayStep DEF NextDay
  <2>2. CASE OpenUnheardReminder \/ SnapshotArrives \/ Worker \/ Outside
    BY <1>3, <2>2 DEF OpenUnheardReminder, SnapshotArrives, Worker, Outside, dbVars, reminderVars
  <2> QED
    BY <1>10, <2>1, <2>2 DEF System
<1>11. CASE UNCHANGED vars
  BY <1>3, <1>11 DEF vars, dbVars, reminderVars
<1> QED
  BY <1>1, <1>6, <1>7, <1>8, <1>9, <1>10, <1>11 DEF Next

\* Before the first launch there are neither rows nor reminders.
LEMMA ReminderInit == Init => ReminderInvariant
<1> SUFFICES ASSUME Init PROVE ReminderInvariant
  OBVIOUS
<1>1. TypeOK
  BY TypeInit
<1>2. VehicleIDsUnique
  BY DEF Init, DatabaseInit, VehicleIDsUnique
<1>3. ScreensShowTheTable
  BY DEF Init, ScreensShowTheTable
<1>4. RemindersMatchVehicles
  BY DEF Init, DatabaseInit, RemindersInit, RemindersMatchVehicles, ReminderDates, DatesToCome, Matching
<1> QED
  BY <1>1, <1>2, <1>3, <1>4 DEF ReminderInvariant

\* ReminderInvariant is inductive.
LEMMA ReminderStep == ReminderInvariant /\ [Next]_vars => ReminderInvariant'
BY TypeStep, KeysStep, ScreensStep, RemindersStep DEF ReminderInvariant

\* A vehicle outside "damaged" has a reminder exactly when its service is
\* still to come, on the day the table gives: through adds, edits, deletes from
\* both lists, midnights, failed saves, restarts and kills.
THEOREM RemindersCorrect == Spec => []RemindersMatchVehicles
<1>1. ReminderInvariant => RemindersMatchVehicles
  BY DEF ReminderInvariant
<1> QED
  BY <1>1, ReminderInit, ReminderStep, PTL DEF Spec

\* The lists and the edit screen in front are never behind the table, and the
\* history list holds only vehicles whose day has passed.
THEOREM ScreensCorrect == Spec => []ScreensShowTheTable
<1>1. ReminderInvariant => ScreensShowTheTable
  BY DEF ReminderInvariant
<1> QED
  BY <1>1, ReminderInit, ReminderStep, PTL DEF Spec

\* Rows keep distinct IDs in the context and in the file.
THEOREM KeysCorrect == Spec => []VehicleIDsUnique
<1>1. ReminderInvariant => VehicleIDsUnique
  BY DEF ReminderInvariant
<1> QED
  BY <1>1, ReminderInit, ReminderStep, PTL DEF Spec

-----------------------------------------------------------------------------
(* Gadgets.  A vehicle keeps a document while no document is overwritten   *)
(* by a new vehicle, so the invariant is about every place that holds the  *)
(* ID of one, and about the documents there will be when the worker has    *)
(* run its queue.                                                          *)

\* The documents of a view are finitely many, each with an ID of its own, and
\* the IDs have been taken.
Apart(view, used) ==
  /\ IsFiniteSet(view)
  /\ \A g, h \in view : g.doc = h.doc => g = h
  /\ \A g \in view : g.doc \in used

\* The documents a queue of tasks writes have IDs that have been taken.
Queued(queue, used) ==
  \A i \in DOMAIN queue : queue[i].kind = "set" => queue[i].gadget.doc \in used

\* Every document the app can name has an ID that has been taken.
UsedInv ==
  /\ Queued(tasks, usedDocs)
  /\ \A i \in DOMAIN arrGadgets : arrGadgets[i].doc \in usedDocs
  /\ \A i \in DOMAIN inbox : \A g \in inbox[i] : g.doc \in usedDocs
  /\ \A g \in docs : g.doc \in usedDocs
  /\ screen = "EditUpcoming" => editing.gadget.doc \in usedDocs

\* While one process has had the collection to itself, what is queued leaves
\* a document for every vehicle.
SettledInv ==
  deaths = 0 /\ remote = 0 =>
    Apart(Settled, usedDocs) /\ Cardinality(context) <= Cardinality(Settled)

\* The inductive invariant behind GadgetPerVehicle.
GadgetInvariant == ReminderInvariant /\ UsedInv /\ SettledInv

-----------------------------------------------------------------------------
(* Runs of the worker, task by task.                                       *)

LEMMA LeastNatural ==
  ASSUME NEW T \in SUBSET Nat, T # {}
  PROVE  \E x \in T : \A y \in T : x <= y
<1>1. PICK x \in T : \A y \in T : ~(<<y, x>> \in OpToRel(<, Nat))
  BY NatLessThanWellFounded, WFMin, Zenon
<1>2. \A y \in T : ~(y < x)
  BY <1>1 DEF OpToRel
<1> QED
  BY <1>2

\* The views along a run.
Runs(f, view, queue, n) ==
  f = [i \in 0..n |-> IF i = 0 THEN view ELSE Applied(f[i-1], queue[i])]

LEMMA RunExists ==
  ASSUME NEW view, NEW queue, NEW n \in Nat
  PROVE  \E f : Runs(f, view, queue, n)
<1> DEFINE T == { m \in Nat : ~\E f : Runs(f, view, queue, m) }
<1> SUFFICES ASSUME T # {} PROVE FALSE
  OBVIOUS
<1>1. PICK m \in T : \A y \in T : m <= y
  BY LeastNatural
<1>2. m \in Nat /\ ~\E f : Runs(f, view, queue, m)
  OBVIOUS
<1>3. CASE m = 0
  <2>1. Runs([i \in 0..0 |-> view], view, queue, 0)
    BY DEF Runs
  <2> QED
    BY <1>2, <1>3, <2>1
<1>4. CASE m # 0
  <2>1. m - 1 \in Nat /\ m - 1 \notin T
    BY <1>1, <1>2, <1>4
  <2>2. PICK g : Runs(g, view, queue, m - 1)
    BY <2>1
  <2> DEFINE f == [i \in 0..m |-> IF i = m THEN Applied(g[m-1], queue[m]) ELSE g[i]]
  <2>3. /\ DOMAIN g = 0..(m - 1)
        /\ \A i \in 0..(m - 1) : g[i] = IF i = 0 THEN view ELSE Applied(g[i-1], queue[i])
    BY <2>2 DEF Runs
  <2>4. \A i \in 0..m : f[i] = IF i = 0 THEN view ELSE Applied(f[i-1], queue[i])
    <3> SUFFICES ASSUME NEW i \in 0..m
                 PROVE  f[i] = IF i = 0 THEN view ELSE Applied(f[i-1], queue[i])
      OBVIOUS
    <3>1. CASE i = m
      <4>1. i - 1 \in 0..m /\ i - 1 # m /\ i # 0
        BY <1>2, <1>4, <3>1
      <4>2. f[i-1] = g[m-1] /\ f[i] = Applied(g[m-1], queue[m])
        BY <3>1, <4>1
      <4> QED
        BY <3>1, <4>1, <4>2
    <3>2. CASE i # m /\ i # 0
      <4>1. i \in 0..(m - 1) /\ i - 1 \in 0..m /\ i - 1 # m
        BY <1>2, <3>2
      <4>2. f[i] = g[i] /\ f[i-1] = g[i-1]
        BY <3>2, <4>1
      <4> QED
        BY <2>3, <3>2, <4>1, <4>2
    <3>3. CASE i # m /\ i = 0
      <4>1. f[i] = g[0] /\ 0 \in 0..(m - 1)
        BY <1>2, <1>4, <3>3
      <4> QED
        BY <2>3, <3>3, <4>1
    <3> QED
      BY <3>1, <3>2, <3>3
  <2>5. f = [i \in 0..m |-> IF i = 0 THEN view ELSE Applied(f[i-1], queue[i])]
    BY <2>4
  <2>6. Runs(f, view, queue, m)
    BY <2>5 DEF Runs
  <2> QED
    BY <1>2, <2>6
<1> QED
  BY <1>3, <1>4

\* f tells the views of a run up to its k-th task.
Tells(f, view, queue, k) ==
  \A i \in 0..k : f[i] = IF i = 0 THEN view ELSE Applied(f[i-1], queue[i])

\* Two queues have the same first k tasks.
SameTasks(queue, other, k) == \A i \in 1..k : queue[i] = other[i]

LEMMA RunTells ==
  ASSUME NEW view, NEW queue, NEW n \in Nat, NEW f, Runs(f, view, queue, n), NEW k \in 0..n
  PROVE  Tells(f, view, queue, k)
BY DEF Runs, Tells

\* There is one run, and it depends on the tasks it has run.
LEMMA RunsAgree ==
  ASSUME NEW view, NEW queue, NEW other, NEW f, NEW g, NEW k \in Nat,
         Tells(f, view, queue, k), Tells(g, view, other, k), SameTasks(queue, other, k)
  PROVE  f[k] = g[k]
<1> DEFINE T == { i \in Nat : i <= k /\ f[i] # g[i] }
<1>1. /\ \A i \in 0..k : f[i] = IF i = 0 THEN view ELSE Applied(f[i-1], queue[i])
      /\ \A i \in 0..k : g[i] = IF i = 0 THEN view ELSE Applied(g[i-1], other[i])
      /\ \A i \in 1..k : queue[i] = other[i]
  BY DEF Tells, SameTasks
<1> SUFFICES ASSUME T # {} PROVE FALSE
  OBVIOUS
<1>2. PICK i \in T : \A y \in T : i <= y
  BY LeastNatural
<1>3. i \in 0..k /\ i \in Nat /\ f[i] # g[i]
  OBVIOUS
<1>4. i # 0
  BY <1>1, <1>3
<1>5. i - 1 \in Nat /\ i - 1 <= k /\ i \in 1..k /\ ~(i <= i - 1)
  BY <1>3, <1>4
<1>6. f[i-1] = g[i-1]
  BY <1>2, <1>5
<1> QED
  BY <1>1, <1>3, <1>4, <1>5, <1>6

LEMMA RunIs ==
  ASSUME NEW view, NEW queue, NEW n \in Nat, n = Len(queue), NEW f, Runs(f, view, queue, n)
  PROVE  Run(view, queue) = f[n]
<1> DEFINE after == CHOOSE g : g = [i \in 0..Len(queue) |-> IF i = 0 THEN view ELSE Applied(g[i-1], queue[i])]
<1>1. Runs(after, view, queue, n)
  BY DEF Runs
<1>2. Run(view, queue) = after[n]
  BY DEF Run
<1> HIDE DEF after
<1>3. Tells(after, view, queue, n) /\ Tells(f, view, queue, n)
  BY <1>1, RunTells
<1>4. SameTasks(queue, queue, n)
  BY DEF SameTasks
<1>5. after[n] = f[n]
  BY <1>3, <1>4, RunsAgree, SMT
<1> QED
  BY <1>2, <1>5

LEMMA RunEmpty ==
  ASSUME NEW view
  PROVE  Run(view, <<>>) = view
<1>1. PICK f : Runs(f, view, <<>>, 0)
  BY RunExists
<1>2. f[0] = view
  BY <1>1 DEF Runs
<1> QED
  BY <1>1, <1>2, RunIs

LEMMA RunAppend ==
  ASSUME NEW S, NEW view, NEW queue \in Seq(S), NEW t \in S
  PROVE  Run(view, Append(queue, t)) = Applied(Run(view, queue), t)
<1>1. PICK n \in Nat : n = Len(queue)
  OBVIOUS
<1>2. PICK longer : longer = Append(queue, t)
  OBVIOUS
<1>3. /\ Len(longer) = n + 1 /\ longer[n + 1] = t
      /\ \A i \in 1..n : queue[i] = longer[i]
  BY <1>1, <1>2
<1>4. PICK f : Runs(f, view, longer, n + 1)
  BY RunExists
<1>5. PICK g : Runs(g, view, queue, n)
  BY RunExists
<1>6. Run(view, longer) = f[n + 1] /\ Run(view, queue) = g[n]
  BY <1>1, <1>3, <1>4, <1>5, RunIs
<1>7. g[n] = f[n]
  <2>1. Tells(g, view, queue, n) /\ Tells(f, view, longer, n)
    BY <1>4, <1>5, RunTells
  <2>2. SameTasks(queue, longer, n)
    BY <1>3 DEF SameTasks
  <2> QED
    BY <2>1, <2>2, RunsAgree, SMT
<1>8. n + 1 \in 0..(n + 1) /\ n + 1 # 0 /\ n + 1 - 1 = n
  OBVIOUS
<1>9. f[n + 1] = Applied(f[n], longer[n + 1])
  BY <1>4, <1>8 DEF Runs
<1> QED
  BY <1>2, <1>3, <1>6, <1>7, <1>9

LEMMA RunTail ==
  ASSUME NEW S, NEW view, NEW queue \in Seq(S), queue # <<>>
  PROVE  Run(Applied(view, Head(queue)), Tail(queue)) = Run(view, queue)
<1>1. PICK n \in Nat : n + 1 = Len(queue)
  <2>1. Len(queue) - 1 \in Nat /\ Len(queue) - 1 + 1 = Len(queue)
    OBVIOUS
  <2> QED
    BY <2>1
<1>2. PICK rest : rest = Tail(queue)
  OBVIOUS
<1>3. PICK next : next = Applied(view, Head(queue))
  OBVIOUS
<1>4. /\ Len(rest) = n /\ \A i \in 1..n : rest[i] = queue[i + 1]
      /\ next = Applied(view, queue[1])
  BY <1>1, <1>2, <1>3
<1>5. PICK f : Runs(f, view, queue, n + 1)
  <2>1. n + 1 \in Nat
    OBVIOUS
  <2> QED
    BY <2>1, RunExists, Zenon
<1> DEFINE g == [i \in 0..n |-> f[i + 1]]
<1>6. /\ \A i \in 0..(n + 1) : f[i] = IF i = 0 THEN view ELSE Applied(f[i-1], queue[i])
  BY <1>5 DEF Runs
<1>7. \A i \in 0..n : g[i] = IF i = 0 THEN next ELSE Applied(g[i-1], rest[i])
  <2> SUFFICES ASSUME NEW i \in 0..n
               PROVE  g[i] = IF i = 0 THEN next ELSE Applied(g[i-1], rest[i])
    OBVIOUS
  <2>1. i + 1 \in 0..(n + 1) /\ i + 1 # 0 /\ i + 1 - 1 = i
    OBVIOUS
  <2>2. g[i] = Applied(f[i], queue[i + 1])
    BY <1>6, <2>1
  <2>3. CASE i = 0
    <3>1. 0 \in 0..(n + 1) /\ 0 + 1 = 1
      OBVIOUS
    <3>2. f[0] = view
      BY <1>6, <3>1
    <3> QED
      BY <1>4, <2>2, <2>3, <3>1, <3>2
  <2>4. CASE i # 0
    <3>1. i \in 1..n /\ i - 1 \in 0..n /\ i - 1 + 1 = i
      BY <2>4
    <3>2. g[i-1] = f[i] /\ rest[i] = queue[i + 1]
      BY <1>4, <3>1
    <3> QED
      BY <2>2, <2>4, <3>2
  <2> QED
    BY <2>3, <2>4
<1>8. g = [i \in 0..n |-> IF i = 0 THEN next ELSE Applied(g[i-1], rest[i])]
  BY <1>7
<1>9. Runs(g, next, rest, n)
  BY <1>8 DEF Runs
<1>10. g[n] = f[n + 1]
  OBVIOUS
<1> HIDE DEF g
<1>11. Run(next, rest) = g[n]
  BY <1>4, <1>9, RunIs
<1>12. Run(view, queue) = f[n + 1]
  BY <1>1, <1>5, RunIs
<1> QED
  BY <1>2, <1>3, <1>10, <1>11, <1>12

-----------------------------------------------------------------------------
(* Writing and dropping documents.                                         *)

LEMMA PutApart ==
  ASSUME NEW view, NEW used, NEW more, NEW g,
         Apart(view, used), used \subseteq more, g.doc \in more
  PROVE  /\ Apart(Put(view, g), more)
         /\ Cardinality(view) <= Cardinality(Put(view, g))
         /\ g.doc \notin used => Cardinality(Put(view, g)) = Cardinality(view) + 1
<1>1. IsFiniteSet(view) /\ Cardinality(view) \in Nat
  BY FS_CardinalityType DEF Apart
<1>2. CASE \A h \in view : h.doc # g.doc
  <2>1. Put(view, g) = view \cup {g} /\ g \notin view
    BY <1>2 DEF Put
  <2>2. IsFiniteSet(Put(view, g)) /\ Cardinality(Put(view, g)) = Cardinality(view) + 1
    BY <1>1, <2>1, FS_AddElement
  <2>3. Apart(Put(view, g), more)
    BY <1>2, <2>1, <2>2 DEF Apart
  <2> QED
    BY <1>1, <2>2, <2>3
<1>3. ASSUME NEW h \in view, h.doc = g.doc
      PROVE  /\ Apart(Put(view, g), more) /\ g.doc \in used
             /\ Cardinality(view) = Cardinality(Put(view, g))
  <2>1. Put(view, g) = (view \ {h}) \cup {g}
    BY <1>3 DEF Put, Apart
  <2>2. IsFiniteSet(view \ {h}) /\ Cardinality(view \ {h}) = Cardinality(view) - 1
    BY <1>1, FS_RemoveElement
  <2>3. g \notin view \ {h}
    BY <1>3 DEF Apart
  <2>4. IsFiniteSet(Put(view, g)) /\ Cardinality(Put(view, g)) = Cardinality(view) - 1 + 1
    BY <2>1, <2>2, <2>3, FS_AddElement
  <2>5. Apart(Put(view, g), more)
    BY <1>3, <2>1, <2>4 DEF Apart
  <2> QED
    BY <1>1, <1>3, <2>4, <2>5 DEF Apart
<1> QED
  BY <1>1, <1>2, <1>3

LEMMA DropApart ==
  ASSUME NEW view, NEW used, NEW d, Apart(view, used)
  PROVE  Apart(Drop(view, d), used) /\ Cardinality(view) - 1 <= Cardinality(Drop(view, d))
<1>1. IsFiniteSet(view) /\ Cardinality(view) \in Nat
  BY FS_CardinalityType DEF Apart
<1>2. CASE \A h \in view : h.doc # d
  <2>1. Drop(view, d) = view
    BY <1>2 DEF Drop
  <2> QED
    BY <1>1, <2>1
<1>3. ASSUME NEW h \in view, h.doc = d
      PROVE  Apart(Drop(view, d), used) /\ Cardinality(view) - 1 <= Cardinality(Drop(view, d))
  <2>1. Drop(view, d) = view \ {h}
    BY <1>3 DEF Drop, Apart
  <2>2. IsFiniteSet(view \ {h}) /\ Cardinality(view \ {h}) = Cardinality(view) - 1
    BY <1>1, FS_RemoveElement
  <2>3. Apart(Drop(view, d), used)
    BY <2>1, <2>2 DEF Apart
  <2> QED
    BY <1>1, <2>1, <2>2, <2>3
<1> QED
  BY <1>1, <1>2, <1>3

-----------------------------------------------------------------------------
(* The IDs taken.                                                          *)

LEMMA QueuedAppend ==
  ASSUME NEW queue \in Seq(Task), NEW t \in Task, NEW used, NEW more,
         Queued(queue, used), used \subseteq more, t.kind = "set" => t.gadget.doc \in more
  PROVE  Queued(Append(queue, t), more)
<1> SUFFICES ASSUME NEW i \in DOMAIN Append(queue, t), Append(queue, t)[i].kind = "set"
             PROVE  Append(queue, t)[i].gadget.doc \in more
  BY DEF Queued
<1>1. CASE i \in DOMAIN queue
  <2>1. Append(queue, t)[i] = queue[i]
    BY <1>1
  <2> QED
    BY <1>1, <2>1 DEF Queued
<1>2. CASE i \notin DOMAIN queue
  <2>1. Append(queue, t)[i] = t
    BY <1>2
  <2> QED
    BY <2>1
<1> QED
  BY <1>1, <1>2

LEMMA QueuedTail ==
  ASSUME NEW queue \in Seq(Task), queue # <<>>, NEW used, Queued(queue, used)
  PROVE  /\ Queued(Tail(queue), used)
         /\ Head(queue).kind = "set" => Head(queue).gadget.doc \in used
BY DEF Queued

\* What the tasks of a handler are.
LEMMA TaskIs ==
  /\ ListenTask \in Task /\ ListenTask.kind = "listen"
  /\ \A d \in DocIDs, v \in Vehicle :
       SetTask(d, v) \in Task /\ SetTask(d, v).kind = "set" /\ SetTask(d, v).gadget.doc = d
  /\ \A d \in DocIDs : DeleteTask(d) \in Task /\ DeleteTask(d).kind = "delete"
BY DEF ListenTask, SetTask, DeleteTask, GadgetOf, Task, Gadget, Vehicle

\* The steps that leave the collection and its IDs alone.
LEMMA UsedFrame ==
  ASSUME UsedInv, UNCHANGED <<docs, inbox, usedDocs, arrGadgets>>,
         screen' = "EditUpcoming" => editing'.gadget.doc \in usedDocs,
         Queued(tasks', usedDocs)
  PROVE  UsedInv'
BY DEF UsedInv

\* The end of a process.
LEMMA UsedDeath ==
  ASSUME UsedInv, Die, tasks' = <<>>, inbox' = <<>>, usedDocs \subseteq usedDocs',
         \A g \in docs' : g.doc \in usedDocs'
  PROVE  UsedInv'
<1>1. Queued(tasks', usedDocs')
  BY DEF Queued
<1>2. \A i \in DOMAIN arrGadgets' : arrGadgets'[i].doc \in usedDocs'
  BY DEF Die
<1>3. screen' # "EditUpcoming"
  BY DEF Die
<1> QED
  BY <1>1, <1>2, <1>3 DEF UsedInv

LEMMA UsedPut ==
  ASSUME NEW view, NEW used, \A g \in view : g.doc \in used, NEW h, NEW more,
         used \subseteq more, h.doc \in more
  PROVE  \A g \in Put(view, h) : g.doc \in more
BY DEF Put

LEMMA UsedNavigate == GadgetInvariant /\ Navigate => UsedInv'
<1> SUFFICES ASSUME GadgetInvariant, Navigate PROVE UsedInv'
  OBVIOUS
<1>1. tasks \in Seq(Task) /\ Queued(tasks, usedDocs) /\ UsedInv
  BY DEF GadgetInvariant, ReminderInvariant, TypeOK, GadgetType, UsedInv
<1>2. Queued(Read(tasks), usedDocs)
  BY <1>1, TaskIs, QueuedAppend DEF Read
<1>3. UNCHANGED <<docs, inbox, usedDocs, arrGadgets>> /\ tasks' \in {tasks, Read(tasks)}
  BY DEF Navigate, Launch, SelectAll, SelectHistory, SelectAdd, TapRow, TapHistoryRow, BackToAll,
     BackToHistory, AppearAll, gadgetVars
<1>4. CASE TapRow
  <2>1. editing'.gadget.doc \in usedDocs
    BY <1>1, <1>4 DEF TapRow, PairedRows, UsedInv
  <2> QED
    BY <1>1, <1>2, <1>3, <2>1, UsedFrame
<1>5. CASE ~TapRow
  <2>1. screen' # "EditUpcoming"
    BY <1>5 DEF Navigate, Launch, SelectAll, SelectHistory, SelectAdd, TapHistoryRow, BackToAll,
       BackToHistory, UncoverAll
  <2> QED
    BY <1>1, <1>2, <1>3, <2>1, UsedFrame
<1> QED
  BY <1>4, <1>5

LEMMA UsedChange == GadgetInvariant /\ Change => UsedInv'
<1> SUFFICES ASSUME GadgetInvariant, Change PROVE UsedInv'
  OBVIOUS
<1>1. /\ tasks \in Seq(Task) /\ Queued(tasks, usedDocs) /\ UsedInv
      /\ usedDocs \subseteq DocIDs /\ arrGadgets \in Seq(Gadget)
  BY DEF GadgetInvariant, ReminderInvariant, TypeOK, GadgetType, ViewType, UsedInv
<1>2. CASE PickDate \/ DeleteHistoryRow
  BY <1>1, <1>2, UsedFrame DEF PickDate, DeleteHistoryRow, gadgetVars, viewVars, UsedInv
<1>3. CASE SaveNew
  <2>1. PICK v \in Vehicle, d \in DocIDs : tasks' = Append(tasks, SetTask(d, v)) /\ usedDocs' = usedDocs \cup {d}
    BY <1>3 DEF SaveNew, Create, Vehicle
  <2>2. Queued(tasks', usedDocs')
    BY <1>1, <2>1, TaskIs, QueuedAppend
  <2> QED
    BY <1>1, <1>3, <2>1, <2>2 DEF SaveNew, viewVars, UsedInv
<1>4. CASE SaveEdit
  <2>1. editing \in Edit /\ editing.gadget.doc \in usedDocs /\ editing.gadget.doc \in DocIDs
    BY <1>1, <1>4 DEF SaveEdit, Step, UsedInv, GadgetInvariant, ReminderInvariant, TypeOK, ViewType
  <2>2. PICK v \in Vehicle : tasks' = Append(Append(tasks, SetTask(editing.gadget.doc, v)), ListenTask)
    BY <1>4, <2>1 DEF SaveEdit, Update, Read, Vehicle, Edit
  <2>3. PICK queue \in Seq(Task) :
           tasks' = Append(queue, ListenTask) /\ Queued(queue, usedDocs)
    <3>1. SetTask(editing.gadget.doc, v) \in Task
      BY <2>1, TaskIs
    <3>2. Append(tasks, SetTask(editing.gadget.doc, v)) \in Seq(Task)
      BY <1>1, <3>1
    <3>3. Queued(Append(tasks, SetTask(editing.gadget.doc, v)), usedDocs)
      BY <1>1, <2>1, <3>1, TaskIs, QueuedAppend
    <3> QED
      BY <2>2, <3>2, <3>3
  <2>5. Queued(tasks', usedDocs)
    BY <2>3, TaskIs, QueuedAppend
  <2>6. screen' # "EditUpcoming" /\ UNCHANGED <<docs, inbox, usedDocs, arrGadgets>>
    BY <1>4 DEF SaveEdit, UncoverAll
  <2> QED
    BY <1>1, <2>5, <2>6, UsedFrame
<1>5. CASE DeleteRow
  <2>1. PICK d \in DocIDs : tasks' = Append(tasks, DeleteTask(d))
    <3>1. PICK r \in DOMAIN arrGadgets : tasks' = Append(tasks, DeleteTask(arrGadgets[r].doc))
      BY <1>5 DEF DeleteRow, Delete, PairedRows
    <3>2. arrGadgets[r].doc \in DocIDs
      <4>1. arrGadgets[r] \in Gadget
        BY <1>1
      <4> QED
        BY <4>1 DEF Gadget
    <3> QED
      BY <3>1, <3>2
  <2>2. Queued(tasks', usedDocs)
    BY <1>1, <2>1, TaskIs, QueuedAppend
  <2>3. UNCHANGED <<docs, inbox, usedDocs, arrGadgets, screen, editing>>
    BY <1>5 DEF DeleteRow
  <2> QED
    BY <1>1, <2>2, <2>3, UsedFrame DEF UsedInv
<1> QED
  BY <1>2, <1>3, <1>4, <1>5 DEF Change

LEMMA UsedEnds == GadgetInvariant /\ (Traps \/ Ends) => UsedInv'
<1> SUFFICES ASSUME GadgetInvariant, Traps \/ Ends PROVE UsedInv'
  OBVIOUS
<1>1. UsedInv /\ \A g \in docs : g.doc \in usedDocs
  BY DEF GadgetInvariant, UsedInv
<1>2. ASSUME Die, LoseQueues PROVE UsedInv'
  BY <1>1, <1>2, UsedDeath DEF LoseQueues
<1>3. CASE Traps \/ Quit \/ Kill
  BY <1>2, <1>3 DEF Traps, TouchMissingRow, ScrollToMissingRow, SaveBadForm, SaveEditFromHistory,
     DeleteLookupFails, OpenReminder, Trap, Crash, Quit, Kill
<1>4. ASSUME NEW id, NEW view, Torn(id, view), usedDocs \subseteq usedDocs',
             \A g \in view : g.doc \in usedDocs'
      PROVE  UsedInv'
  BY <1>1, <1>4, UsedDeath DEF Torn
<1>5. CASE TornNew
  <2>1. PICK d, v : Torn(v.vehicleID, Put(docs, GadgetOf(d, v))) /\ usedDocs' = usedDocs \cup {d}
    BY <1>5 DEF TornNew
  <2>2. \A g \in Put(docs, GadgetOf(d, v)) : g.doc \in usedDocs'
    <3>1. GadgetOf(d, v).doc \in usedDocs' /\ usedDocs \subseteq usedDocs'
      BY <2>1 DEF GadgetOf
    <3> QED
      BY <1>1, <3>1, UsedPut
  <2> QED
    BY <1>4, <2>1, <2>2
<1>6. CASE TornEdit
  <2>1. PICK v : Torn(v.vehicleID, Put(docs, GadgetOf(editing.gadget.doc, v)))
    BY <1>6 DEF TornEdit
  <2>2. usedDocs' = usedDocs /\ editing.gadget.doc \in usedDocs
    BY <1>1, <1>6 DEF TornEdit, Step, UsedInv
  <2>3. \A g \in Put(docs, GadgetOf(editing.gadget.doc, v)) : g.doc \in usedDocs'
    BY <1>1, <2>2, UsedPut DEF GadgetOf
  <2> QED
    BY <1>4, <2>1, <2>2, <2>3
<1>7. CASE TornDelete
  <2>1. PICK r \in PairedRows : Torn(rows[r].vehicleID, Drop(docs, arrGadgets[r].doc))
    BY <1>7 DEF TornDelete
  <2>2. usedDocs' = usedDocs /\ \A g \in Drop(docs, arrGadgets[r].doc) : g.doc \in usedDocs'
    BY <1>1, <1>7 DEF TornDelete, Drop
  <2> QED
    BY <1>4, <2>1, <2>2
<1> QED
  BY <1>3, <1>5, <1>6, <1>7 DEF Ends

LEMMA UsedSystem == GadgetInvariant /\ System => UsedInv'
<1> SUFFICES ASSUME GadgetInvariant, System PROVE UsedInv'
  OBVIOUS
<1>1. /\ tasks \in Seq(Task) /\ Queued(tasks, usedDocs) /\ UsedInv
      /\ inbox \in Seq(View) /\ docs \in View
  BY DEF GadgetInvariant, ReminderInvariant, TypeOK, GadgetType, UsedInv
<1>2. CASE NextDay \/ OpenUnheardReminder
  BY <1>1, <1>2, UsedFrame DEF NextDay, OpenUnheardReminder, gadgetVars, viewVars, UsedInv
<1>3. CASE SnapshotArrives
  <2>1. \A i \in DOMAIN inbox' : \A g \in inbox'[i] : g.doc \in usedDocs
    BY <1>1, <1>3 DEF SnapshotArrives, UsedInv
  <2>2. \A g \in Head(inbox) : g.doc \in usedDocs
    BY <1>1, <1>3 DEF SnapshotArrives, UsedInv
  <2>3. \A i \in DOMAIN arrGadgets' : arrGadgets'[i].doc \in usedDocs
    <3>1. CASE arrGadgets' = arrGadgets
      BY <1>1, <3>1 DEF UsedInv
    <3>2. CASE arrGadgets' \in Sorted(Head(inbox), "doc")
      BY <2>2, <3>2 DEF Sorted
    <3> QED
      BY <1>3, <3>1, <3>2 DEF SnapshotArrives
  <2> QED
    BY <1>1, <1>3, <2>1, <2>3 DEF SnapshotArrives, UsedInv
<1>4. CASE Worker \/ Outside
  <2>1. /\ usedDocs \subseteq usedDocs' /\ UNCHANGED <<arrGadgets, screen, editing>>
        /\ Queued(tasks', usedDocs') /\ \A g \in docs' : g.doc \in usedDocs'
    <3>1. CASE Worker
      <4>1. Queued(Tail(tasks), usedDocs) /\ \A g \in Applied(docs, Head(tasks)) : g.doc \in usedDocs
        <5>1. Head(tasks) \in Task /\ tasks # <<>>
          BY <1>1, <3>1 DEF Worker, RunTask
        <5>2. Queued(Tail(tasks), usedDocs) /\ (Head(tasks).kind = "set" => Head(tasks).gadget.doc \in usedDocs)
          BY <1>1, <5>1, QueuedTail
        <5>3. \A g \in docs : g.doc \in usedDocs
          BY <1>1 DEF UsedInv
        <5>4. CASE Head(tasks).kind = "set"
          <6>1. Applied(docs, Head(tasks)) = Put(docs, Head(tasks).gadget)
            BY <5>4 DEF Applied
          <6> QED
            BY <5>2, <5>3, <5>4, <6>1, UsedPut
        <5>5. CASE Head(tasks).kind = "delete"
          BY <5>2, <5>3, <5>5 DEF Applied, Drop
        <5>6. CASE Head(tasks).kind = "listen"
          BY <5>2, <5>3, <5>6 DEF Applied
        <5>7. Head(tasks).kind \in {"set", "delete", "listen"}
          BY <5>1 DEF Task, ListenTask
        <5> QED
          BY <5>4, <5>5, <5>6, <5>7
      <4> QED
        BY <3>1, <4>1 DEF Worker, RunTask, viewVars
    <3>2. CASE Outside
      <4>1. UsedInv /\ \A g \in docs : g.doc \in usedDocs
        BY <1>1 DEF UsedInv
      <4>2. \A g \in docs' : g.doc \in usedDocs'
        <5>1. CASE \E g \in docs : docs' = docs \ {g} /\ usedDocs' = usedDocs
          BY <4>1, <5>1
        <5>2. ASSUME NEW h, docs' = Put(docs, h), h.doc \in usedDocs', usedDocs \subseteq usedDocs'
              PROVE  \A g \in docs' : g.doc \in usedDocs'
          BY <4>1, <5>2, UsedPut
        <5>3. CASE \E d \in DocIDs \ usedDocs, of \in {Foreign, Malformed}, due \in Days :
                     /\ docs' = Put(docs, [doc |-> d, of |-> of, due |-> due])
                     /\ usedDocs' = usedDocs \cup {d}
          BY <5>2, <5>3
        <5>4. CASE \E g \in docs, due \in Days :
                     docs' = Put(docs, [g EXCEPT !.due = due]) /\ usedDocs' = usedDocs
          <6>1. PICK g \in docs, due \in Days :
                   docs' = Put(docs, [g EXCEPT !.due = due]) /\ usedDocs' = usedDocs
            BY <5>4
          <6>2. PICK h : h = [g EXCEPT !.due = due]
            OBVIOUS
          <6>3. h.doc = g.doc
            BY <1>1, <6>2 DEF View, Gadget
          <6>4. docs' = Put(docs, h) /\ h.doc \in usedDocs' /\ usedDocs \subseteq usedDocs'
            BY <4>1, <6>1, <6>2, <6>3
          <6> QED
            BY <5>2, <6>4
        <5> QED
          BY <3>2, <5>1, <5>3, <5>4 DEF Outside, RemoteChange
      <4>3. usedDocs \subseteq usedDocs' /\ UNCHANGED <<arrGadgets, screen, editing, tasks>>
        BY <3>2 DEF Outside, RemoteChange, viewVars
      <4> QED
        BY <1>1, <4>2, <4>3 DEF Queued
    <3> QED
      BY <1>4, <3>1, <3>2
  <2>2. inbox' \in {inbox, Append(inbox, docs')}
    BY <1>4 DEF Worker, RunTask, Outside, RemoteChange
  <2>3. \A i \in DOMAIN inbox' : \A g \in inbox'[i] : g.doc \in usedDocs'
    BY <1>1, <2>1, <2>2 DEF UsedInv
  <2> QED
    BY <1>1, <2>1, <2>3 DEF UsedInv
<1> QED
  BY <1>2, <1>3, <1>4 DEF System

\* Every step names documents by IDs that have been taken.
LEMMA UsedStep == GadgetInvariant /\ [Next]_vars => UsedInv'
<1>1. GadgetInvariant /\ UNCHANGED vars => UsedInv'
  BY DEF GadgetInvariant, UsedInv, vars, gadgetVars, viewVars
<1> QED
  BY <1>1, UsedNavigate, UsedChange, UsedEnds, UsedSystem DEF Next

-----------------------------------------------------------------------------
(* The documents there will be.                                            *)

\* What one more task makes of them.
LEMMA SettledAppend ==
  ASSUME GadgetType, NEW t \in Task, tasks' = Append(tasks, t), docs' = docs
  PROVE  Settled' = Applied(Settled, t)
<1>1. Run(docs, Append(tasks, t)) = Applied(Run(docs, tasks), t)
  BY RunAppend DEF GadgetType
<1> QED
  BY <1>1 DEF Settled

\* A table of no more rows, with no fewer documents to come.
LEMMA SettledKept ==
  ASSUME SettledInv, DatabaseType, NEW lost \in Nat,
         deaths' = deaths, remote' = remote,
         deaths = 0 /\ remote = 0 =>
           /\ Apart(Settled', usedDocs')
           /\ Cardinality(Settled) <= Cardinality(Settled') + lost,
         Cardinality(context') + lost <= Cardinality(context), Cardinality(context') \in Nat
  PROVE  SettledInv'
<1> SUFFICES ASSUME deaths = 0 /\ remote = 0
             PROVE  Apart(Settled', usedDocs') /\ Cardinality(context') <= Cardinality(Settled')
  BY DEF SettledInv
<1>1. Cardinality(context) \in Nat
  BY FS_CardinalityType DEF DatabaseType
<1>2. Cardinality(Settled) \in Nat /\ Cardinality(Settled') \in Nat
  BY FS_CardinalityType DEF SettledInv, Apart
<1> QED
  BY <1>1, <1>2 DEF SettledInv

\* The steps that leave rows and documents alone, reading included.
LEMMA SettledFrame ==
  ASSUME SettledInv, GadgetType, UNCHANGED <<context, docs, usedDocs, deaths, remote>>,
         tasks' \in {tasks, Read(tasks)}
  PROVE  SettledInv'
<1>1. CASE tasks' = tasks
  <2>1. Settled' = Settled
    BY <1>1 DEF Settled
  <2> QED
    BY <2>1 DEF SettledInv
<1>2. CASE tasks' = Read(tasks)
  <2>1. Settled' = Applied(Settled, ListenTask)
    BY <1>2, TaskIs, SettledAppend DEF Read
  <2>2. Applied(Settled, ListenTask) = Settled
    BY DEF Applied, ListenTask
  <2> QED
    BY <2>1, <2>2 DEF SettledInv
<1> QED
  BY <1>1, <1>2

LEMMA SettledChange == GadgetInvariant /\ Change => SettledInv'
<1> SUFFICES ASSUME GadgetInvariant, Change PROVE SettledInv'
  OBVIOUS
<1>1. SettledInv /\ GadgetType /\ DatabaseType /\ ViewType /\ VehicleIDsUnique /\ UsedInv
  BY DEF GadgetInvariant, ReminderInvariant, TypeOK
<1>2. deaths' = deaths /\ remote' = remote
  BY DEF Change, PickDate, SaveNew, SaveEdit, DeleteRow, DeleteHistoryRow, gadgetVars
<1>3. IsFiniteSet(context) /\ Cardinality(context) \in Nat
  BY <1>1, FS_CardinalityType DEF DatabaseType
<1>4. CASE PickDate
  BY <1>1, <1>4, SettledFrame DEF PickDate, dbVars, gadgetVars
<1>5. CASE SaveNew
  <2>1. PICK v \in Vehicle, d \in DocIDs \ usedDocs :
          /\ context' = context \cup {v}
          /\ tasks' = Append(tasks, SetTask(d, v)) /\ usedDocs' = usedDocs \cup {d}
    BY <1>5 DEF SaveNew, Create, AddRecord, Vehicle
  <2>2. docs' = docs
    BY <1>5 DEF SaveNew
  <2>3. Settled' = Put(Settled, GadgetOf(d, v))
    <3>1. SetTask(d, v) \in Task
      BY <2>1, TaskIs
    <3>2. Settled' = Applied(Settled, SetTask(d, v))
      BY <1>1, <2>1, <2>2, <3>1, SettledAppend
    <3> QED
      BY <3>2 DEF Applied, SetTask
  <2>4. SUFFICES ASSUME deaths = 0 /\ remote = 0
                 PROVE  Apart(Settled', usedDocs') /\ Cardinality(context') <= Cardinality(Settled')
    BY <1>2 DEF SettledInv
  <2>5. Apart(Settled, usedDocs) /\ Cardinality(context) <= Cardinality(Settled)
    BY <1>1, <2>4 DEF SettledInv
  <2>6. PICK g : g = GadgetOf(d, v)
    OBVIOUS
  <2>7. usedDocs \subseteq usedDocs' /\ g.doc \in usedDocs' /\ g.doc \notin usedDocs
    BY <2>1, <2>6 DEF GadgetOf
  <2>8. Apart(Put(Settled, g), usedDocs') /\ Cardinality(Put(Settled, g)) = Cardinality(Settled) + 1
    BY <2>5, <2>7, PutApart
  <2>9. Cardinality(context') <= Cardinality(context) + 1
    <3>1. Cardinality(context \cup {v})
            = IF v \in context THEN Cardinality(context) ELSE Cardinality(context) + 1
      BY <1>3, FS_AddElement
    <3> QED
      BY <1>3, <2>1, <3>1
  <2>10. Cardinality(Settled) \in Nat /\ Cardinality(context') \in Nat
    BY <1>3, <2>1, <2>5, FS_CardinalityType, FS_AddElement DEF Apart
  <2> QED
    BY <1>3, <2>3, <2>5, <2>6, <2>8, <2>9, <2>10
<1>6. CASE SaveEdit
  <2>1. editing \in Edit /\ editing.gadget.doc \in usedDocs /\ editing.gadget.doc \in DocIDs
    BY <1>1, <1>6 DEF SaveEdit, Step, UsedInv, ViewType, GadgetType
  <2>2. editing.row \in context
    BY <1>6 DEF SaveEdit, Step, GadgetInvariant, ReminderInvariant, ScreensShowTheTable
  <2>3. PICK v \in Vehicle, fetched \in BOOLEAN, saved \in BOOLEAN :
          /\ v.vehicleID = editing.row.vehicleID
          /\ EditRecord(v, fetched, saved)
          /\ tasks' = Append(Append(tasks, SetTask(editing.gadget.doc, v)), ListenTask)
    BY <1>6, <2>1 DEF SaveEdit, Update, Read, Vehicle, Edit
  <2>4. docs' = docs /\ usedDocs' = usedDocs
    BY <1>6 DEF SaveEdit
  <2>5. Settled' = Put(Settled, GadgetOf(editing.gadget.doc, v))
    <3>1. SetTask(editing.gadget.doc, v) \in Task
      BY <2>1, TaskIs
    <3>2. PICK queue \in Seq(Task) : queue = Append(tasks, SetTask(editing.gadget.doc, v))
      <4>1. PICK task \in Task : task = SetTask(editing.gadget.doc, v)
        BY <3>1
      <4>2. tasks \in Seq(Task) /\ Append(tasks, task) \in Seq(Task)
        BY <1>1 DEF GadgetType
      <4> QED
        BY <4>1, <4>2
    <3>3. Run(docs, queue) = Applied(Run(docs, tasks), SetTask(editing.gadget.doc, v))
      BY <1>1, <3>1, <3>2, RunAppend DEF GadgetType
    <3>4. Run(docs, Append(queue, ListenTask)) = Applied(Run(docs, queue), ListenTask)
      BY TaskIs, RunAppend
    <3>5. Settled' = Applied(Applied(Settled, SetTask(editing.gadget.doc, v)), ListenTask)
      BY <2>3, <2>4, <3>2, <3>3, <3>4 DEF Settled
    <3> QED
      BY <3>5 DEF Applied, SetTask, ListenTask
  <2>6. IsFiniteSet(context') /\ Cardinality(context') <= Cardinality(context)
    <3>a. PICK row \in context : row = editing.row
      BY <2>2
    <3>b. DatabaseType /\ VehicleIDsUnique /\ EditRecord(v, fetched, saved)
      BY <1>1, <2>3
    <3>c. v.vehicleID = row.vehicleID
      BY <2>3, <3>a
    <3>d. /\ fetched => context' = (context \ {row}) \cup {v}
          /\ ~fetched => context' = context
      BY <3>b, <3>c, EditReplaces
    <3>1. CASE fetched
      <4>1. context' = (context \ {editing.row}) \cup {v}
        BY <3>1, <3>a, <3>d
      <4>2. PICK others : others = context \ {editing.row}
        OBVIOUS
      <4>3. IsFiniteSet(others) /\ Cardinality(others) = Cardinality(context) - 1
        BY <1>3, <2>2, <4>2, FS_RemoveElement
      <4>4. /\ IsFiniteSet(others \cup {v}) /\ Cardinality(others) \in Nat
            /\ Cardinality(others \cup {v}) <= Cardinality(others) + 1
        <5>1. Cardinality(others) \in Nat
          BY <4>3, FS_CardinalityType
        <5>2. /\ IsFiniteSet(others \cup {v})
              /\ Cardinality(others \cup {v})
                   = IF v \in others THEN Cardinality(others) ELSE Cardinality(others) + 1
          BY <4>3, FS_AddElement
        <5> QED
          BY <5>1, <5>2
      <4> QED
        BY <1>3, <4>1, <4>2, <4>3, <4>4
    <3>2. CASE ~fetched
      BY <1>3, <3>2, <3>d
    <3> QED
      BY <3>1, <3>2
  <2>7. ASSUME deaths = 0 /\ remote = 0
        PROVE  Apart(Settled', usedDocs') /\ Cardinality(Settled) <= Cardinality(Settled') + 0
    <3>1. Apart(Settled, usedDocs) /\ Cardinality(Settled) \in Nat
      BY <1>1, <2>7, FS_CardinalityType DEF SettledInv, Apart
    <3>2. PICK g : g = GadgetOf(editing.gadget.doc, v)
      OBVIOUS
    <3>3. g.doc \in usedDocs
      BY <2>1, <3>2 DEF GadgetOf
    <3>4. Apart(Put(Settled, g), usedDocs) /\ Cardinality(Settled) <= Cardinality(Put(Settled, g))
      BY <3>1, <3>3, PutApart
    <3>5. Cardinality(Put(Settled, g)) \in Nat
      BY <3>4, FS_CardinalityType DEF Apart
    <3> QED
      BY <2>4, <2>5, <3>2, <3>4, <3>5
  <2>8. Cardinality(context') \in Nat /\ Cardinality(context') + 0 <= Cardinality(context)
    BY <1>3, <2>6, FS_CardinalityType
  <2> QED
    BY <1>1, <1>2, <2>7, <2>8, SettledKept
<1>7. CASE DeleteRow
  <2>1. PICK r \in PairedRows, saved \in BOOLEAN :
          /\ DeleteRecord(rows[r].vehicleID, saved)
          /\ tasks' = Append(tasks, DeleteTask(arrGadgets[r].doc))
    BY <1>7 DEF DeleteRow, Delete
  <2>2. rows[r] \in context
    BY <1>7 DEF DeleteRow, Step, GadgetInvariant, ReminderInvariant, ScreensShowTheTable, PairedRows,
       Listed
  <2>3. context' = context \ {rows[r]}
    BY <1>1, <2>1, <2>2, DeleteRemoves
  <2>4. IsFiniteSet(context') /\ Cardinality(context') = Cardinality(context) - 1
    BY <1>3, <2>2, <2>3, FS_RemoveElement
  <2>5. docs' = docs /\ usedDocs' = usedDocs
    BY <1>7 DEF DeleteRow
  <2>6. Settled' = Drop(Settled, arrGadgets[r].doc)
    <3>1. arrGadgets[r] \in Gadget
      BY <1>1 DEF PairedRows, ViewType
    <3>2. DeleteTask(arrGadgets[r].doc) \in Task
      BY <3>1, TaskIs DEF Gadget
    <3>3. Settled' = Applied(Settled, DeleteTask(arrGadgets[r].doc))
      BY <1>1, <2>1, <2>5, <3>2, SettledAppend
    <3> QED
      BY <3>3 DEF Applied, DeleteTask
  <2>7. ASSUME deaths = 0 /\ remote = 0
        PROVE  Apart(Settled', usedDocs') /\ Cardinality(Settled) <= Cardinality(Settled') + 1
    <3>1. Apart(Settled, usedDocs) /\ Cardinality(Settled) \in Nat
      BY <1>1, <2>7, FS_CardinalityType DEF SettledInv, Apart
    <3>2. /\ Apart(Drop(Settled, arrGadgets[r].doc), usedDocs)
          /\ Cardinality(Settled) - 1 <= Cardinality(Drop(Settled, arrGadgets[r].doc))
      BY <3>1, DropApart
    <3>3. Cardinality(Drop(Settled, arrGadgets[r].doc)) \in Nat
      BY <3>2, FS_CardinalityType DEF Apart
    <3> QED
      BY <2>5, <2>6, <3>1, <3>2, <3>3
  <2>8. Cardinality(context') \in Nat /\ Cardinality(context') + 1 <= Cardinality(context)
    BY <1>3, <2>4, FS_CardinalityType
  <2> QED
    BY <1>1, <1>2, <2>7, <2>8, SettledKept
<1>8. CASE DeleteHistoryRow
  <2>1. context' \subseteq context
    BY <1>8 DEF DeleteHistoryRow, DeleteRecord
  <2>2. Cardinality(context') \in Nat /\ Cardinality(context') + 0 <= Cardinality(context)
    BY <1>3, <2>1, FS_Subset, FS_CardinalityType
  <2>3. Settled' = Settled /\ usedDocs' = usedDocs
    BY <1>8 DEF DeleteHistoryRow, gadgetVars, Settled
  <2>4. ASSUME deaths = 0 /\ remote = 0
        PROVE  Apart(Settled', usedDocs') /\ Cardinality(Settled) <= Cardinality(Settled') + 0
    <3>1. Apart(Settled, usedDocs) /\ Cardinality(Settled) \in Nat
      BY <1>1, <2>4, FS_CardinalityType DEF SettledInv, Apart
    <3> QED
      BY <2>3, <3>1
  <2> QED
    BY <1>1, <1>2, <2>2, <2>4, SettledKept
<1> QED
  BY <1>4, <1>5, <1>6, <1>7, <1>8 DEF Change

\* Every step leaves a document for every vehicle.
LEMMA SettledStep == GadgetInvariant /\ [Next]_vars => SettledInv'
<1> SUFFICES ASSUME GadgetInvariant, [Next]_vars PROVE SettledInv'
  OBVIOUS
<1>1. SettledInv /\ GadgetType
  BY DEF GadgetInvariant, ReminderInvariant, TypeOK
<1>2. deaths \in Nat /\ remote \in Nat
  BY DEF GadgetInvariant, ReminderInvariant, TypeOK, GadgetType, BoundType
<1>3. CASE Navigate
  BY <1>1, <1>3, SettledFrame DEF Navigate, Launch, SelectAll, SelectHistory, SelectAdd, TapRow,
     TapHistoryRow, BackToAll, BackToHistory, AppearAll, dbVars, gadgetVars
<1>4. CASE Change
  BY <1>4, SettledChange
<1>5. CASE Traps \/ Ends
  <2>1. Die
    BY <1>5 DEF Traps, TouchMissingRow, ScrollToMissingRow, SaveBadForm, SaveEditFromHistory,
       DeleteLookupFails, OpenReminder, Trap, Crash, Ends, Quit, Kill, TornNew, TornEdit,
       TornDelete, Torn
  <2>2. deaths' # 0
    BY <1>2, <2>1 DEF Die
  <2> QED
    BY <2>2 DEF SettledInv
<1>6. CASE System
  <2>1. CASE NextDay \/ OpenUnheardReminder \/ SnapshotArrives
    BY <1>1, <2>1, SettledFrame DEF NextDay, OpenUnheardReminder, SnapshotArrives, dbVars, gadgetVars,
       boundVars
  <2>2. CASE Worker
    <3>1. Run(Applied(docs, Head(tasks)), Tail(tasks)) = Run(docs, tasks)
      BY <1>1, <2>2, RunTail DEF GadgetType, Worker, RunTask
    <3>2. Settled' = Settled
      BY <2>2, <3>1 DEF Settled, Worker, RunTask
    <3>3. UNCHANGED <<context, usedDocs, deaths, remote>>
      BY <2>2 DEF Worker, RunTask, dbVars, boundVars
    <3> QED
      BY <1>1, <3>2, <3>3 DEF SettledInv
  <2>3. CASE Outside
    <3>1. remote' # 0
      BY <1>2, <2>3 DEF Outside, RemoteChange
    <3> QED
      BY <3>1 DEF SettledInv
  <2> QED
    BY <1>6, <2>1, <2>2, <2>3 DEF System
<1>7. CASE UNCHANGED vars
  BY <1>1, <1>7, SettledFrame DEF vars, dbVars, gadgetVars, boundVars
<1> QED
  BY <1>3, <1>4, <1>5, <1>6, <1>7 DEF Next

\* Before the first launch there is neither vehicle nor document.
LEMMA GadgetInit == Init => GadgetInvariant
<1> SUFFICES ASSUME Init PROVE GadgetInvariant
  OBVIOUS
<1>1. ReminderInvariant
  BY ReminderInit
<1>2. UsedInv
  BY DEF Init, ServiceInit, UsedInv, Queued
<1>3. Settled = {}
  BY RunEmpty DEF Settled, Init, ServiceInit
<1>4. context = {}
  BY DEF Init, DatabaseInit
<1>5. SettledInv
  BY <1>3, <1>4, FS_EmptySet DEF SettledInv, Apart
<1> QED
  BY <1>1, <1>2, <1>5 DEF GadgetInvariant

\* While one process has had the collection to itself there is a document,
\* written or queued, for every vehicle.
THEOREM GadgetsCorrect == Spec => []GadgetPerVehicle
<1>1. GadgetInvariant /\ [Next]_vars => GadgetInvariant'
  BY ReminderStep, UsedStep, SettledStep DEF GadgetInvariant
<1>2. GadgetInvariant => GadgetPerVehicle
  BY DEF GadgetInvariant, SettledInv, GadgetPerVehicle
<1> QED
  BY <1>1, <1>2, GadgetInit, PTL DEF Spec

-----------------------------------------------------------------------------
(* What the list of gadgets has heard.                                     *)

\* A listener is asked for.
Asked(queue) == \E i \in DOMAIN queue : queue[i].kind = "listen"

\* A running process has asked for a listener, and once it has one the last
\* snapshot, unread or read, is of the documents there are.
HeardInv ==
  /\ alive => listening \/ Asked(tasks)
  /\ listening => alive
  /\ listening => IF inbox = <<>> THEN Decodable(docs) => Listed(arrGadgets) = docs
                                  ELSE inbox[Len(inbox)] = docs

\* A snapshot that is read lists its documents, each once.
LEMMA ListedSnapshot ==
  ASSUME NEW view \in View, NEW s \in Sorted(view, "doc")
  PROVE  Listed(s) = view
<1> DEFINE n == Cardinality(view)
<1>1. n \in Nat /\ IsFiniteSet(view)
  BY FS_CardinalityType DEF View
<1>2. s \in [1..n -> view] /\ \A i, j \in 1..n : i < j => s[i] # s[j]
  BY DEF Sorted
<1>3. s \in Injection(1..n, view)
  BY <1>1, <1>2 DEF Injection, IsInjective
<1>4. IsFiniteSet(1..n) /\ Cardinality(1..n) = n
  BY <1>1, FS_Interval
<1>5. s \in Surjection(1..n, view)
  BY <1>1, <1>3, <1>4, FS_Injection
<1> QED
  BY <1>2, <1>5 DEF Surjection, Listed

\* A queue that grows goes on asking for what it asked for.
LEMMA AskedAppend ==
  ASSUME NEW queue \in Seq(Task), NEW t \in Task
  PROVE  /\ Append(queue, t) \in Seq(Task)
         /\ Asked(queue) => Asked(Append(queue, t))
         /\ t.kind = "listen" => Asked(Append(queue, t))
<1>1. /\ Append(queue, t) \in Seq(Task) /\ DOMAIN Append(queue, t) = 1..(Len(queue) + 1)
      /\ \A i \in 1..Len(queue) : Append(queue, t)[i] = queue[i]
      /\ Append(queue, t)[Len(queue) + 1] = t
  OBVIOUS
<1>2. Len(queue) \in Nat /\ DOMAIN queue = 1..Len(queue)
  OBVIOUS
<1> QED
  BY <1>1, <1>2 DEF Asked

\* A handler that leaves documents and snapshots alone.
LEMMA HeardFrame ==
  ASSUME HeardInv, UNCHANGED <<docs, inbox, listening, arrGadgets>>,
         alive => alive', alive' => alive \/ Asked(tasks'), Asked(tasks) => Asked(tasks')
  PROVE  HeardInv'
BY DEF HeardInv

\* The end of the process.
LEMMA HeardDeath ==
  ASSUME alive' = FALSE, listening' = FALSE
  PROVE  HeardInv'
BY DEF HeardInv

LEMMA HeardHandlers == TypeOK /\ HeardInv /\ (Navigate \/ Change) => HeardInv'
<1> SUFFICES ASSUME TypeOK, HeardInv, Navigate \/ Change PROVE HeardInv'
  OBVIOUS
<1>1. tasks \in Seq(Task) /\ arrGadgets \in Seq(Gadget)
  BY DEF TypeOK, GadgetType, ViewType
<1>2. /\ Read(tasks) \in Seq(Task) /\ Asked(Read(tasks)) /\ (Asked(tasks) => Asked(Read(tasks)))
  BY <1>1, TaskIs, AskedAppend DEF Read
<1>3. CASE Navigate
  <2>1. /\ UNCHANGED <<docs, inbox, listening, arrGadgets>> /\ tasks' \in {tasks, Read(tasks)}
        /\ alive \/ tasks' = Read(tasks)
        /\ alive => alive'
    BY <1>3 DEF Navigate, Launch, SelectAll, SelectHistory, SelectAdd, TapRow, TapHistoryRow,
       BackToAll, BackToHistory, AppearAll, gadgetVars, Step
  <2> QED
    BY <1>2, <2>1, HeardFrame
<1>4. CASE PickDate \/ DeleteHistoryRow
  BY <1>4, HeardFrame DEF PickDate, DeleteHistoryRow, gadgetVars, viewVars
<1>5. CASE SaveNew
  <2>1. PICK v \in Vehicle, d \in DocIDs : tasks' = Append(tasks, SetTask(d, v))
    BY <1>5 DEF SaveNew, Create, Vehicle
  <2>2. Asked(tasks) => Asked(tasks')
    BY <1>1, <2>1, TaskIs, AskedAppend
  <2> QED
    BY <1>5, <2>2, HeardFrame DEF SaveNew, viewVars
<1>6. CASE SaveEdit
  <2>1. editing \in Edit /\ editing.gadget.doc \in DocIDs
    BY <1>6 DEF SaveEdit, Step, TypeOK, ViewType, Edit, Gadget
  <2>2. PICK v \in Vehicle : tasks' = Append(Append(tasks, SetTask(editing.gadget.doc, v)), ListenTask)
    BY <1>6, <2>1 DEF SaveEdit, Update, Read, Vehicle, Edit
  <2>3. Append(tasks, SetTask(editing.gadget.doc, v)) \in Seq(Task)
    BY <1>1, <2>1, TaskIs, AskedAppend
  <2>4. Asked(tasks')
    BY <2>2, <2>3, TaskIs, AskedAppend
  <2> QED
    BY <1>6, <2>4, HeardFrame DEF SaveEdit
<1>7. CASE DeleteRow
  <2>1. PICK r \in DOMAIN arrGadgets : tasks' = Append(tasks, DeleteTask(arrGadgets[r].doc))
    BY <1>7 DEF DeleteRow, Delete, PairedRows
  <2>2. arrGadgets[r] \in Gadget
    BY <1>1
  <2>3. arrGadgets[r].doc \in DocIDs
    BY <2>2 DEF Gadget
  <2>4. Asked(tasks) => Asked(tasks')
    BY <1>1, <2>1, <2>3, TaskIs, AskedAppend
  <2> QED
    BY <1>7, <2>4, HeardFrame DEF DeleteRow
<1> QED
  BY <1>3, <1>4, <1>5, <1>6, <1>7 DEF Change

LEMMA HeardEnds == Traps \/ Ends => HeardInv'
<1>1. Traps \/ Ends => alive' = FALSE /\ listening' = FALSE
  BY DEF Traps, TouchMissingRow, ScrollToMissingRow, SaveBadForm, SaveEditFromHistory,
     DeleteLookupFails, OpenReminder, Trap, Crash, Ends, Quit, Kill, TornNew, TornEdit, TornDelete,
     Torn, Die, LoseQueues
<1> QED
  BY <1>1, HeardDeath

\* A listener that is there is told of every change, and a new one of what
\* there is.
LEMMA HeardChange ==
  ASSUME TypeOK, HeardInv, alive, UNCHANGED <<alive, arrGadgets>>, docs' \in View, listening',
         \/ inbox' = Append(inbox, docs')
         \/ UNCHANGED <<inbox, docs, listening>>
  PROVE  HeardInv'
<1>1. inbox \in Seq(View)
  BY DEF TypeOK, GadgetType
<1>2. CASE inbox' = Append(inbox, docs')
  <2>1. inbox' # <<>> /\ inbox'[Len(inbox')] = docs'
    BY <1>1, <1>2
  <2> QED
    BY <2>1 DEF HeardInv
<1>3. CASE UNCHANGED <<inbox, docs, listening>>
  BY <1>3 DEF HeardInv
<1> QED
  BY <1>2, <1>3

LEMMA HeardSystem == TypeOK /\ HeardInv /\ System => HeardInv'
<1> SUFFICES ASSUME TypeOK, HeardInv, System PROVE HeardInv'
  OBVIOUS
<1>1. /\ tasks \in Seq(Task) /\ inbox \in Seq(View) /\ docs \in View
      /\ listening \in BOOLEAN /\ docs' \in View
  BY SystemType DEF TypeOK, GadgetType
<1>2. CASE NextDay \/ OpenUnheardReminder
  BY <1>2, HeardFrame DEF NextDay, OpenUnheardReminder, gadgetVars, viewVars
<1>3. CASE SnapshotArrives
  <2>1. /\ alive /\ inbox # <<>> /\ inbox' = Tail(inbox)
        /\ UNCHANGED <<docs, tasks, listening, alive>>
        /\ Decodable(Head(inbox)) => arrGadgets' \in Sorted(Head(inbox), "doc")
    BY <1>3 DEF SnapshotArrives
  <2>2. CASE ~listening
    BY <2>1, <2>2 DEF HeardInv
  <2>3. CASE listening /\ Tail(inbox) = <<>>
    <3>1. Len(inbox) = 1 /\ Head(inbox) = inbox[1]
      <4>1. PICK rest \in Seq(View), n \in Nat : rest = Tail(inbox) /\ n = Len(inbox)
        BY <1>1, <2>1
      <4>2. Len(rest) = n - 1 /\ Head(inbox) = inbox[1]
        BY <1>1, <2>1, <4>1
      <4>3. rest = <<>>
        BY <2>3, <4>1
      <4>4. Len(rest) = 0
        BY <4>3
      <4> QED
        BY <4>1, <4>2, <4>4
    <3>2. Head(inbox) = docs
      BY <2>1, <2>3, <3>1 DEF HeardInv
    <3>3. Decodable(docs) => Listed(arrGadgets') = docs
      BY <1>1, <2>1, <3>2, ListedSnapshot
    <3> QED
      BY <2>1, <2>3, <3>3 DEF HeardInv, Decodable
  <2>4. CASE listening /\ Tail(inbox) # <<>>
    <3>1. Tail(inbox)[Len(Tail(inbox))] = inbox[Len(inbox)]
      BY <1>1, <2>1, <2>4
    <3> QED
      BY <2>1, <2>4, <3>1 DEF HeardInv
  <2> QED
    BY <2>2, <2>3, <2>4
<1>4. CASE Worker
  <2> DEFINE t == Head(tasks)
  <2>1. /\ alive /\ UNCHANGED <<alive, arrGadgets>> /\ tasks # <<>> /\ tasks' = Tail(tasks)
        /\ listening' = (listening \/ t.kind = "listen")
        /\ inbox' = IF Raises(t, docs') THEN Append(inbox, docs') ELSE inbox
    BY <1>4 DEF Worker, RunTask, viewVars
  <2>2. CASE t.kind = "listen" \/ listening
    <3>1. inbox' = Append(inbox, docs') \/ UNCHANGED <<inbox, docs, listening>>
      BY <1>1, <2>1, <2>2 DEF Raises
    <3> QED
      BY <1>1, <2>1, <2>2, <3>1, HeardChange
  <2>3. CASE t.kind # "listen" /\ ~listening
    <3>1. PICK i \in DOMAIN tasks : tasks[i].kind = "listen"
      BY <2>1, <2>3 DEF HeardInv, Asked
    <3>2. i # 1
      BY <1>1, <2>3, <3>1
    <3>3. i - 1 \in DOMAIN Tail(tasks) /\ Tail(tasks)[i - 1] = tasks[i]
      BY <1>1, <2>1, <3>2
    <3>4. Asked(tasks')
      BY <2>1, <3>1, <3>3 DEF Asked
    <3> QED
      BY <2>1, <2>3, <3>4 DEF HeardInv
  <2> QED
    BY <2>2, <2>3
<1>5. CASE Outside
  <2>1. /\ alive /\ UNCHANGED <<alive, arrGadgets, tasks, listening>>
        /\ inbox' = IF listening THEN Append(inbox, docs') ELSE inbox
    BY <1>5 DEF Outside, RemoteChange, viewVars
  <2>2. CASE listening
    BY <1>1, <2>1, <2>2, HeardChange
  <2>3. CASE ~listening
    BY <2>1, <2>3 DEF HeardInv
  <2> QED
    BY <2>2, <2>3
<1> QED
  BY <1>2, <1>3, <1>4, <1>5 DEF System

\* Once tasks are run and snapshots read, a running app lists the documents
\* there are.
THEOREM SettledGadgetsCorrect == Spec => []SettledGadgetsAreDocs
<1>1. Init => TypeOK /\ HeardInv
  BY TypeInit DEF Init, ServiceInit, HeardInv
<1>2. TypeOK /\ HeardInv /\ [Next]_vars => (TypeOK /\ HeardInv)'
  <2>1. HeardInv /\ UNCHANGED vars => HeardInv'
    BY DEF HeardInv, Asked, Decodable, vars, gadgetVars, viewVars
  <2> QED
    BY <2>1, TypeStep, HeardHandlers, HeardEnds, HeardSystem DEF Next
<1>3. HeardInv => SettledGadgetsAreDocs
  BY DEF HeardInv, Asked, SettledGadgetsAreDocs
<1> QED
  BY <1>1, <1>2, <1>3, PTL DEF Spec

-----------------------------------------------------------------------------
(* The book.  While every database call works, what the context has is in  *)
(* the file, so the end of the process changes nothing in the book.        *)

SavedInv == context = store /\ damaged = {}

BookInvariant == ReminderInvariant /\ SavedInv

LEMMA NoFault ==
  ASSUME MaxFaults = 0, MaxTorn = 0, TypeOK
  PROVE  /\ \A failed : Failing(failed) => failed = {}
         /\ \A id, view : ~Torn(id, view)
BY DEF TypeOK, BoundType, Failing, Torn

LEMMA SavedStep ==
  ASSUME MaxFaults = 0, MaxTorn = 0, BookInvariant, [Next]_vars
  PROVE  SavedInv'
<1>1. /\ \A failed : Failing(failed) => failed = {}
      /\ \A id, view : ~Torn(id, view)
  BY NoFault DEF BookInvariant, ReminderInvariant
<1>2. context = store /\ damaged = {}
  BY DEF BookInvariant, SavedInv
<1>3. ASSUME UNCHANGED <<context, store, damaged>> PROVE SavedInv'
  BY <1>2, <1>3 DEF SavedInv
<1>4. CASE Navigate
  BY <1>3, <1>4 DEF Navigate, Launch, SelectAll, SelectHistory, SelectAdd, TapRow, TapHistoryRow,
     BackToAll, BackToHistory, dbVars
<1>5. CASE Change
  <2>1. CASE PickDate
    BY <1>3, <2>1 DEF PickDate, dbVars
  <2>2. CASE SaveNew
    BY <1>1, <1>2, <2>2 DEF SaveNew, AddRecord, Save, SavedInv
  <2>3. CASE SaveEdit
    BY <1>1, <1>2, <2>3 DEF SaveEdit, EditRecord, Save, SavedInv
  <2>4. CASE DeleteRow
    BY <1>1, <1>2, <2>4 DEF DeleteRow, DeleteRecord, Save, SavedInv
  <2>5. CASE DeleteHistoryRow
    BY <1>1, <1>2, <2>5 DEF DeleteHistoryRow, DeleteRecord, Save, SavedInv
  <2> QED
    BY <1>5, <2>1, <2>2, <2>3, <2>4, <2>5 DEF Change
<1>6. ASSUME Crash PROVE SavedInv'
  <2>1. Unsaved = {}
    BY <1>2 DEF Unsaved, IDs
  <2> QED
    BY <1>2, <1>6, <2>1 DEF Crash, LoseContext, SavedInv
<1>7. CASE Traps
  BY <1>6, <1>7 DEF Traps, TouchMissingRow, ScrollToMissingRow, SaveBadForm, SaveEditFromHistory,
     DeleteLookupFails, OpenReminder, Trap
<1>8. CASE Ends
  BY <1>1, <1>2, <1>6, <1>8 DEF Ends, Quit, Kill, TornNew, TornEdit, TornDelete, SaveContext, Save,
     SavedInv
<1>9. CASE System
  BY <1>3, <1>9 DEF System, NextDay, OpenUnheardReminder, SnapshotArrives, Worker, Outside, dbVars
<1>10. CASE UNCHANGED vars
  BY <1>3, <1>10 DEF vars, dbVars
<1> QED
  BY <1>4, <1>5, <1>7, <1>8, <1>9, <1>10 DEF Next

\* What a step of the app is in the book.
BookStep == [Book!Next]_<<context, today, delivered>>

\* The reminders that fire at midnight are those of the vehicles due.
LEMMA DawnRefined ==
  ASSUME BookInvariant, NextDay
  PROVE  Book!Dawn
<1>1. /\ TypeOK /\ damaged = {}
      /\ today \in Int
  BY DEF BookInvariant, ReminderInvariant, SavedInv, TypeOK, ReminderType, Days
<1>2. \A id \in VehicleIDs : Matched(id)
  BY <1>1, MatchedRows DEF BookInvariant, ReminderInvariant, TypeOK, AllMatched
<1>3. today < MaxDay /\ today' = today + 1 /\ context' = context
  BY DEF NextDay, Midnight, dbVars
<1>4. today + 1 \in Days /\ today + 1 > today
  BY <1>1, <1>3 DEF TypeOK, ReminderType, Days
<1>5. { r.id : r \in Due(pending, today + 1) }
        = { v.vehicleID : v \in { w \in context : w.serviceDueDate = today + 1 } }
  <2>1. \A r \in Due(pending, today + 1) : r.id \in VehicleIDs /\ r = Request(r.id, today + 1)
    BY <1>1 DEF Due, Request, TypeOK, ReminderType, Reminder
  <2>2. \A v \in { w \in context : w.serviceDueDate = today + 1 } :
           v.vehicleID \in VehicleIDs /\ v = Row(v.vehicleID, today + 1)
    BY <1>1 DEF Row, TypeOK, DatabaseType, Vehicle
  <2>3. \A id \in VehicleIDs : Request(id, today + 1) \in pending <=> Row(id, today + 1) \in context
    BY <1>2, <1>4 DEF Matched
  <2>4. ASSUME NEW r \in Due(pending, today + 1)
        PROVE  \E v \in { w \in context : w.serviceDueDate = today + 1 } : v.vehicleID = r.id
    <3>1. Row(r.id, today + 1) \in context
      BY <2>1, <2>3 DEF Due
    <3> QED
      BY <3>1 DEF Row
  <2>5. ASSUME NEW v \in { w \in context : w.serviceDueDate = today + 1 }
        PROVE  \E r \in Due(pending, today + 1) : r.id = v.vehicleID
    <3>1. Request(v.vehicleID, today + 1) \in pending
      BY <2>2, <2>3
    <3> QED
      BY <3>1 DEF Due, Request
  <2> QED
    BY <2>4, <2>5
<1>6. delivered' = delivered \cup { r.id : r \in Due(pending, today + 1) }
  BY DEF NextDay, Midnight
<1> QED
  BY <1>3, <1>5, <1>6 DEF Book!Dawn

LEMMA BookRefined ==
  ASSUME MaxFaults = 0, MaxTorn = 0, BookInvariant, [Next]_vars
  PROVE  BookStep
<1>1. /\ \A failed : Failing(failed) => failed = {}
      /\ \A id, view : ~Torn(id, view)
  BY NoFault DEF BookInvariant, ReminderInvariant
<1>2. TypeOK /\ DatabaseType /\ VehicleIDsUnique /\ ScreensShowTheTable /\ context = store
  BY DEF BookInvariant, ReminderInvariant, SavedInv, TypeOK
<1>3. ASSUME UNCHANGED <<context, today, delivered>> PROVE BookStep
  BY <1>3 DEF BookStep
<1>4. CASE Navigate
  BY <1>3, <1>4 DEF Navigate, Launch, SelectAll, SelectHistory, SelectAdd, TapRow, TapHistoryRow,
     BackToAll, BackToHistory, dbVars, reminderVars
<1>5. ASSUME NEW v \in context, context' = context \ {v}, UNCHANGED <<today, delivered>>
      PROVE  BookStep
  BY <1>5 DEF BookStep, Book!Next, Book!Retire
<1>6. CASE Change
  <2>1. CASE PickDate
    BY <1>3, <2>1 DEF PickDate, dbVars
  <2>2. CASE SaveNew
    <3>1. PICK due \in Days :
            /\ context' = context \cup {[vehicleID |-> made + 1, serviceDueDate |-> due]}
            /\ made + 1 \in VehicleIDs
            /\ UNCHANGED <<today, delivered>>
      BY <2>2 DEF SaveNew, AddRecord, NewVehicleID
    <3>2. \A v \in context : v.vehicleID # made + 1
      BY <1>2 DEF VehicleIDsUnique, DatabaseType, Vehicle, VehicleIDs, TypeOK, BoundType
    <3>3. Book!Register
      BY <3>1, <3>2 DEF Book!Register, Book!Days, Days
    <3> QED
      BY <3>3 DEF BookStep, Book!Next
  <2>3. CASE SaveEdit
    <3>1. PICK row \in context : row = editing.row
      BY <1>2, <2>3 DEF SaveEdit, Step, ScreensShowTheTable
    <3>2. PICK v :
            /\ \E due \in Days : v = [row EXCEPT !.serviceDueDate = due]
            /\ EditRecord(v, TRUE, TRUE)
      BY <1>1, <2>3, <3>1 DEF SaveEdit
    <3>3. v.vehicleID = row.vehicleID
      BY <1>2, <3>2 DEF DatabaseType, Vehicle
    <3>4. context' = (context \ {row}) \cup {v}
      BY <1>2, <3>2, <3>3, EditReplaces
    <3>5. UNCHANGED <<today, delivered>>
      BY <2>3 DEF SaveEdit
    <3>6. Book!Reschedule
      BY <3>2, <3>4, <3>5 DEF Book!Reschedule, Book!Days, Days
    <3> QED
      BY <3>6 DEF BookStep, Book!Next
  <2>4. CASE DeleteRow
    <3>1. PICK r \in PairedRows, saved \in BOOLEAN : DeleteRecord(rows[r].vehicleID, saved)
      BY <2>4 DEF DeleteRow
    <3>2. rows[r] \in context
      BY <1>2, <2>4 DEF DeleteRow, Step, ScreensShowTheTable, PairedRows, Listed
    <3>3. context' = context \ {rows[r]} /\ UNCHANGED <<today, delivered>>
      BY <1>2, <2>4, <3>1, <3>2, DeleteRemoves DEF DeleteRow
    <3> QED
      BY <1>5, <3>2, <3>3
  <2>5. CASE DeleteHistoryRow
    <3>1. PICK r \in DOMAIN rows, saved \in BOOLEAN : DeleteRecord(rows[r].vehicleID, saved)
      BY <2>5 DEF DeleteHistoryRow
    <3>2. rows[r] \in context
      BY <1>2, <2>5 DEF DeleteHistoryRow, Step, ScreensShowTheTable, Listed, Past
    <3>3. context' = context \ {rows[r]} /\ UNCHANGED <<today, delivered>>
      BY <1>2, <2>5, <3>1, <3>2, DeleteRemoves DEF DeleteHistoryRow, reminderVars
    <3> QED
      BY <1>5, <3>2, <3>3
  <2> QED
    BY <1>6, <2>1, <2>2, <2>3, <2>4, <2>5 DEF Change
<1>7. ASSUME NEW id \in delivered, delivered' = delivered \ {id}, UNCHANGED <<context, today>>
      PROVE  BookStep
  BY <1>7 DEF BookStep, Book!Next, Book!Answer
<1>8. Crash => context' = context /\ today' = today
  BY <1>2 DEF Crash, LoseContext
<1>9. CASE Traps
  <2>1. CASE OpenReminder
    BY <1>7, <1>8, <2>1 DEF OpenReminder
  <2>2. CASE ~OpenReminder
    BY <1>3, <1>8, <1>9, <2>2 DEF Traps, TouchMissingRow, ScrollToMissingRow, SaveBadForm,
       SaveEditFromHistory, DeleteLookupFails, Trap
  <2> QED
    BY <2>1, <2>2
<1>10. CASE Ends
  BY <1>1, <1>3, <1>8, <1>10 DEF Ends, Quit, Kill, TornNew, TornEdit, TornDelete, SaveContext
<1>11. CASE System
  <2>1. CASE NextDay
    BY <2>1, DawnRefined DEF BookStep, Book!Next
  <2>2. CASE OpenUnheardReminder
    BY <1>7, <2>2 DEF OpenUnheardReminder, dbVars
  <2>3. CASE SnapshotArrives \/ Worker \/ Outside
    BY <1>3, <2>3 DEF SnapshotArrives, Worker, Outside, dbVars, reminderVars
  <2> QED
    BY <1>11, <2>1, <2>2, <2>3 DEF System
<1>12. CASE UNCHANGED vars
  BY <1>3, <1>12 DEF vars, dbVars, reminderVars
<1> QED
  BY <1>4, <1>6, <1>9, <1>10, <1>11, <1>12 DEF Next

\* While no database call fails and no death strikes inside a handler, the app
\* implements VehicleBook: its screens, saves, queues, requests, restarts and
\* traps amount to entering, moving and striking out vehicles, and on each day
\* exactly the vehicles due on it ring.
THEOREM AppImplementsVehicleBook ==
  ASSUME MaxFaults = 0, MaxTorn = 0
  PROVE  Spec => ImplementsVehicleBook
<1>1. Init => BookInvariant
  <2>1. Init => SavedInv
    BY DEF Init, DatabaseInit, SavedInv
  <2> QED
    BY <2>1, ReminderInit DEF BookInvariant
<1>2. BookInvariant /\ [Next]_vars => BookInvariant'
  BY SavedStep, ReminderStep DEF BookInvariant
<1>3. Init => Book!Init
  BY DEF Init, DatabaseInit, RemindersInit, Book!Init
<1>4. BookInvariant /\ [Next]_vars => [Book!Next]_<<context, today, delivered>>
  BY BookRefined DEF BookStep
<1> QED
  BY <1>1, <1>2, <1>3, <1>4, PTL DEF Spec, ImplementsVehicleBook, Book!Spec, Book!bookVars

=============================================================================
