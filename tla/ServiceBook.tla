----------------------------- MODULE ServiceBook -----------------------------
(***************************************************************************)
(* The app: its screens and presenters over the vehicle database, the      *)
(* gadget service and the reminders.                                       *)
(*                                                                         *)
(* Every handler runs on the main thread from start to end, so it is one   *)
(* action; the Firestore worker, the snapshots posted to the main queue,   *)
(* the calendar, other devices and the end of the process come between     *)
(* handlers.  (A process may also be killed inside one: see "Torn".)       *)
(*                                                                         *)
(* A list controller refetches its list whenever it appears, so only the   *)
(* list of the tab in front is kept: "rows" is arrAllVehicles of           *)
(* AllVehiclesVC or of HistoryVC.  The upcoming table takes its row count  *)
(* and its cells from arrGadgets, and its actions from rows: row r pairs   *)
(* rows[r] with arrGadgets[r].                                             *)
(***************************************************************************)
EXTENDS ReminderCenter, GadgetService

CONSTANTS
  MaxSteps,    \* bound on the user's actions
  MaxFaults,   \* bound on database calls that fail
  MaxDeaths,   \* bound on the ends of the process
  MaxTorn      \* bound on the deaths inside a handler

ASSUME BoundsAssumption ==
  MaxSteps \in Nat /\ MaxFaults \in Nat /\ MaxDeaths \in Nat /\ MaxTorn \in Nat

VARIABLES
  alive,       \* the process runs
  screen,      \* what is in front: a tab, or the edit screen over a tab
  editing,     \* objVehicle and gadgetToUpdate of the edit screen
  rows,        \* arrAllVehicles of the list in front
  arrGadgets,  \* AllVehiclesVC.arrGadgets, what the last snapshot said
  tableRows,   \* rows the upcoming table counted at its last reload
  made,        \* vehicle IDs made so far (UUIDs, numbered)
  steps, faults, deaths, torn,  \* what is spent of the bounds
  damaged      \* history: IDs whose row and reminder a fault has set apart

viewVars  == <<screen, editing, rows, arrGadgets, tableRows>>
boundVars == <<steps, faults, deaths, torn>>
vars == <<dbVars, reminderVars, gadgetVars, alive, viewVars, made, boundVars, damaged>>

Screens == {"All", "Add", "History", "EditUpcoming", "EditPast"}
NoEdit  == <<>>
Edit    == [row : Vehicle, gadget : Gadget]

Init ==
  /\ DatabaseInit /\ RemindersInit /\ ServiceInit
  /\ alive = FALSE /\ screen = "All" /\ editing = NoEdit
  /\ rows = <<>> /\ arrGadgets = <<>> /\ tableRows = 0
  /\ made = 0 /\ steps = 0 /\ faults = 0 /\ deaths = 0 /\ torn = 0
  /\ damaged = {}

-----------------------------------------------------------------------------
(* What the handlers share.                                                *)

\* The database calls of a handler that fail: its lookup, its save, its refetch.
Calls == {"lookup", "save", "list"}
Failing(failed) ==
  /\ failed # {} => faults < MaxFaults
  /\ faults' = IF failed = {} THEN faults ELSE faults + 1

\* A user's action on a running app.
Step(where) ==
  /\ alive /\ screen \in where
  /\ steps < MaxSteps
  /\ steps' = steps + 1

\* serviceDueDate >= now, of midnights: today's has passed.
Upcoming(table) == { v \in table : v.serviceDueDate > today }
\* serviceDueDate < now.
Past(table)     == { v \in table : v.serviceDueDate <= today }

\* getAllVehicles of AllVehiclesPresenter: refetch, reload the table.
ShowUpcoming(table, failed) ==
  /\ rows' \in Fetches(Upcoming(table), "list" \notin failed)
  /\ tableRows' = Len(arrGadgets)

\* getAllVehicles of HistoryPresenter.
ShowPast(table, failed) ==
  /\ rows' \in Fetches(Past(table), "list" \notin failed)
  /\ tableRows' = tableRows

\* viewWillAppear of AllVehiclesVC: the list, and one more listener.
AppearAll(table, failed) ==
  /\ ShowUpcoming(table, failed)
  /\ tasks' = Read(tasks)
  /\ UNCHANGED <<docs, inbox, listening, usedDocs, remote>>

\* Laying out a cell of either list creates the AppSharedInstance singleton.
CellsShown == delegateSet' = (delegateSet \/ (screen' = "All" /\ tableRows' > 0)
                                          \/ (screen' = "History" /\ rows' # <<>>))

\* The process is gone: RAM is lost, the file, the documents and the
\* notification centre stay.
Die ==
  /\ alive' = FALSE /\ screen' = "All" /\ editing' = NoEdit
  /\ rows' = <<>> /\ arrGadgets' = <<>> /\ tableRows' = 0
  /\ delegateSet' = FALSE
  /\ deaths < MaxDeaths /\ deaths' = deaths + 1

\* A trap (forced unwrap, index out of range, impossible conversion) or a
\* kill: nothing of the handler is done but the death.
Crash ==
  /\ Die
  /\ LoseContext /\ LoseQueues
  /\ damaged' = damaged \cup Unsaved
  /\ UNCHANGED <<today, pending, made, faults, torn>>

Trap == Crash /\ UNCHANGED delivered

-----------------------------------------------------------------------------
(* Launching, and moving between screens.                                  *)

Launch ==
  /\ ~alive /\ alive' = TRUE
  /\ \E failed \in SUBSET {"list"} : Failing(failed) /\ AppearAll(context, failed)
  /\ screen' = "All"
  /\ UNCHANGED <<dbVars, reminderVars, editing, arrGadgets, made, steps, deaths, torn, damaged>>

SelectAll ==
  /\ Step({"Add", "History"})
  /\ screen' = "All"
  /\ \E failed \in SUBSET {"list"} : Failing(failed) /\ AppearAll(context, failed)
  /\ CellsShown
  /\ UNCHANGED <<dbVars, today, pending, delivered, alive, editing, arrGadgets, made, deaths, torn, damaged>>

SelectHistory ==
  /\ Step({"All", "Add"})
  /\ screen' = "History"
  /\ \E failed \in SUBSET {"list"} : Failing(failed) /\ ShowPast(context, failed)
  /\ CellsShown
  /\ UNCHANGED <<dbVars, gadgetVars, today, pending, delivered, alive, editing, arrGadgets, made, deaths, torn, damaged>>

\* AddVehicleVC starts with a blank form; its save makes a new vehicle.
SelectAdd ==
  /\ Step({"All", "History"})
  /\ screen' = "Add" /\ rows' = <<>>
  /\ UNCHANGED <<dbVars, gadgetVars, reminderVars, alive, editing, arrGadgets, tableRows,
                 made, faults, deaths, torn, damaged>>

\* Rows of the table that both arrays have.
PairedRows == { r \in 1..tableRows : r \in DOMAIN rows /\ r \in DOMAIN arrGadgets }

\* didSelectRowAt of AllVehiclesVC, on a row both arrays have.
TapRow ==
  /\ Step({"All"})
  /\ \E r \in PairedRows : editing' = [row |-> rows[r], gadget |-> arrGadgets[r]]
  /\ screen' = "EditUpcoming"
  /\ UNCHANGED <<dbVars, gadgetVars, reminderVars, alive, rows, arrGadgets, tableRows,
                 made, faults, deaths, torn, damaged>>

\* didSelectRowAt or the delete of a row that one of the arrays lacks; the
\* table counted its rows in an arrGadgets that is not the present one, or
\* the vehicles are fewer than the gadgets.
TouchMissingRow ==
  /\ Step({"All"})
  /\ 1..tableRows # PairedRows
  /\ Trap

\* Scrolling to a row beyond an arrGadgets that has shrunk since the reload
\* (cellForRowAt only tests for an empty one).
ScrollToMissingRow ==
  /\ Step({"All"})
  /\ 0 < Len(arrGadgets) /\ Len(arrGadgets) < tableRows
  /\ Trap

\* didSelectRowAt of HistoryVC: the edit screen has no gadgetToUpdate.
TapHistoryRow ==
  /\ Step({"History"})
  /\ rows # <<>>
  /\ screen' = "EditPast"
  /\ UNCHANGED <<dbVars, gadgetVars, reminderVars, alive, editing, rows, arrGadgets, tableRows,
                 made, faults, deaths, torn, damaged>>

\* Slip: the list is fetched when it loads, not whenever it appears.
UncoverAll_Stale(table, failed) ==
  /\ screen' = "All" /\ editing' = NoEdit
  /\ rows' = rows
  /\ tableRows' = Len(arrGadgets)

\* Popping the edit screen: the tab under it appears.
UncoverAll(table, failed) ==
  /\ screen' = "All" /\ editing' = NoEdit
  /\ ShowUpcoming(table, failed)

BackToAll ==
  /\ Step({"EditUpcoming"})
  /\ \E failed \in SUBSET {"list"} : Failing(failed) /\ UncoverAll(context, failed)
  /\ tasks' = Read(tasks)
  /\ CellsShown
  /\ UNCHANGED <<dbVars, docs, inbox, listening, usedDocs, remote, today, pending, delivered,
                 alive, arrGadgets, made, deaths, torn, damaged>>

BackToHistory ==
  /\ Step({"EditPast"})
  /\ screen' = "History"
  /\ \E failed \in SUBSET {"list"} : Failing(failed) /\ ShowPast(context, failed)
  /\ CellsShown
  /\ UNCHANGED <<dbVars, gadgetVars, today, pending, delivered, alive, editing, arrGadgets,
                 made, deaths, torn, damaged>>

-----------------------------------------------------------------------------
(* Saving and deleting vehicles.                                           *)

\* Slip: the ID is made once and kept from one save of the form to the next.
NewVehicleID_Kept == IF made = 0 THEN 1 ELSE made

\* UUID().uuidString, made anew by every save of a new vehicle.
NewVehicleID == made + 1

\* clkSave on the Add tab, then AddVehiclePresenter.addVehicle: insert and
\* save, queue a new document, set the reminder, clear the form.  Whether
\* the save worked is not looked at.
SaveNew ==
  /\ Step({"Add"})
  /\ NewVehicleID \in VehicleIDs
  /\ \E due \in Days, failed \in SUBSET {"save"} :
       LET v == [vehicleID |-> NewVehicleID, serviceDueDate |-> due] IN
       /\ Failing(failed)
       /\ AddRecord(v, "save" \notin failed)
       /\ Create(v)
       /\ pending' = SetLocalNotification(pending, v.vehicleID, v.serviceDueDate)
  /\ made' = made + 1
  /\ delegateSet' = TRUE
  /\ UNCHANGED <<docs, inbox, listening, remote, today, delivered, alive, viewVars,
                 deaths, torn, damaged>>

\* clkDone: picking a date formats it, which creates AppSharedInstance.
PickDate ==
  /\ Step({"Add"})
  /\ ~delegateSet /\ delegateSet' = TRUE
  /\ UNCHANGED <<dbVars, gadgetVars, today, pending, delivered, alive, viewVars, made,
                 faults, deaths, torn, damaged>>

\* clkSave with a field missing or out of range: getServiceDueDate, or the
\* Int16/Int32 conversion of the row, traps.
SaveBadForm == Step({"Add", "EditUpcoming"}) /\ Trap

\* clkSave over the upcoming list, then editVehicalInfo: update and save,
\* queue the data for the paired gadget's document, remove and set the
\* reminder, pop.
SaveEdit ==
  /\ Step({"EditUpcoming"})
  /\ \E due \in Days, failed \in SUBSET Calls :
       LET v == [editing.row EXCEPT !.serviceDueDate = due] IN
       /\ Failing(failed)
       /\ EditRecord(v, "lookup" \notin failed, "save" \notin failed)
       /\ tasks' = Read(Update(tasks, editing.gadget, v))
       /\ pending' = SetLocalNotification(RemoveNotification(pending, v.vehicleID),
                                          v.vehicleID, v.serviceDueDate)
       /\ UncoverAll(context', failed)
       /\ damaged' = IF "lookup" \in failed THEN damaged \cup {v.vehicleID}
                                            ELSE damaged \ {v.vehicleID}
  /\ delegateSet' = TRUE
  /\ UNCHANGED <<docs, inbox, listening, usedDocs, remote, today, delivered, alive, arrGadgets,
                 made, deaths, torn>>

\* clkSave over the history list: self.gadgetToUpdate! is nil.
SaveEditFromHistory == Step({"EditPast"}) /\ Trap

\* The delete of row r, then deleteVehicle: delete and save, queue the delete
\* of the paired gadget's document, remove the reminder, refetch.
DeleteRow ==
  /\ Step({"All"})
  /\ \E r \in PairedRows, failed \in SUBSET {"save", "list"} :
       /\ Failing(failed)
       /\ DeleteRecord(rows[r].vehicleID, "save" \notin failed)
       /\ tasks' = Delete(tasks, arrGadgets[r])
       /\ pending' = RemoveNotification(pending, rows[r].vehicleID)
       /\ ShowUpcoming(context', failed)
       /\ damaged' = damaged \ {rows[r].vehicleID}
  /\ delegateSet' = TRUE
  /\ UNCHANGED <<docs, inbox, listening, usedDocs, remote, today, delivered, alive, screen,
                 editing, arrGadgets, made, deaths, torn>>

\* The delete on the history list: the row only, neither document nor reminder.
DeleteHistoryRow ==
  /\ Step({"History"})
  /\ \E r \in DOMAIN rows, failed \in SUBSET {"save", "list"} :
       /\ Failing(failed)
       /\ DeleteRecord(rows[r].vehicleID, "save" \notin failed)
       /\ ShowPast(context', failed)
  /\ UNCHANGED <<gadgetVars, reminderVars, alive, screen, editing, arrGadgets, made,
                 deaths, torn, damaged>>

\* deleteRecord unwraps the result of a fetch that failed.
DeleteLookupFails ==
  /\ Step({"All", "History"})
  /\ IF screen = "All" THEN PairedRows # {} ELSE rows # <<>>
  /\ faults < MaxFaults
  /\ Trap

-----------------------------------------------------------------------------
(* Reminders, snapshots, and the end of the process.                       *)

NextDay ==
  /\ Midnight
  /\ UNCHANGED <<dbVars, gadgetVars, delegateSet, alive, viewVars, made, boundVars, damaged>>

\* A reminder that rings over the app, or is opened by the user, reaches
\* methodOfReceivedNotification, which asks getServiceDueDate for the due
\* date of an empty AllVehiclesI and traps on its averageRun.
OpenReminder ==
  /\ alive /\ delegateSet
  /\ \E id \in delivered : delivered' = delivered \ {id}
  /\ Crash
  /\ steps' = steps

\* No process, or one in which nobody has created AppSharedInstance yet: the response goes nowhere.
OpenUnheardReminder ==
  /\ ~delegateSet
  /\ \E id \in delivered : delivered' = delivered \ {id}
  /\ UNCHANGED <<dbVars, gadgetVars, today, pending, delegateSet, alive, viewVars, made, boundVars, damaged>>

\* Slip: the list controller hears only the snapshots that find it in front.
SnapshotArrives_InFront ==
  /\ alive /\ inbox # <<>>
  /\ inbox' = Tail(inbox)
  /\ IF screen = "All" /\ Decodable(Head(inbox))
     THEN arrGadgets' \in Sorted(Head(inbox), "doc")
     ELSE arrGadgets' = arrGadgets
  /\ UNCHANGED <<dbVars, reminderVars, docs, tasks, listening, usedDocs, remote, alive, screen, editing,
                 rows, tableRows, made, boundVars, damaged>>

\* The listener's block: decode every document and replace arrGadgets, without
\* reloading the table; one document that does not decode drops the snapshot.
SnapshotArrives ==
  /\ alive /\ inbox # <<>>
  /\ inbox' = Tail(inbox)
  /\ IF Decodable(Head(inbox)) THEN arrGadgets' \in Sorted(Head(inbox), "doc")
                               ELSE arrGadgets' = arrGadgets
  /\ UNCHANGED <<dbVars, reminderVars, docs, tasks, listening, usedDocs, remote, alive, screen, editing,
                 rows, tableRows, made, boundVars, damaged>>

Worker ==
  /\ alive /\ RunTask
  /\ UNCHANGED <<dbVars, reminderVars, alive, viewVars, made, boundVars, damaged>>

Outside ==
  /\ alive /\ RemoteChange
  /\ UNCHANGED <<dbVars, reminderVars, alive, viewVars, made, boundVars, damaged>>

\* applicationWillTerminate, when its save succeeds; when it fails it is a
\* fatalError, which leaves what a kill leaves.
Quit ==
  /\ alive /\ Die
  /\ SaveContext(TRUE) /\ LoseQueues
  /\ UNCHANGED <<today, pending, delivered, made, steps, faults, torn, damaged>>

Kill ==
  /\ alive /\ Crash
  /\ UNCHANGED <<delivered, steps>>

\* The process is killed inside a handler that has saved the context: the
\* document of the handler may or may not have reached the disk as well.
Torn(id, view) ==
  /\ torn < MaxTorn /\ torn' = torn + 1
  /\ Die /\ Save(TRUE)
  /\ docs' = docs \/ (tasks = <<>> /\ docs' = view)
  /\ tasks' = <<>> /\ inbox' = <<>> /\ listening' = FALSE
  /\ damaged' = damaged \cup {id}
  /\ UNCHANGED <<remote, today, delivered, faults>>

TornNew ==
  /\ Step({"Add"})
  /\ NewVehicleID \in VehicleIDs
  /\ \E due \in Days, d \in DocIDs \ usedDocs :
       LET v == [vehicleID |-> NewVehicleID, serviceDueDate |-> due] IN
       /\ AddRecord(v, TRUE)
       /\ usedDocs' = usedDocs \cup {d}
       /\ Torn(v.vehicleID, Put(docs, GadgetOf(d, v)))
  /\ made' = made + 1
  /\ pending' = pending

TornEdit ==
  /\ Step({"EditUpcoming"})
  /\ \E due \in Days :
       LET v == [editing.row EXCEPT !.serviceDueDate = due] IN
       /\ EditRecord(v, TRUE, TRUE)
       /\ Torn(v.vehicleID, Put(docs, GadgetOf(editing.gadget.doc, v)))
       /\ pending' \in {pending, RemoveNotification(pending, v.vehicleID)}
  /\ UNCHANGED <<usedDocs, made>>

TornDelete ==
  /\ Step({"All"})
  /\ \E r \in PairedRows :
       /\ DeleteRecord(rows[r].vehicleID, TRUE)
       /\ Torn(rows[r].vehicleID, Drop(docs, arrGadgets[r].doc))
  /\ UNCHANGED <<usedDocs, pending, made>>

-----------------------------------------------------------------------------
Navigate == Launch \/ SelectAll \/ SelectHistory \/ SelectAdd \/ TapRow \/ TapHistoryRow
              \/ BackToAll \/ BackToHistory
Change   == PickDate \/ SaveNew \/ SaveEdit \/ DeleteRow \/ DeleteHistoryRow
Traps    == TouchMissingRow \/ ScrollToMissingRow \/ SaveBadForm \/ SaveEditFromHistory
              \/ DeleteLookupFails \/ OpenReminder
Ends     == Quit \/ Kill \/ TornNew \/ TornEdit \/ TornDelete
System   == NextDay \/ OpenUnheardReminder \/ SnapshotArrives \/ Worker \/ Outside

Next == Navigate \/ Change \/ Traps \/ Ends \/ System

Spec == Init /\ [][Next]_vars

\* The worker thread and the main run loop keep running; users, days, other
\* devices and deaths owe nothing.
FairSpec == Spec /\ WF_vars(Worker) /\ WF_vars(SnapshotArrives)

=============================================================================
