------------------------ MODULE ServiceBookProperties ------------------------
(***************************************************************************)
(* What must hold of ServiceBook.                                          *)
(***************************************************************************)
EXTENDS ServiceBook

DatabaseType ==
  /\ context \in SUBSET Vehicle /\ IsFiniteSet(context)
  /\ store \in SUBSET Vehicle /\ IsFiniteSet(store)

ReminderType ==
  /\ today \in Days
  /\ pending \in SUBSET Reminder
  /\ delivered \in SUBSET VehicleIDs
  /\ delegateSet \in BOOLEAN

View == { view \in SUBSET Gadget : IsFiniteSet(view) }

GadgetType ==
  /\ docs \in View
  /\ tasks \in Seq(Task)
  /\ inbox \in Seq(View)
  /\ listening \in BOOLEAN
  /\ usedDocs \in SUBSET DocIDs
  /\ remote \in 0..MaxRemote

ViewType ==
  /\ alive \in BOOLEAN
  /\ screen \in Screens
  /\ editing \in Edit \cup {NoEdit}
  /\ screen = "EditUpcoming" => editing \in Edit
  /\ rows \in Seq(Vehicle)
  /\ arrGadgets \in Seq(Gadget)
  /\ tableRows \in Nat

BoundType ==
  /\ made \in 0..MaxVehicles
  /\ steps \in 0..MaxSteps /\ faults \in 0..MaxFaults
  /\ deaths \in 0..MaxDeaths /\ torn \in 0..MaxTorn
  /\ damaged \in SUBSET VehicleIDs

\* Every variable has its type, and an edit screen over the upcoming list has
\* a vehicle and a gadget to work on.
TypeOK == DatabaseType /\ ReminderType /\ GadgetType /\ ViewType /\ BoundType

-----------------------------------------------------------------------------
\* No two rows share a vehicle ID, in the context or in the file, whatever
\* saves fail and whenever the process ends; every ID in use was made here.
VehicleIDsUnique ==
  /\ \A v, w \in context : v.vehicleID = w.vehicleID => v = w
  /\ \A v, w \in store : v.vehicleID = w.vehicleID => v = w
  /\ \A v \in context \cup store : v.vehicleID <= made

\* The dates a vehicle has in the table and still to come, and those its
\* reminders will fire on.
DatesToCome(id)   == { v.serviceDueDate : v \in { w \in Matching(id) : w.serviceDueDate > today } }
ReminderDates(id) == { r.date : r \in { q \in pending : q.id = id } }

\* A vehicle is reminded of exactly when its service is still to come, on the
\* day in the table: no add, edit, delete from either list, midnight, failed
\* save or restart leaves a reminder behind, loses one or shifts one, unless
\* the vehicle was set apart by a death with its row unsaved, a death inside
\* its handler, or an edit whose lookup failed.
RemindersMatchVehicles ==
  \A id \in VehicleIDs \ damaged : ReminderDates(id) = DatesToCome(id)

\* The list and the edit screen in front show rows that are in the table as
\* they are shown, the history list only rows whose day has passed: so the
\* vehicle a handler edits, or deletes with no reminder to remove, is the one
\* it was read as, whatever else happened since the list was fetched.
ScreensShowTheTable ==
  alive =>
    /\ screen \in {"All", "EditUpcoming"} => Listed(rows) \subseteq context
    /\ screen = "EditUpcoming" => editing.row \in context
    /\ screen = "History" => Listed(rows) \subseteq Past(context)

\* The inductive invariant behind RemindersMatchVehicles: a handler works on
\* the row it was shown, so its reminder follows only if that row is still in
\* the table and is the only one with its ID.
ReminderInvariant ==
  TypeOK /\ VehicleIDsUnique /\ ScreensShowTheTable /\ RemindersMatchVehicles

\* What a queue of tasks makes of a view, and the gadget documents once the
\* worker has run what is queued.
Run(view, queue) ==
  LET after[n \in 0..Len(queue)] ==
        IF n = 0 THEN view ELSE Applied(after[n-1], queue[n])
  IN  after[Len(queue)]
Settled == Run(docs, tasks)

\* On one device that has not been restarted there is at least one gadget
\* document, written or queued, for every vehicle: rows are removed with at
\* most one document each, even when the same gadget is deleted twice because
\* the snapshot had not arrived, or edited after it was deleted.
GadgetPerVehicle ==
  deaths = 0 /\ remote = 0 => Cardinality(context) <= Cardinality(Settled)

\* With no task to run and no snapshot to read, the gadgets a running app lists
\* are the documents there are, whatever tasks, changes from outside and
\* restarts came before: no snapshot is skipped that is not followed by another
\* (unless one of the documents cannot be decoded).
SettledGadgetsAreDocs ==
  alive /\ tasks = <<>> /\ inbox = <<>> /\ Decodable(docs) => Listed(arrGadgets) = docs

\* Without faults in the database and deaths inside a handler, the screens,
\* saves, queues and notification requests amount to the book of VehicleBook.
Book == INSTANCE VehicleBook
          WITH book <- context, ringing <- delivered, LastDay <- MaxDay
ImplementsVehicleBook == Book!Spec

\* Once the user, the other devices and the deaths leave the app alone, what
\* it queued is written, and the gadgets it lists are the documents there are
\* (unless one of them cannot be decoded).
GadgetsConverge ==
  <>[](alive => /\ tasks = <<>> /\ inbox = <<>>
                /\ Decodable(docs) => Listed(arrGadgets) = docs)

-----------------------------------------------------------------------------
(* What the source says and the code does not do.                          *)

\* "//Edit Existing record": the document an edit overwrites is that of the
\* vehicle edited.
EditWritesOwnGadget ==
  [][ SaveEdit => editing.gadget.of = editing.row.vehicleID ]_vars

\* "Vehicle has been added succesfully": a vehicle announced as added is in
\* the file.
AddedVehicleIsStored ==
  [][ SaveNew => made' \in IDs(store') ]_vars

\* "Call this method to get next service due date": the reminder that is
\* handled by calling it leaves the app running.
ReminderIsHandled ==
  [][ delivered' \subseteq delivered /\ delivered' # delivered => alive' = alive ]_vars

\* "//Edit Existing record": what the user does on the edit screen of a past
\* vehicle, saving it included, leaves the app running.
HistoryEditCanBeSaved ==
  [][ screen = "EditPast" /\ steps' = steps + 1 => alive' ]_vars

=============================================================================
