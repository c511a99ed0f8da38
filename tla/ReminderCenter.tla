--------------------------- MODULE ReminderCenter ---------------------------
(***************************************************************************)
(* The local notifications of AppSharedInstance and the calendar they run  *)
(* on.  UNUserNotificationCenter belongs to the system: it survives the    *)
(* app's process.  A request is keyed by the vehicle's ID, so adding one   *)
(* replaces the request with that ID; its calendar trigger fires once, at  *)
(* the midnight that begins the given date, and never if that has passed.  *)
(***************************************************************************)
EXTENDS VehicleDatabase

VARIABLES
  today,        \* the current day
  pending,      \* requests that will still fire
  delivered,    \* vehicle IDs of banners nobody has opened yet
  delegateSet   \* AppSharedInstance exists and is the centre's delegate

reminderVars == <<today, pending, delivered, delegateSet>>

Reminder == [id : VehicleIDs, date : Days]

RemindersInit ==
  /\ today = 0
  /\ pending = {}
  /\ delivered = {}
  /\ delegateSet = FALSE

Without(requests, id) == { r \in requests : r.id # id }

\* Slip: a trigger in the past is taken for one that fires.
SetLocalNotification_Past(requests, id, date) ==
  Without(requests, id) \cup {[id |-> id, date |-> date]}

\* setLocalNotification: "set or update" the request of a vehicle.
SetLocalNotification(requests, id, date) ==
  Without(requests, id) \cup { r \in {[id |-> id, date |-> date]} : date > today }

\* Slip: the request is looked for under another key and stays.
RemoveNotification_Misses(requests, id) == requests

\* removeNotification, called with one ID everywhere.
RemoveNotification(requests, id) == Without(requests, id)

Due(requests, day) == { r \in requests : r.date = day }

\* Midnight: the calendar triggers of the new day fire.
Midnight ==
  /\ today < MaxDay
  /\ today'     = today + 1
  /\ pending'   = pending \ Due(pending, today + 1)
  /\ delivered' = delivered \cup { r.id : r \in Due(pending, today + 1) }

=============================================================================
