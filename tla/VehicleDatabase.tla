-------------------------- MODULE VehicleDatabase --------------------------
(***************************************************************************)
(* DatabaseManager on top of Core Data: the vehicle table of the device.   *)
(*                                                                         *)
(* "context" is what the managed object context shows (every fetch         *)
(* includes its pending changes); "store" is the SQLite file.  A save      *)
(* writes the whole context; a save that fails leaves the changes pending  *)
(* in the context, because no handler rolls back, so a later successful    *)
(* save of any record writes them too and the end of the process loses     *)
(* them.                                                                   *)
(*                                                                         *)
(* A row keeps the two fields the rest of the app depends on: vehicleID    *)
(* and serviceDueDate, a midnight counted in days.                         *)
(***************************************************************************)
EXTENDS Listing

CONSTANTS
  MaxVehicles,   \* bound on the vehicle IDs ever made
  MaxDay         \* bound on the calendar: days are 0..MaxDay

ASSUME CalendarAssumption == MaxDay \in Nat
ASSUME VehiclesAssumption == MaxVehicles \in Nat

VARIABLES context, store

dbVars == <<context, store>>

VehicleIDs == 1..MaxVehicles
Days       == 0..MaxDay
Vehicle    == [vehicleID : VehicleIDs, serviceDueDate : Days]

IDs(rows)     == { v.vehicleID : v \in rows }
Matching(id)  == { v \in context : v.vehicleID = id }

\* Rows whose content differs between the context and the file.
Unsaved == IDs(context \ store) \cup IDs(store \ context)

DatabaseInit == context = {} /\ store = {}

Save(saved) == store' = IF saved THEN context' ELSE store

\* addRecord: insert, then save; the caller is told whether the save worked.
AddRecord(v, saved) ==
  /\ context' = context \cup {v}
  /\ Save(saved)

\* Slip: insert instead of updating the fetched object.
EditRecord_Inserts(v, fetched, saved) ==
  /\ context' = IF fetched THEN context \cup {v} ELSE context
  /\ Save(fetched /\ saved)

\* editRecord: update the match with the earliest due date, if there is one,
\* then save; a fetch that throws goes straight to completion(false).
EditRecord(v, fetched, saved) ==
  /\ IF fetched /\ Matching(v.vehicleID) # {}
     THEN \E s \in Sorted(Matching(v.vehicleID), "serviceDueDate") :
            context' = (context \ {s[1]}) \cup {v}
     ELSE context' = context
  /\ Save(fetched /\ saved)

\* deleteRecord: delete every match, then save.  (A fetch that fails traps on
\* resultData! and is the caller's crash.)
DeleteRecord(id, saved) ==
  /\ context' = context \ Matching(id)
  /\ Save(saved)

\* getAllRecords on a set of rows: a failing fetch is logged and reads as "no rows".
Fetches(rows, fetched) ==
  IF fetched THEN Sorted(rows, "serviceDueDate") ELSE { <<>> }

\* saveContext: on the way out, write what is pending.
SaveContext(saved) ==
  /\ context' = context
  /\ Save(saved)

\* The process ends: what was pending is gone, the next launch reads the file.
LoseContext ==
  /\ context' = store
  /\ store'   = store

=============================================================================
