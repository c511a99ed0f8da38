----------------------------- MODULE VehicleBook -----------------------------
(***************************************************************************)
(* What the app promises its user: a book of vehicles with service dates,  *)
(* and a reminder for each vehicle on the day its service falls due.       *)
(*                                                                         *)
(* There are no screens, saves, queues or notification requests here: the  *)
(* reminders of a day are read off the book itself.                        *)
(***************************************************************************)
EXTENDS Integers

CONSTANTS VehicleIDs, LastDay

VARIABLES book, today, ringing

bookVars == <<book, today, ringing>>

Days == 0..LastDay

Init == book = {} /\ today = 0 /\ ringing = {}

\* A vehicle is entered under an ID the book does not have.
Register ==
  \E id \in VehicleIDs, due \in Days :
    /\ \A v \in book : v.vehicleID # id
    /\ book' = book \cup {[vehicleID |-> id, serviceDueDate |-> due]}
    /\ UNCHANGED <<today, ringing>>

\* The service date of a vehicle still to come is moved.
Reschedule ==
  \E v \in book, due \in Days :
    /\ book' = (book \ {v}) \cup {[v EXCEPT !.serviceDueDate = due]}
    /\ UNCHANGED <<today, ringing>>

\* A vehicle is struck out.
Retire ==
  \E v \in book : book' = book \ {v} /\ UNCHANGED <<today, ringing>>

\* The day begins, and every vehicle due on it rings.
Dawn ==
  /\ today < LastDay
  /\ today' = today + 1
  /\ ringing' = ringing \cup { v.vehicleID : v \in { w \in book : w.serviceDueDate = today + 1 } }
  /\ book' = book

\* The user opens a reminder.
Answer ==
  \E id \in ringing : ringing' = ringing \ {id} /\ UNCHANGED <<book, today>>

Next == Register \/ Reschedule \/ Retire \/ Dawn \/ Answer

Spec == Init /\ [][Next]_bookVars

=============================================================================
