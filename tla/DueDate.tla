------------------------------- MODULE DueDate -------------------------------
(***************************************************************************)
(* The two numbers of the vehicle form and the due date made of them:      *)
(* AddVehicleVC's fields, getServiceDueDate in single precision, and the   *)
(* columns of the table, 16 and 32 bits wide.                              *)
(*                                                                         *)
(* A Float is m * 2^-e with m of 24 bits; one that is needed is positive:  *)
(* negative numbers, which the fields take too, are left out.              *)
(* Wide stands for a number no column takes.                               *)
(***************************************************************************)
EXTENDS Integers

CONSTANTS
  Distances,  \* numbers typed for serviceRequiredAfter, exact as Floats
  Runs,       \* numbers typed for averageRun
  Wide

ASSUME DueDateAssumption ==
  /\ Distances \subseteq 0..(2^24 - 1) /\ Runs \subseteq 0..(2^24 - 1)
  /\ Wide \notin Distances \cup Runs

VARIABLES
  distance,  \* objVehicle.serviceRequiredAfter
  run,       \* objVehicle.averageRun
  row,       \* the row the last save wrote
  trapped    \* the process has trapped

vars == <<distance, run, row, trapped>>

NoRow == [distance |-> 0, run |-> 1, days |-> 0]

-----------------------------------------------------------------------------
(* Division in single precision.                                           *)

\* A quotient, its remainder and exponent moved b bits on, if that leaves 24.
Shifted(x, d, b) ==
  IF x.q >= 2^(24 - b) THEN x
  ELSE [q |-> 2^b * x.q + (2^b * x.r) \div d, r |-> (2^b * x.r) % d, e |-> x.e + b]

Sixes(x, d) == LET Six(y) == Shifted(y, d, 6) IN Six(Six(Six(Six(x))))
Ones(x, d)  == LET One(y) == Shifted(y, d, 1) IN One(One(One(One(One(x)))))

\* n / d with 24 bits before the point, got by shifts of six and then of one.
Scaled(n, d) == Ones(Sixes(Sixes([q |-> n \div d, r |-> n % d, e |-> 0], d), d), d)

\* To the nearest, a tie to the even one.
Rounded(s, d) ==
  IF 2 * s.r > d \/ (2 * s.r = d /\ s.q % 2 = 1) THEN s.q + 1 ELSE s.q

\* n / d for positive n and d of at most 24 bits.
Quotient(n, d) ==
  LET s == Scaled(n, d) m == Rounded(s, d) IN
  IF m = 2^24 THEN [m |-> 2^23, e |-> s.e - 1] ELSE [m |-> m, e |-> s.e]

\* Slip: a day's run is a whole number.
AverageDay_Whole == [m |-> IF run < 7 THEN 1 ELSE run \div 7, e |-> 0]

AverageDay == Quotient(run, 7)

\* Int(noOfDays), which drops the fraction.
Days ==
  IF distance = 0 THEN 0
  ELSE LET x == Quotient(distance, AverageDay.m)
           e == x.e - AverageDay.e
       IN IF e > 23 THEN 0 ELSE IF e > 0 THEN x.m \div 2^e ELSE x.m * 2^(-e)

-----------------------------------------------------------------------------
Init ==
  /\ distance \in Distances /\ run \in Runs \* a new form, filled, or a row's
  /\ row = NoRow /\ trapped = FALSE

\* textFieldDidEndEditing: text that is no number leaves the old one.
TypeDistance ==
  /\ ~trapped /\ distance' \in Distances \cup {Wide}
  /\ row' = NoRow /\ UNCHANGED <<run, trapped>>

TypeRun ==
  /\ ~trapped /\ run' \in Runs \cup {Wide}
  /\ row' = NoRow /\ UNCHANGED <<distance, trapped>>

\* clkSave: a division by zero traps in Int(), a wide number in Int32() or
\* Int16(), before the context is saved.
Fits == distance # Wide /\ run # Wide /\ run > 0 /\ run < 2^15

Save ==
  /\ ~trapped
  /\ IF Fits
     THEN row' = [distance |-> distance, run |-> run, days |-> Days] /\ UNCHANGED trapped
     ELSE trapped' = TRUE /\ row' = NoRow
  /\ UNCHANGED <<distance, run>>

Next == TypeDistance \/ TypeRun \/ Save

Spec == Init /\ [][Next]_vars

-----------------------------------------------------------------------------
\* The due date lies within a day of distance / (run / 7), although two
\* divisions round and the last step drops what is left; as long as a Float
\* tells half days apart, which is 23 000 years.
DueWithinADay ==
  LET exact == (7 * row.distance) \div row.run IN
  exact < 2^23 => row.days \in (exact - 1)..(exact + 1)

=============================================================================
