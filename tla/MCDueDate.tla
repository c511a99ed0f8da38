------------------------------ MODULE MCDueDate ------------------------------
(* DueDate for every small pair of numbers, and some at the edges. *)
EXTENDS DueDate

MCDistances == 0..30 \cup {999, 4999, 5000, 99999, 1000000,
                        1198370, 1198372, 8388607, 11184811, 16777213, 16777215}
MCRuns      == 0..24 \cup {69, 70, 333, 1000, 32767, 32768}
=============================================================================
