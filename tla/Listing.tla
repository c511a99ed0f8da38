------------------------------ MODULE Listing ------------------------------
(***************************************************************************)
(* The ordered fetches of the app.  A fetch with a sort descriptor and a   *)
(* Firestore query both return every element once, in ascending key order; *)
(* elements with equal keys may come in any order.                         *)
(***************************************************************************)
EXTENDS Integers, Sequences, FiniteSets

Sorted(S, field) ==
  { s \in [1..Cardinality(S) -> S] :
      \A i, j \in 1..Cardinality(S) :
        i < j => s[i] # s[j] /\ s[i][field] <= s[j][field] }

\* The elements that stand in a list.
Listed(s) == { s[i] : i \in DOMAIN s }

=============================================================================
