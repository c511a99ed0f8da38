-------------------------- MODULE SharedCollection --------------------------
(***************************************************************************)
(* What the Firestore client promises the app on one device, with nothing  *)
(* said of batches, pipelines or streams.                                  *)
(*                                                                         *)
(* The server keeps a log of commits.  The device keeps the writes that    *)
(* are not settled, and for each document how far down the log it has      *)
(* seen.  A document shows its last unsettled write, else the contents     *)
(* seen; so an own write shows at once and until it is settled, writes     *)
(* settle in order, an acknowledged one has been committed and is seen,    *)
(* and no document ever goes back to contents older than those seen.       *)
(***************************************************************************)
EXTENDS Integers, Sequences

CONSTANT Keys

VARIABLES
  log,         \* the server's commits
  unsettled,   \* this device's writes, oldest first
  seen         \* for each document, the length of the log it reflects

Init == log = <<>> /\ unsettled = <<>> /\ seen = [k \in Keys |-> 0]

Extends(long, short) == long # <<>> /\ long = Append(short, long[Len(long)])

Write ==
  /\ Extends(unsettled', unsettled)
  /\ UNCHANGED <<log, seen>>

\* The server takes an unsettled write, for the first time or again, or
\* another device's.
Commit ==
  /\ Extends(log', log)
  /\ LET w == log'[Len(log')] IN
     w.write # 0 => \E i \in DOMAIN unsettled : unsettled[i] = w
  /\ UNCHANGED <<unsettled, seen>>

Acknowledged(w) ==
  \E i \in DOMAIN log :
    log[i] = w /\ seen' = IF seen[w.key] < i THEN [seen EXCEPT ![w.key] = i] ELSE seen

\* The oldest unsettled write is acknowledged, or refused.
Settle ==
  /\ unsettled # <<>>
  /\ unsettled' = Tail(unsettled)
  /\ Acknowledged(Head(unsettled)) \/ seen' = seen
  /\ UNCHANGED log

Learn ==
  /\ seen' \in [Keys -> 0..Len(log)]
  /\ \A k \in Keys : seen'[k] >= seen[k]
  /\ UNCHANGED <<log, unsettled>>

Next == Write \/ Commit \/ Settle \/ Learn

Spec == Init /\ [][Next]_<<log, unsettled, seen>>

=============================================================================
