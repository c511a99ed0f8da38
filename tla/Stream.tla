------------------------------- MODULE Stream -------------------------------
(***************************************************************************)
(* remote/stream.cc: the life of one gRPC stream, write or watch, as       *)
(* operators on a record.  The owner's callbacks run inside the calls, so  *)
(* the modules that own a stream compose these operators in their steps.   *)
(*                                                                         *)
(* "auth" holds the close counts under which an auth token was asked for   *)
(* and has not come yet: a stream can be stopped, and started again, while *)
(* it waits for one.  "broken" records a HARD_ASSERT that failed; it       *)
(* stands for the abort that follows.                                      *)
(***************************************************************************)
EXTENDS Naturals

StreamStates == {"Initial", "Starting", "Open", "Error", "Backoff"}

StreamRecord ==
  [state : StreamStates, closeCount : Nat, auth : SUBSET Nat,
   grpc : BOOLEAN, idle : BOOLEAN, broken : BOOLEAN]

NewStream ==
  [state |-> "Initial", closeCount |-> 0, auth |-> {},
   grpc |-> FALSE, idle |-> FALSE, broken |-> FALSE]

IsOpen(s)    == s.state = "Open"
IsStarted(s) == s.state \in {"Starting", "Backoff", "Open"}

Asserting(s, claim) == [s EXCEPT !.broken = @ \/ ~claim]

\* A stream in error waits for its backoff first, else a token is asked for.
Start(s) ==
  IF s.state = "Error"
  THEN [s EXCEPT !.state = "Backoff"]
  ELSE [Asserting(s, s.state = "Initial") EXCEPT !.state = "Starting",
                                                 !.auth = @ \cup {s.closeCount}]

BackoffElapsed(s) == Start([s EXCEPT !.state = "Initial"])

\* Slip: a token is used whatever became of the stream since it was asked for.
TokenCame_AnyCount(s, count) ==
  [Asserting(s, s.state = "Starting") EXCEPT !.auth = @ \ {count}, !.grpc = TRUE]

\* The token asked for under "count" is here; a stream closed since ignores it.
TokenCame(s, count) ==
  IF count # s.closeCount
  THEN [s EXCEPT !.auth = @ \ {count}]
  ELSE [Asserting(s, s.state = "Starting") EXCEPT !.auth = @ \ {count}, !.grpc = TRUE]

Opened(s) == [s EXCEPT !.state = "Open"]

InhibitBackoff(s) == [Asserting(s, ~IsStarted(s)) EXCEPT !.state = "Initial"]

MarkIdle(s) == IF IsOpen(s) THEN [s EXCEPT !.idle = TRUE] ELSE s

Write(s) == [Asserting(s, IsOpen(s)) EXCEPT !.idle = FALSE]

\* The timers are cancelled and the callbacks of this incarnation void; the
\* owner hears of it afterwards.
Close(s, graceful) ==
  [Asserting(s, IsStarted(s)) EXCEPT
     !.state = IF graceful THEN "Initial" ELSE "Error",
     !.closeCount = @ + 1, !.grpc = FALSE, !.idle = FALSE]

\* Stopping a stopped stream does nothing.
Stop(s) == IF IsStarted(s) THEN Close(s, TRUE) ELSE s

=============================================================================
