---------------------------- MODULE StreamProofs ----------------------------
(***************************************************************************)
(* Lemmas about the operators of Stream, for every module that owns one:   *)
(* from a stream that satisfies StreamInv each call, made in a state in    *)
(* which it may be made, returns one that does, and asserts nothing false. *)
(***************************************************************************)
EXTENDS Stream, TLAPS

\* What the calls on a stream rely on: a token for this incarnation is asked
\* for only while it starts, and gRPC is up only while it starts or is open.
StreamInv(s) ==
  /\ ~s.broken
  /\ \A c \in s.auth : c <= s.closeCount
  /\ s.closeCount \in s.auth => s.state = "Starting" /\ ~s.grpc
  /\ s.grpc => s.state \in {"Starting", "Open"}
  /\ s.idle => IsOpen(s)

-----------------------------------------------------------------------------
(* What the operations on a stream return.                                 *)

\* A claim that is true changes nothing.
LEMMA AssertingGood ==
  ASSUME NEW s \in StreamRecord, ~s.broken, NEW claim, claim
  PROVE  Asserting(s, claim) = s
<1>1. (s.broken \/ ~claim) = s.broken
  BY DEF StreamRecord
<1> QED
  BY <1>1 DEF Asserting, StreamRecord

\* A stream that is not started can be started.
LEMMA StartGood ==
  ASSUME NEW s \in StreamRecord, StreamInv(s), ~IsStarted(s)
  PROVE  /\ Start(s) \in StreamRecord /\ StreamInv(Start(s))
         /\ IsStarted(Start(s)) /\ ~Start(s).idle
<1>1. CASE s.state = "Error"
  BY <1>1 DEF StreamRecord, StreamStates, StreamInv, IsStarted, IsOpen, Start
<1>2. CASE s.state # "Error"
  <2>1. s.state = "Initial"
    BY <1>2 DEF StreamRecord, StreamStates, IsStarted
  <2>2. Start(s) = [s EXCEPT !.state = "Starting", !.auth = @ \cup {s.closeCount}]
    BY <2>1, AssertingGood DEF Start, StreamInv
  <2>3. s.closeCount \in Nat /\ s.auth \cup {s.closeCount} \in SUBSET Nat
    BY DEF StreamRecord
  <2>4. Start(s) \in StreamRecord
    BY <2>2, <2>3 DEF StreamRecord, StreamStates
  <2>5. /\ Start(s).state = "Starting" /\ Start(s).auth = s.auth \cup {s.closeCount}
        /\ Start(s).closeCount = s.closeCount
        /\ ~Start(s).broken /\ ~Start(s).idle /\ ~Start(s).grpc
    BY <2>1, <2>2 DEF StreamRecord, StreamInv, IsOpen
  <2> QED
    BY <2>3, <2>4, <2>5 DEF StreamInv, IsStarted
<1> QED
  BY <1>1, <1>2

\* Starting takes time: the stream is not open at once.
LEMMA StartOpensLater ==
  ASSUME NEW s \in StreamRecord
  PROVE  ~IsOpen(Start(s))
<1>1. CASE s.state = "Error"
  BY <1>1 DEF Start, IsOpen, StreamRecord
<1>2. CASE s.state # "Error"
  <2> DEFINE a == Asserting(s, s.state = "Initial")
  <2>1. a \in StreamRecord
    BY DEF Asserting, StreamRecord
  <2> HIDE DEF a
  <2>2. Start(s) = [a EXCEPT !.state = "Starting", !.auth = @ \cup {s.closeCount}]
    BY <1>2 DEF Start, a
  <2> QED
    BY <2>1, <2>2 DEF IsOpen, StreamRecord
<1> QED
  BY <1>1, <1>2

\* So can one whose backoff is over.
LEMMA BackoffGood ==
  ASSUME NEW s \in StreamRecord, StreamInv(s), s.state = "Backoff"
  PROVE  /\ BackoffElapsed(s) \in StreamRecord /\ StreamInv(BackoffElapsed(s))
         /\ IsStarted(BackoffElapsed(s)) /\ ~BackoffElapsed(s).idle
<1> DEFINE t == [s EXCEPT !.state = "Initial"]
<1>1. t \in StreamRecord /\ StreamInv(t) /\ ~IsStarted(t)
  BY DEF StreamRecord, StreamStates, StreamInv, IsStarted, IsOpen
<1> QED
  BY <1>1, StartGood DEF BackoffElapsed

\* A token changes neither the state nor the idle timer.
LEMMA TokenGood ==
  ASSUME NEW s \in StreamRecord, StreamInv(s), NEW c \in s.auth
  PROVE  /\ TokenCame(s, c) \in StreamRecord /\ StreamInv(TokenCame(s, c))
         /\ TokenCame(s, c).state = s.state /\ TokenCame(s, c).idle = s.idle
BY DEF StreamRecord, StreamStates, StreamInv, IsOpen, TokenCame, Asserting

\* A stream with gRPC up opens.
LEMMA OpenedGood ==
  ASSUME NEW s \in StreamRecord, StreamInv(s), s.state = "Starting", s.grpc
  PROVE  Opened(s) \in StreamRecord /\ StreamInv(Opened(s)) /\ IsOpen(Opened(s)) /\ ~Opened(s).idle
BY DEF StreamRecord, StreamStates, StreamInv, IsOpen, Opened

\* An open stream takes a message, which stops the idle timer.
LEMMA WriteGood ==
  ASSUME NEW s \in StreamRecord, StreamInv(s), IsOpen(s)
  PROVE  Write(s) \in StreamRecord /\ StreamInv(Write(s)) /\ IsOpen(Write(s)) /\ ~Write(s).idle
BY DEF StreamRecord, StreamStates, StreamInv, IsOpen, Write, Asserting

\* The idle timer leaves the state as it is.
LEMMA MarkIdleGood ==
  ASSUME NEW s \in StreamRecord, StreamInv(s)
  PROVE  /\ MarkIdle(s) \in StreamRecord /\ StreamInv(MarkIdle(s))
         /\ MarkIdle(s).state = s.state
BY DEF StreamRecord, StreamStates, StreamInv, IsOpen, MarkIdle

\* A started stream can be closed.
LEMMA CloseGood ==
  ASSUME NEW s \in StreamRecord, StreamInv(s), IsStarted(s), NEW graceful \in BOOLEAN
  PROVE  /\ Close(s, graceful) \in StreamRecord /\ StreamInv(Close(s, graceful))
         /\ ~IsStarted(Close(s, graceful)) /\ ~Close(s, graceful).idle
<1>1. Close(s, graceful) =
        [s EXCEPT !.state = IF graceful THEN "Initial" ELSE "Error",
                  !.closeCount = @ + 1, !.grpc = FALSE, !.idle = FALSE]
  BY AssertingGood DEF Close, StreamInv
<1>2. s.closeCount + 1 \notin s.auth
  BY DEF StreamInv, StreamRecord
<1> DEFINE t == Close(s, graceful)
<1>3. t \in StreamRecord
  <2>1. /\ s.closeCount + 1 \in Nat
        /\ (IF graceful THEN "Initial" ELSE "Error") \in StreamStates
    BY DEF StreamRecord, StreamStates
  <2> QED
    BY <1>1, <2>1 DEF StreamRecord
<1>4. /\ t.state \in {"Initial", "Error"} /\ t.closeCount = s.closeCount + 1
      /\ t.auth = s.auth /\ ~t.grpc /\ ~t.idle /\ ~t.broken
  BY <1>1 DEF StreamRecord, StreamInv
<1>5. \A c \in s.auth : c <= s.closeCount + 1
  BY DEF StreamRecord, StreamInv
<1> HIDE DEF t
<1>6. StreamInv(t) /\ ~IsStarted(t)
  BY <1>2, <1>4, <1>5 DEF StreamInv, IsStarted
<1> QED
  BY <1>3, <1>4, <1>6 DEF t

LEMMA StopGood ==
  ASSUME NEW s \in StreamRecord, StreamInv(s)
  PROVE  /\ Stop(s) \in StreamRecord /\ StreamInv(Stop(s))
         /\ ~IsStarted(Stop(s)) /\ ~Stop(s).idle
BY CloseGood DEF Stop, StreamInv, IsStarted, IsOpen

\* The backoff of a stream that is not started can be inhibited.
LEMMA InhibitGood ==
  ASSUME NEW s \in StreamRecord, StreamInv(s), ~IsStarted(s)
  PROVE  /\ InhibitBackoff(s) \in StreamRecord /\ StreamInv(InhibitBackoff(s))
         /\ ~IsStarted(InhibitBackoff(s)) /\ ~InhibitBackoff(s).idle
<1>1. InhibitBackoff(s) = [s EXCEPT !.state = "Initial"]
  BY AssertingGood DEF InhibitBackoff, StreamInv
<1> QED
  BY <1>1 DEF StreamRecord, StreamStates, StreamInv, IsStarted, IsOpen

=============================================================================
