----------------------------- MODULE OnlineState -----------------------------
(***************************************************************************)
(* remote/online_state_tracker.cc and the watch stream's connection in     *)
(* remote_store.cc: when the client takes itself to be online, and when it *)
(* gives up waiting and shows what it has as offline.                      *)
(*                                                                         *)
(* The watch stream is the record of Stream.  Only how many targets there  *)
(* are matters here; kMaxWatchStreamFailures is 1, so failures are counted *)
(* as none or some.                                                        *)
(***************************************************************************)
EXTENDS Stream

CONSTANTS
  MaxTargets,   \* bound on targets listened to at a time
  MaxUnlistens, \* bound on listens that end
  MaxSwitches,  \* bound on calls of the network switch
  MaxFails      \* bound on streams that fail

ASSUME OnlineAssumption ==
  /\ MaxTargets \in Nat /\ MaxUnlistens \in Nat
  /\ MaxSwitches \in Nat /\ MaxFails \in Nat

VARIABLES
  network,   \* is_network_enabled_
  targets,   \* the number of listen_targets_
  watch,     \* the watch stream
  tracker,   \* OnlineStateTracker: state_, whether streams have failed, its timer
  unlistens, switches, fails  \* what is spent of the bounds

bounds == <<unlistens, switches, fails>>
vars == <<network, targets, watch, tracker, bounds>>

Tracker == [state : {"Unknown", "Online", "Offline"}, failed : BOOLEAN,
            timer : BOOLEAN, broken : BOOLEAN]

Claiming(t, claim) == [t EXCEPT !.broken = @ \/ ~claim]

\* Slip: there is no limit to the wait.
StreamStarted_Untimed(t) == IF t.failed THEN t ELSE [t EXCEPT !.state = "Unknown"]

\* HandleWatchStreamStart.
StreamStarted(t) ==
  IF t.failed THEN t
  ELSE [Claiming(t, ~t.timer) EXCEPT !.state = "Unknown", !.timer = TRUE]

\* Slip: the timer is left running.
StreamFailed_Timed(t) ==
  IF t.state = "Online" THEN [t EXCEPT !.state = "Unknown"]
  ELSE [t EXCEPT !.failed = TRUE, !.state = "Offline"]

\* HandleWatchStreamFailure.
StreamFailed(t) ==
  IF t.state = "Online"
  THEN [Claiming(t, ~t.failed /\ ~t.timer) EXCEPT !.state = "Unknown"]
  ELSE [t EXCEPT !.failed = TRUE, !.timer = FALSE, !.state = "Offline"]

UpdateState(t, state) == [t EXCEPT !.timer = FALSE, !.failed = FALSE, !.state = state]

-----------------------------------------------------------------------------
(* RemoteStore.                                                            *)

\* Slip: a stream in error is not started again.
ShouldStart_Initial(n, on, s) == on /\ s.state = "Initial" /\ n > 0

\* ShouldStartWatchStream.
ShouldStart(n, on, s) == on /\ ~IsStarted(s) /\ n > 0

\* StartWatchStream, if there is a need.
StartIfNeeded(n, on, s, t) ==
  IF ShouldStart(n, on, s)
  THEN watch' = Start(s) /\ tracker' = StreamStarted(t)
  ELSE watch' = s /\ tracker' = t

\* Slip: a stream that is not needed any more is not reported.
Closed_Silently(s, t, failed) == IF failed THEN StreamFailed(t) ELSE t

\* OnWatchStreamClose, up to the restart.
Closed(s, t, failed) ==
  IF ShouldStart(targets, network', s) THEN StreamFailed(t) ELSE UpdateState(t, "Unknown")

\* A stop: a graceful close must find no need for the stream.
StopWatch(t) ==
  IF ~IsStarted(watch) THEN t
  ELSE Closed(Stop(watch), Claiming(t, ~ShouldStart(targets, network', Stop(watch))), FALSE)

Init ==
  /\ network = FALSE /\ targets = 0 /\ watch = NewStream
  /\ tracker = [state |-> "Unknown", failed |-> FALSE, timer |-> FALSE, broken |-> FALSE]
  /\ unlistens = 0 /\ switches = 0 /\ fails = 0

Switch == switches < MaxSwitches /\ switches' = switches + 1 /\ UNCHANGED <<targets, unlistens, fails>>

Enabled(s, t) ==
  IF ShouldStart(targets, TRUE, s) THEN StartIfNeeded(targets, TRUE, s, t)
  ELSE watch' = s /\ tracker' = UpdateState(t, "Unknown")

\* RemoteStore::Start.
Launch ==
  /\ ~network /\ switches = 0 /\ network' = TRUE
  /\ Enabled(watch, tracker)
  /\ Switch

\* The API's calls may come in any state of the network.
EnableNetwork ==
  /\ switches > 0 /\ network' = TRUE
  /\ Enabled(watch, tracker)
  /\ Switch

DisableNetwork ==
  /\ switches > 0 /\ network' = FALSE
  /\ watch' = Stop(watch) /\ tracker' = UpdateState(StopWatch(tracker), "Offline")
  /\ Switch

\* The network is off while the streams stop.
HandleCredentialChange ==
  /\ network /\ UNCHANGED network
  /\ LET stopped == IF IsStarted(watch) THEN UpdateState(tracker, "Unknown") ELSE tracker IN
     Enabled(Stop(watch), UpdateState(stopped, "Unknown"))
  /\ Switch

\* Slip: the listen is sent, and the idle timer runs on.
Sending_Idling(s) == s

\* SendWatchRequest and SendUnwatchRequest.
Sending(s) == IF IsOpen(s) THEN Write(s) ELSE s

Listen ==
  /\ targets < MaxTargets /\ targets' = targets + 1
  /\ StartIfNeeded(targets', network, Sending(watch), tracker)
  /\ UNCHANGED <<network, bounds>>

StopListening ==
  /\ targets > 0 /\ targets' = targets - 1
  /\ unlistens < MaxUnlistens /\ unlistens' = unlistens + 1
  /\ watch' = IF targets' = 0 THEN MarkIdle(Sending(watch)) ELSE Sending(watch)
  /\ tracker' = IF targets' = 0 /\ ~IsOpen(watch) /\ network
                THEN UpdateState(tracker, "Unknown") ELSE tracker
  /\ UNCHANGED <<network, switches, fails>>

-----------------------------------------------------------------------------
(* The stream, its messages and the timers.                                *)

Idling == UNCHANGED <<network, targets, unlistens, switches>>

TokenArrives ==
  /\ \E count \in watch.auth : watch' = TokenCame(watch, count)
  /\ UNCHANGED <<tracker, fails>> /\ Idling

\* OnWatchStreamOpen: the listens are sent, if any are left.
StreamOpens ==
  /\ watch.state = "Starting" /\ watch.grpc
  /\ watch' = IF targets > 0 THEN Write(Opened(watch)) ELSE Opened(watch)
  /\ UNCHANGED <<tracker, fails>> /\ Idling

BackoffEnds ==
  /\ watch.state = "Backoff" /\ watch' = BackoffElapsed(watch)
  /\ UNCHANGED <<tracker, fails>> /\ Idling

\* OnWatchStreamChange: an answer to a listen, or to its end.
MessageArrives ==
  /\ IsOpen(watch) /\ targets + unlistens > 0
  /\ tracker' = UpdateState(tracker, "Online")
  /\ UNCHANGED <<watch, fails>> /\ Idling

\* A refused token, no connection or a lost one: OnWatchStreamClose.
StreamFails ==
  /\ watch.closeCount \in watch.auth \/ watch.grpc
  /\ fails < MaxFails /\ fails' = fails + 1
  /\ UNCHANGED <<network, targets, unlistens, switches>>
  /\ LET s == Close([watch EXCEPT !.auth = @ \ {watch.closeCount}], FALSE) IN
     StartIfNeeded(targets, network, s, Closed(s, tracker, TRUE))

IdleTimeout ==
  /\ watch.idle
  /\ UNCHANGED network
  /\ watch' = Stop(watch) /\ tracker' = StopWatch(tracker)
  /\ UNCHANGED <<targets, bounds>>

TimerFires ==
  /\ tracker.timer
  /\ tracker' = [Claiming(tracker, tracker.state = "Unknown") EXCEPT !.timer = FALSE, !.state = "Offline"]
  /\ UNCHANGED <<watch, fails>> /\ Idling

Client == TokenArrives \/ BackoffEnds \/ TimerFires
Opens  == StreamOpens \/ MessageArrives

Next ==
  \/ Launch \/ EnableNetwork \/ DisableNetwork \/ HandleCredentialChange
  \/ Listen \/ StopListening
  \/ Client \/ Opens \/ StreamFails \/ IdleTimeout

Spec == Init /\ [][Next]_vars

\* The worker queue runs its tasks and timers; the server owes nothing.
FairSpec == Spec /\ WF_vars(Client)

=============================================================================
