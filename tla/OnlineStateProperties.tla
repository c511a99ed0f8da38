------------------------ MODULE OnlineStateProperties ------------------------
(***************************************************************************)
(* What must hold of OnlineState.                                          *)
(***************************************************************************)
EXTENDS OnlineState

\* The HARD_ASSERTs of the tracker, the stream and the graceful close hold,
\* in whatever order calls, failures and the two timers come.
AssertionsHold == ~tracker.broken /\ ~watch.broken

\* The client takes itself to be online only over an open stream.
OnlineMeansOpen == tracker.state = "Online" => IsOpen(watch)

\* The idle timer, which closes the stream, runs over no target.
IdleMeansNoTargets == watch.idle => targets = 0

\* While there is something to listen to and the network is on, the stream is
\* started: no close, idle one, switch or refusal leaves it down.
NeededStreamIsStarted == network /\ targets > 0 => IsStarted(watch)

Waiting == network /\ targets > 0 /\ tracker.state = "Unknown"

\* Whoever waits for the server has the timer that ends the wait running, while
\* targets stay and the network switch is let be: an unlisten of the last target,
\* or an enabling of what is enabled, cancels the timer of a stream that goes on
\* starting.  No failure, token or message cancels it and leaves the state Unknown.
WaitingIsTimed == unlistens = 0 /\ switches <= 1 /\ Waiting => tracker.timer

\* online_state_tracker.cc:44-46 says: "we have a timeout for OnlineState to
\* reach Online or Offline. If the timeout is reached, we transition to Offline
\* rather than waiting indefinitely."  So the wait ends, with the same exceptions.
WaitingEnds == [](unlistens = 0 /\ switches <= 1) => (Waiting ~> ~Waiting)

\* With a server that can be reached (streams open and messages come), a
\* network that stays on and a target to listen to, the client comes online
\* and stays so.
ComesOnline ==
  WF_vars(Opens) => (<>[](network /\ targets > 0) => <>[](tracker.state = "Online"))

=============================================================================
