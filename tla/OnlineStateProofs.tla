-------------------------- MODULE OnlineStateProofs --------------------------
(***************************************************************************)
(* Proofs about OnlineState: the assertions of the tracker and the stream  *)
(* hold, online means an open stream, the idle timer runs over no target,  *)
(* a stream that is needed is started and a wait for the server is timed,  *)
(* whatever the number of targets, calls and failures.                     *)
(***************************************************************************)
EXTENDS OnlineStateProperties, StreamProofs

\* What the tracker's own assertions rely on.
TrackerInv(t) ==
  /\ ~t.broken
  /\ t.timer => t.state = "Unknown" /\ ~t.failed
  /\ t.state = "Online" => ~t.failed

\* The timer runs while a stream is wanted; online is said of an open one.
Linked(s, t) ==
  /\ t.timer => IsStarted(s)
  /\ t.state = "Online" => IsOpen(s)

\* Sending leaves the state of the stream as it is, and stops the idle timer.
LEMMA SendingGood ==
  ASSUME NEW s \in StreamRecord, StreamInv(s)
  PROVE  /\ Sending(s) \in StreamRecord /\ StreamInv(Sending(s))
         /\ Sending(s).state = s.state /\ ~Sending(s).idle
BY DEF StreamRecord, StreamStates, StreamInv, IsOpen, Sending, Write, Asserting

-----------------------------------------------------------------------------
(* What the operations on the tracker return.                              *)

\* HandleWatchStreamStart, when no timer runs.
LEMMA StreamStartedGood ==
  ASSUME NEW t \in Tracker, TrackerInv(t), ~t.timer, t.state # "Online"
  PROVE  /\ StreamStarted(t) \in Tracker /\ TrackerInv(StreamStarted(t))
         /\ StreamStarted(t).state # "Online"
<1>1. CASE t.failed
  BY <1>1 DEF StreamStarted
<1>2. CASE ~t.failed
  <2>1. (t.broken \/ ~(~t.timer)) = t.broken
    BY DEF Tracker
  <2>2. StreamStarted(t) = [t EXCEPT !.state = "Unknown", !.timer = TRUE]
    BY <1>2, <2>1 DEF StreamStarted, Claiming, Tracker
  <2> QED
    BY <1>2, <2>2 DEF Tracker, TrackerInv
<1> QED
  BY <1>1, <1>2

\* HandleWatchStreamFailure.
LEMMA StreamFailedGood ==
  ASSUME NEW t \in Tracker, TrackerInv(t)
  PROVE  /\ StreamFailed(t) \in Tracker /\ TrackerInv(StreamFailed(t))
         /\ ~StreamFailed(t).timer /\ StreamFailed(t).state # "Online"
<1>1. CASE t.state = "Online"
  <2>1. ~t.failed /\ ~t.timer /\ ~t.broken
    BY <1>1 DEF TrackerInv
  <2>2. (t.broken \/ ~(~t.failed /\ ~t.timer)) = t.broken
    BY <2>1 DEF Tracker
  <2>3. StreamFailed(t) = [t EXCEPT !.state = "Unknown"]
    BY <1>1, <2>2 DEF StreamFailed, Claiming, Tracker
  <2> QED
    BY <2>1, <2>3 DEF Tracker, TrackerInv
<1>2. CASE t.state # "Online"
  BY <1>2 DEF StreamFailed, Tracker, TrackerInv
<1> QED
  BY <1>1, <1>2

LEMMA UpdateStateGood ==
  ASSUME NEW t \in Tracker, TrackerInv(t), NEW x \in {"Unknown", "Online", "Offline"}
  PROVE  /\ UpdateState(t, x) \in Tracker /\ TrackerInv(UpdateState(t, x))
         /\ ~UpdateState(t, x).timer /\ UpdateState(t, x).state = x
BY DEF UpdateState, Tracker, TrackerInv

-----------------------------------------------------------------------------
(* A stream and a tracker that fit, and what keeps them so.                *)

Fit(s, t) ==
  /\ s \in StreamRecord /\ StreamInv(s)
  /\ t \in Tracker /\ TrackerInv(t)
  /\ Linked(s, t)

\* The inductive invariant.
IInv ==
  /\ network \in BOOLEAN /\ targets \in Nat
  /\ unlistens \in Nat /\ switches \in Nat /\ fails \in Nat
  /\ Fit(watch, tracker)
  /\ watch.idle => targets = 0

\* An open stream is a started one, so a tracker of a stopped stream is calm.
LEMMA StoppedIsCalm ==
  ASSUME NEW s, NEW t, Fit(s, t), ~IsStarted(s)
  PROVE  ~t.timer /\ t.state # "Online"
BY DEF Fit, Linked, IsStarted, IsOpen

\* A calm tracker fits any stream.
LEMMA CalmFits ==
  ASSUME NEW s \in StreamRecord, StreamInv(s), NEW t \in Tracker, TrackerInv(t),
         ~t.timer, t.state # "Online"
  PROVE  Fit(s, t)
BY DEF Fit, Linked

\* A stream in the same state fits as well.
LEMMA SameStateFits ==
  ASSUME NEW s, NEW t, Fit(s, t),
         NEW r \in StreamRecord, StreamInv(r), r.state = s.state
  PROVE  Fit(r, t)
BY DEF Fit, Linked, IsStarted, IsOpen

LEMMA StartIfNeededGood ==
  ASSUME NEW n, NEW on, NEW s, NEW t, Fit(s, t), StartIfNeeded(n, on, s, t)
  PROVE  Fit(watch', tracker') /\ (watch'.idle => s.idle)
<1>1. CASE ShouldStart(n, on, s)
  <2>1. watch' = Start(s) /\ tracker' = StreamStarted(t) /\ ~IsStarted(s)
    BY <1>1 DEF StartIfNeeded, ShouldStart
  <2>2. ~t.timer /\ t.state # "Online"
    BY <2>1, StoppedIsCalm
  <2>3. /\ watch' \in StreamRecord /\ StreamInv(watch') /\ IsStarted(watch') /\ ~watch'.idle
    BY <2>1, StartGood DEF Fit
  <2>4. tracker' \in Tracker /\ TrackerInv(tracker') /\ tracker'.state # "Online"
    BY <2>1, <2>2, StreamStartedGood DEF Fit
  <2> QED
    BY <2>3, <2>4 DEF Fit, Linked
<1>2. CASE ~ShouldStart(n, on, s)
  BY <1>2 DEF StartIfNeeded
<1> QED
  BY <1>1, <1>2

LEMMA EnabledGood ==
  ASSUME NEW s, NEW t, Fit(s, t), Enabled(s, t)
  PROVE  Fit(watch', tracker') /\ (watch'.idle => s.idle)
<1>1. CASE ShouldStart(targets, TRUE, s)
  BY <1>1, StartIfNeededGood DEF Enabled
<1>2. CASE ~ShouldStart(targets, TRUE, s)
  BY <1>2, UpdateStateGood, CalmFits DEF Enabled, Fit
<1> QED
  BY <1>1, <1>2

\* OnWatchStreamClose leaves a calm tracker.
LEMMA ClosedGood ==
  ASSUME NEW s, NEW t \in Tracker, TrackerInv(t), NEW failed
  PROVE  /\ Closed(s, t, failed) \in Tracker /\ TrackerInv(Closed(s, t, failed))
         /\ ~Closed(s, t, failed).timer /\ Closed(s, t, failed).state # "Online"
BY StreamFailedGood, UpdateStateGood DEF Closed

\* So does a stop that finds no need for the stream.
LEMMA StopWatchGood ==
  ASSUME NEW t, Fit(watch, t), ~ShouldStart(targets, network', Stop(watch))
  PROVE  /\ StopWatch(t) \in Tracker /\ TrackerInv(StopWatch(t))
         /\ ~StopWatch(t).timer /\ StopWatch(t).state # "Online"
<1>1. CASE ~IsStarted(watch)
  BY <1>1, StoppedIsCalm DEF StopWatch, Fit
<1>2. CASE IsStarted(watch)
  <2>1. Claiming(t, ~ShouldStart(targets, network', Stop(watch))) = t
    <3>1. (t.broken \/ ~(~ShouldStart(targets, network', Stop(watch)))) = t.broken
      BY DEF Fit, Tracker
    <3> QED
      BY <3>1 DEF Claiming, Fit, Tracker
  <2>2. StopWatch(t) = Closed(Stop(watch), t, FALSE)
    BY <1>2, <2>1 DEF StopWatch
  <2> QED
    BY <2>2, ClosedGood DEF Fit
<1> QED
  BY <1>1, <1>2

-----------------------------------------------------------------------------
(* The invariant.                                                          *)

LEMMA InitInv == Init => IInv
<1> SUFFICES ASSUME Init PROVE IInv
  OBVIOUS
<1>1. watch \in StreamRecord /\ StreamInv(watch) /\ ~watch.idle
  BY DEF Init, NewStream, StreamRecord, StreamStates, StreamInv
<1>2. /\ tracker \in Tracker /\ TrackerInv(tracker)
      /\ ~tracker.timer /\ tracker.state # "Online"
  BY DEF Init, Tracker, TrackerInv
<1> QED
  BY <1>1, <1>2, CalmFits DEF Init, IInv

LEMMA NextInv == IInv /\ [Next]_vars => IInv'
<1> SUFFICES ASSUME IInv, [Next]_vars PROVE IInv'
  OBVIOUS
<1> USE DEF IInv, bounds
<1>1. CASE Launch
  BY <1>1, EnabledGood DEF Launch, Switch
<1>2. CASE EnableNetwork
  BY <1>2, EnabledGood DEF EnableNetwork, Switch
<1>3. CASE DisableNetwork
  <2>1. ~ShouldStart(targets, network', Stop(watch))
    BY <1>3 DEF DisableNetwork, ShouldStart
  <2>2. Fit(watch', tracker')
    BY <1>3, <2>1, StopWatchGood, UpdateStateGood, StopGood, CalmFits DEF DisableNetwork, Fit
  <2>3. ~watch'.idle
    BY <1>3, StopGood DEF DisableNetwork, Fit
  <2>4. /\ targets' \in Nat
        /\ unlistens' \in Nat /\ switches' \in Nat /\ fails' \in Nat
    BY <1>3 DEF DisableNetwork, Switch
  <2>5. network' \in BOOLEAN
    BY <1>3, Zenon DEF DisableNetwork
  <2> QED
    BY <2>2, <2>3, <2>4, <2>5
<1>4. CASE HandleCredentialChange
  <2> DEFINE stopped == IF IsStarted(watch) THEN UpdateState(tracker, "Unknown") ELSE tracker
             fresh   == UpdateState(stopped, "Unknown")
  <2>1. stopped \in Tracker /\ TrackerInv(stopped)
    BY UpdateStateGood DEF Fit
  <2>2. fresh \in Tracker /\ TrackerInv(fresh) /\ ~fresh.timer /\ fresh.state # "Online"
    BY <2>1, UpdateStateGood
  <2>3. Fit(Stop(watch), fresh) /\ ~Stop(watch).idle
    BY <2>2, StopGood, CalmFits DEF Fit
  <2>4. Enabled(Stop(watch), fresh)
    BY <1>4 DEF HandleCredentialChange
  <2> HIDE DEF fresh
  <2>5. Fit(watch', tracker') /\ ~watch'.idle
    BY <2>3, <2>4, EnabledGood
  <2> QED
    BY <1>4, <2>5 DEF HandleCredentialChange, Switch
<1>5. CASE Listen
  <2>1. Fit(Sending(watch), tracker) /\ ~Sending(watch).idle
    BY SendingGood, SameStateFits DEF Fit
  <2>2. Fit(watch', tracker') /\ ~watch'.idle
    BY <1>5, <2>1, StartIfNeededGood DEF Listen
  <2> QED
    BY <1>5, <2>2 DEF Listen
<1>6. CASE StopListening
  <2>1. /\ Sending(watch) \in StreamRecord /\ StreamInv(Sending(watch))
        /\ Sending(watch).state = watch.state /\ ~Sending(watch).idle
    BY SendingGood DEF Fit
  <2>2. /\ watch' \in StreamRecord /\ StreamInv(watch') /\ watch'.state = watch.state
        /\ watch'.idle => targets' = 0
    BY <1>6, <2>1, MarkIdleGood DEF StopListening
  <2>3. Fit(watch', tracker)
    BY <2>2, SameStateFits
  <2>4. Fit(watch', tracker')
    BY <1>6, <2>2, <2>3, UpdateStateGood, CalmFits DEF StopListening, Fit
  <2> QED
    BY <1>6, <2>2, <2>4 DEF StopListening
<1>7. CASE TokenArrives
  BY <1>7, TokenGood, SameStateFits DEF TokenArrives, Idling, Fit
<1>8. CASE StreamOpens
  <2>1. watch.state = "Starting" /\ watch.grpc
    BY <1>8 DEF StreamOpens
  <2>2. Opened(watch) \in StreamRecord /\ StreamInv(Opened(watch)) /\ IsOpen(Opened(watch)) /\ ~Opened(watch).idle
    BY <2>1, OpenedGood DEF Fit
  <2>3. watch' \in StreamRecord /\ StreamInv(watch') /\ IsOpen(watch') /\ ~watch'.idle
    BY <1>8, <2>2, WriteGood DEF StreamOpens
  <2>4. Fit(watch', tracker)
    BY <2>3 DEF Fit, Linked, IsOpen, IsStarted
  <2> QED
    BY <1>8, <2>3, <2>4 DEF StreamOpens, Idling
<1>9. CASE BackoffEnds
  <2>1. watch.state = "Backoff" /\ watch' = BackoffElapsed(watch)
    BY <1>9 DEF BackoffEnds
  <2>2. watch' \in StreamRecord /\ StreamInv(watch') /\ IsStarted(watch') /\ ~watch'.idle
    BY <2>1, BackoffGood DEF Fit
  <2>3. Fit(watch', tracker)
    BY <2>1, <2>2 DEF Fit, Linked, IsOpen
  <2> QED
    BY <1>9, <2>2, <2>3 DEF BackoffEnds, Idling
<1>10. CASE MessageArrives
  <2>1. Fit(watch, tracker')
    BY <1>10, UpdateStateGood DEF MessageArrives, Fit, Linked
  <2> QED
    BY <1>10, <2>1 DEF MessageArrives, Idling
<1>11. CASE StreamFails
  <2> DEFINE r == [watch EXCEPT !.auth = @ \ {watch.closeCount}]
             c == Close(r, FALSE)
             t == Closed(c, tracker, TRUE)
  <2>1. IsStarted(watch)
    BY <1>11 DEF StreamFails, Fit, StreamInv, IsStarted
  <2>2. r \in StreamRecord /\ StreamInv(r) /\ IsStarted(r)
    BY <2>1 DEF Fit, StreamRecord, StreamInv, IsStarted, IsOpen
  <2>3. c \in StreamRecord /\ StreamInv(c) /\ ~c.idle
    BY <2>2, CloseGood
  <2>4. t \in Tracker /\ TrackerInv(t) /\ ~t.timer /\ t.state # "Online"
    BY ClosedGood DEF Fit
  <2>5. StartIfNeeded(targets, network, c, t)
    BY <1>11 DEF StreamFails
  <2> HIDE DEF c, t
  <2>6. Fit(watch', tracker') /\ ~watch'.idle
    BY <2>3, <2>4, <2>5, CalmFits, StartIfNeededGood
  <2> QED
    BY <1>11, <2>6 DEF StreamFails
<1>12. CASE IdleTimeout
  <2>1. ~ShouldStart(targets, network', Stop(watch))
    BY <1>12 DEF IdleTimeout, ShouldStart
  <2>2. Fit(watch', tracker')
    BY <1>12, <2>1, StopWatchGood, StopGood, CalmFits DEF IdleTimeout, Fit
  <2> QED
    BY <1>12, <2>2, StopGood DEF IdleTimeout, Fit
<1>13. CASE TimerFires
  <2>1. tracker.timer /\ tracker.state = "Unknown" /\ ~tracker.failed /\ ~tracker.broken
    BY <1>13 DEF TimerFires, Fit, TrackerInv
  <2>2. (tracker.broken \/ ~(tracker.state = "Unknown")) = tracker.broken
    BY <2>1 DEF Fit, Tracker
  <2>3. tracker' = [tracker EXCEPT !.timer = FALSE, !.state = "Offline"]
    BY <1>13, <2>2 DEF TimerFires, Claiming, Fit, Tracker
  <2>4. /\ tracker' \in Tracker /\ TrackerInv(tracker')
        /\ ~tracker'.timer /\ tracker'.state # "Online"
    BY <2>1, <2>3 DEF Fit, Tracker, TrackerInv
  <2> QED
    BY <1>13, <2>4, CalmFits DEF TimerFires, Idling, Fit
<1>14. CASE UNCHANGED vars
  BY <1>14 DEF vars, Fit, StreamInv, TrackerInv, Linked, IsOpen, IsStarted
<1> QED
  BY <1>1, <1>2, <1>3, <1>4, <1>5, <1>6, <1>7, <1>8, <1>9, <1>10, <1>11, <1>12, <1>13, <1>14
     DEF Next, Client, Opens

LEMMA Invariance == Spec => []IInv
<1> QED
  BY InitInv, NextInv, PTL DEF Spec

-----------------------------------------------------------------------------
(* The theorems.                                                           *)

\* The HARD_ASSERTs of the tracker, the stream and the graceful close hold.
THEOREM AssertionsCorrect == Spec => []AssertionsHold
<1>1. IInv => AssertionsHold
  BY DEF IInv, Fit, StreamInv, TrackerInv, AssertionsHold
<1> QED
  BY <1>1, Invariance, PTL

\* HandleWatchStreamStart and OnWatchStreamClose: online means an open stream.
THEOREM OnlineCorrect == Spec => []OnlineMeansOpen
<1>1. IInv => OnlineMeansOpen
  BY DEF IInv, Fit, Linked, OnlineMeansOpen
<1> QED
  BY <1>1, Invariance, PTL

\* Stream::MarkIdle and Write: the idle timer runs over no target.
THEOREM IdleCorrect == Spec => []IdleMeansNoTargets
<1>1. IInv => IdleMeansNoTargets
  BY DEF IInv, IdleMeansNoTargets
<1> QED
  BY <1>1, Invariance, PTL

-----------------------------------------------------------------------------
(* A stream that is needed is started, and the wait for it is timed.       *)

Reported(t) == t.failed => t.state = "Offline"

\* A failure that is counted has been reported; and as long as no listen has
\* ended and the switch is let be, a stream is started for a target only, and
\* a timer with it.
TimedInv ==
  /\ NeededStreamIsStarted
  /\ switches = 0 => ~network
  /\ Reported(tracker)
  /\ unlistens = 0 /\ switches <= 1 =>
       /\ IsStarted(watch) => network /\ targets > 0
       /\ Waiting => tracker.timer

LEMMA TrackerReports ==
  ASSUME NEW t \in Tracker, t.state = "Online" => ~t.failed
  PROVE  /\ Reported(StreamFailed(t))
         /\ Reported(t) => Reported(StreamStarted(t))
         /\ Reported(t) /\ StreamStarted(t).state = "Unknown" => StreamStarted(t).timer
         /\ \A x \in {"Unknown", "Online", "Offline"} : Reported(UpdateState(t, x))
<1>1. Reported(StreamFailed(t))
  <2>1. CASE t.state = "Online" /\ ~t.failed
    <3>1. StreamFailed(t).failed = t.failed
      BY <2>1 DEF StreamFailed, Claiming, Tracker
    <3> QED
      BY <2>1, <3>1 DEF Reported
  <2>2. CASE t.state # "Online"
    BY <2>2 DEF Reported, StreamFailed, Tracker
  <2> QED
    BY <2>1, <2>2
<1>2. Reported(t) => Reported(StreamStarted(t))
  <2>1. CASE t.failed
    BY <2>1 DEF StreamStarted
  <2>2. CASE ~t.failed
    BY <2>2 DEF Reported, StreamStarted, Claiming, Tracker
  <2> QED
    BY <2>1, <2>2
<1>3. Reported(t) /\ StreamStarted(t).state = "Unknown" => StreamStarted(t).timer
  BY DEF Reported, StreamStarted, Claiming, Tracker
<1>4. \A x \in {"Unknown", "Online", "Offline"} : Reported(UpdateState(t, x))
  BY DEF Reported, UpdateState, Tracker
<1> QED
  BY <1>1, <1>2, <1>3, <1>4

\* A stream that is started, if one is needed, is a timed one.
Timely(s, n) ==
  /\ n > 0 => IsStarted(watch')
  /\ IsStarted(watch') => IsStarted(s) \/ n > 0
  /\ Reported(tracker')
  /\ ~IsStarted(s) /\ n > 0 /\ tracker'.state = "Unknown" => tracker'.timer

LEMMA StartIfNeededTimed ==
  ASSUME NEW n \in Nat, NEW s, NEW t, Fit(s, t), Reported(t), StartIfNeeded(n, TRUE, s, t)
  PROVE  Timely(s, n)
<1>1. CASE ShouldStart(n, TRUE, s)
  <2>1. watch' = Start(s) /\ tracker' = StreamStarted(t) /\ n > 0
    BY <1>1 DEF StartIfNeeded, ShouldStart
  <2>2. IsStarted(watch')
    BY <1>1, <2>1, StartGood DEF Fit, ShouldStart
  <2>3. Reported(tracker') /\ (tracker'.state = "Unknown" => tracker'.timer)
    BY <2>1, TrackerReports DEF Fit, TrackerInv
  <2> QED
    BY <2>1, <2>2, <2>3 DEF Timely
<1>2. CASE ~ShouldStart(n, TRUE, s)
  BY <1>2 DEF StartIfNeeded, ShouldStart, Timely
<1> QED
  BY <1>1, <1>2

LEMMA EnabledTimed ==
  ASSUME targets \in Nat, NEW s, NEW t, Fit(s, t), Reported(t), Enabled(s, t)
  PROVE  Timely(s, targets)
<1>1. CASE ShouldStart(targets, TRUE, s)
  BY <1>1, StartIfNeededTimed DEF Enabled
<1>2. CASE ~ShouldStart(targets, TRUE, s)
  <2>1. watch' = s /\ tracker' = UpdateState(t, "Unknown") /\ (IsStarted(s) \/ ~(targets > 0))
    BY <1>2 DEF Enabled, ShouldStart
  <2>2. Reported(tracker')
    BY <2>1, TrackerReports DEF Fit, TrackerInv
  <2> QED
    BY <2>1, <2>2 DEF Timely
<1> QED
  BY <1>1, <1>2

LEMMA ClosedReports ==
  ASSUME NEW s, NEW t \in Tracker, t.state = "Online" => ~t.failed, NEW failed
  PROVE  Reported(Closed(s, t, failed))
BY TrackerReports DEF Closed

\* What a step of stream or timer does that moves neither the start of the
\* stream nor, but for the end of the wait, the state of the tracker.
LEMMA StillTimed ==
  ASSUME TimedInv, UNCHANGED <<network, targets, switches, unlistens>>,
         IsStarted(watch') <=> IsStarted(watch), Reported(tracker'),
         tracker' = tracker \/ tracker'.state # "Unknown"
  PROVE  TimedInv'
BY DEF TimedInv, NeededStreamIsStarted, Waiting

LEMMA NextTimed == IInv /\ TimedInv /\ [Next]_vars => TimedInv'
<1> SUFFICES ASSUME IInv, TimedInv, [Next]_vars PROVE TimedInv'
  OBVIOUS
<1>1. /\ Fit(watch, tracker) /\ Reported(tracker) /\ tracker \in Tracker
      /\ network \in BOOLEAN /\ targets \in Nat /\ unlistens \in Nat /\ switches \in Nat
      /\ TrackerInv(tracker) /\ (tracker.state = "Online" => ~tracker.failed)
  BY DEF IInv, TimedInv, Fit, TrackerInv
\* A call of the switch after the launch.
<1>2. ASSUME switches > 0, Switch, network' /\ targets' > 0 => IsStarted(watch'), Reported(tracker')
      PROVE  TimedInv'
  <2>1. switches' # 0 /\ ~(switches' <= 1)
    BY <1>1, <1>2 DEF Switch
  <2> QED
    BY <1>2, <2>1, Zenon DEF TimedInv, NeededStreamIsStarted
<1>3. CASE Launch
  <2>1. ~network /\ switches = 0 /\ network' /\ switches' = 1 /\ targets' = targets /\ unlistens' = unlistens
    BY <1>3 DEF Launch, Switch
  <2>2. Timely(watch, targets)
    BY <1>1, <1>3, EnabledTimed DEF Launch
  <2>3. unlistens = 0 => ~IsStarted(watch)
    BY <2>1 DEF TimedInv
  <2> QED
    BY <2>1, <2>2, <2>3 DEF TimedInv, NeededStreamIsStarted, Waiting, Timely
<1>4. CASE EnableNetwork
  <2>1. Timely(watch, targets)
    BY <1>1, <1>4, EnabledTimed DEF EnableNetwork
  <2> QED
    BY <1>2, <1>4, <2>1 DEF EnableNetwork, Switch, Timely
<1>5. CASE DisableNetwork
  <2>1. ~network' /\ switches > 0 /\ Switch
    BY <1>5 DEF DisableNetwork
  <2>2. StopWatch(tracker) \in Tracker /\ StopWatch(tracker).state # "Online"
    <3>1. ~ShouldStart(targets, network', Stop(watch))
      BY <2>1 DEF ShouldStart
    <3> QED
      BY <1>1, <3>1, StopWatchGood
  <2>3. Reported(tracker')
    BY <1>5, <2>2, TrackerReports DEF DisableNetwork
  <2> QED
    BY <1>2, <2>1, <2>3
<1>6. CASE HandleCredentialChange
  <2> DEFINE stopped == IF IsStarted(watch) THEN UpdateState(tracker, "Unknown") ELSE tracker
             fresh   == UpdateState(stopped, "Unknown")
  <2>1. stopped \in Tracker /\ TrackerInv(stopped)
    BY <1>1, UpdateStateGood DEF Fit
  <2>2. fresh \in Tracker /\ TrackerInv(fresh) /\ ~fresh.timer /\ fresh.state # "Online" /\ Reported(fresh)
    BY <2>1, UpdateStateGood, TrackerReports DEF TrackerInv
  <2>3. Enabled(Stop(watch), fresh)
    BY <1>6 DEF HandleCredentialChange
  <2> HIDE DEF fresh
  <2>4. Fit(Stop(watch), fresh)
    BY <1>1, <2>2, StopGood, CalmFits DEF Fit
  <2>5. Timely(Stop(watch), targets)
    BY <1>1, <2>2, <2>3, <2>4, EnabledTimed
  <2>6. switches > 0
    BY <1>1, <1>6 DEF HandleCredentialChange, TimedInv
  <2> QED
    BY <1>2, <1>6, <2>5, <2>6 DEF HandleCredentialChange, Switch, Timely
<1>7. CASE Listen
  <2>1. Fit(Sending(watch), tracker) /\ Sending(watch).state = watch.state
    BY <1>1, SendingGood, SameStateFits DEF Fit
  <2>2. /\ UNCHANGED <<network, switches, unlistens>> /\ targets' = targets + 1
        /\ StartIfNeeded(targets', network, Sending(watch), tracker)
    BY <1>7 DEF Listen, bounds
  <2>3. IsStarted(Sending(watch)) <=> IsStarted(watch)
    BY <2>1 DEF IsStarted
  <2>4. targets' \in Nat /\ targets' > 0
    BY <1>1, <2>2
  <2>5. CASE ~network
    <3>1. watch' = Sending(watch) /\ tracker' = tracker
      BY <2>2, <2>5 DEF StartIfNeeded, ShouldStart
    <3> QED
      BY <2>2, <2>3, <2>5, <3>1 DEF TimedInv, NeededStreamIsStarted, Waiting
  <2>6. CASE network /\ IsStarted(watch)
    <3>1. watch' = Sending(watch) /\ tracker' = tracker
      BY <2>2, <2>3, <2>6 DEF StartIfNeeded, ShouldStart
    <3> QED
      BY <2>2, <2>3, <2>4, <2>6, <3>1 DEF TimedInv, NeededStreamIsStarted, Waiting
  <2>7. CASE network /\ ~IsStarted(watch)
    <3>1. Timely(Sending(watch), targets')
      <4>1. StartIfNeeded(targets', TRUE, Sending(watch), tracker)
        BY <2>2, <2>7 DEF StartIfNeeded, ShouldStart
      <4>2. PICK n \in Nat : n = targets'
        BY <2>4
      <4> QED
        BY <1>1, <2>1, <4>1, <4>2, StartIfNeededTimed
    <3> QED
      BY <2>2, <2>3, <2>4, <2>7, <3>1 DEF TimedInv, NeededStreamIsStarted, Waiting, Timely
  <2> QED
    BY <1>1, <2>5, <2>6, <2>7
<1>8. CASE StopListening
  <2>1. UNCHANGED <<network, switches>> /\ targets > 0 /\ unlistens' = unlistens + 1
    BY <1>8 DEF StopListening
  <2>2. IsStarted(watch') <=> IsStarted(watch)
    <3>1. /\ Sending(watch) \in StreamRecord /\ StreamInv(Sending(watch))
          /\ Sending(watch).state = watch.state
      BY <1>1, SendingGood DEF Fit
    <3>2. watch'.state = watch.state
      BY <1>8, <3>1, MarkIdleGood DEF StopListening
    <3> QED
      BY <3>2 DEF IsStarted
  <2>3. Reported(tracker')
    BY <1>1, <1>8, TrackerReports DEF StopListening
  <2>4. unlistens' # 0
    BY <1>1, <2>1
  <2> QED
    BY <2>1, <2>2, <2>3, <2>4 DEF TimedInv, NeededStreamIsStarted
<1>9. CASE TokenArrives
  <2>1. watch'.state = watch.state
    BY <1>1, <1>9, TokenGood DEF TokenArrives, Fit
  <2> QED
    BY <1>1, <1>9, <2>1, StillTimed DEF TokenArrives, Idling, IsStarted
<1>10. CASE StreamOpens
  <2>1. watch.state = "Starting" /\ watch.grpc
    BY <1>10 DEF StreamOpens
  <2>2. Opened(watch) \in StreamRecord /\ StreamInv(Opened(watch)) /\ IsOpen(Opened(watch))
    BY <1>1, <2>1, OpenedGood DEF Fit
  <2>3. IsOpen(watch')
    BY <1>10, <2>2, WriteGood DEF StreamOpens
  <2> QED
    BY <1>1, <1>10, <2>1, <2>3, StillTimed DEF StreamOpens, Idling, IsStarted, IsOpen
<1>11. CASE BackoffEnds
  <2>1. IsStarted(watch) /\ IsStarted(watch')
    BY <1>1, <1>11, BackoffGood DEF BackoffEnds, Fit, IsStarted
  <2> QED
    BY <1>1, <1>11, <2>1, StillTimed DEF BackoffEnds, Idling
<1>12. CASE MessageArrives
  <2>1. tracker'.state = "Online" /\ Reported(tracker')
    BY <1>1, <1>12, UpdateStateGood, TrackerReports DEF MessageArrives, Fit
  <2> QED
    BY <1>12, <2>1, StillTimed DEF MessageArrives, Idling
<1>13. CASE StreamFails
  <2> DEFINE r == [watch EXCEPT !.auth = @ \ {watch.closeCount}]
             c == Close(r, FALSE)
             t == Closed(c, tracker, TRUE)
  <2>1. IsStarted(watch)
    BY <1>1, <1>13 DEF StreamFails, Fit, StreamInv, IsStarted
  <2>2. r \in StreamRecord /\ StreamInv(r) /\ IsStarted(r)
    BY <1>1, <2>1 DEF Fit, StreamRecord, StreamInv, IsStarted, IsOpen
  <2>3. c \in StreamRecord /\ StreamInv(c) /\ ~IsStarted(c)
    BY <2>2, CloseGood
  <2>4. t \in Tracker /\ TrackerInv(t) /\ ~t.timer /\ t.state # "Online" /\ Reported(t)
    BY <1>1, ClosedGood, ClosedReports DEF Fit
  <2>5. StartIfNeeded(targets, network, c, t) /\ UNCHANGED <<network, targets, unlistens, switches>>
    BY <1>13 DEF StreamFails
  <2> HIDE DEF c, t
  <2>6. Fit(c, t)
    BY <2>3, <2>4, CalmFits
  <2>7. CASE network
    <3>1. Timely(c, targets)
      <4>1. StartIfNeeded(targets, TRUE, c, t)
        BY <2>5, <2>7 DEF StartIfNeeded, ShouldStart
      <4> QED
        BY <1>1, <2>4, <2>6, <4>1, StartIfNeededTimed
    <3> QED
      BY <2>3, <2>5, <2>7, <3>1 DEF TimedInv, NeededStreamIsStarted, Waiting, Timely
  <2>8. CASE ~network
    <3>1. watch' = c /\ tracker' = t
      BY <2>5, <2>8 DEF StartIfNeeded, ShouldStart
    <3> QED
      BY <2>3, <2>4, <2>5, <2>8, <3>1 DEF TimedInv, NeededStreamIsStarted, Waiting
  <2> QED
    BY <1>1, <2>7, <2>8
<1>14. CASE IdleTimeout
  <2>1. /\ targets = 0 /\ UNCHANGED <<network, targets, unlistens, switches>>
        /\ watch' = Stop(watch) /\ tracker' = StopWatch(tracker)
    BY <1>14 DEF IdleTimeout, IInv, bounds
  <2>2. ~IsStarted(watch')
    BY <1>1, <2>1, StopGood DEF Fit
  <2>3. Reported(tracker')
    <3>1. CASE IsStarted(watch)
      <4>1. PICK u : u = Claiming(tracker, ~ShouldStart(targets, network', Stop(watch)))
        OBVIOUS
      <4>2. u \in Tracker /\ (u.state = "Online" => ~u.failed)
        BY <1>1, <4>1 DEF Claiming, Tracker
      <4>3. tracker' = Closed(Stop(watch), u, FALSE)
        BY <2>1, <3>1, <4>1 DEF StopWatch
      <4> QED
        BY <4>2, <4>3, ClosedReports
    <3>2. CASE ~IsStarted(watch)
      BY <1>1, <2>1, <3>2 DEF StopWatch
    <3> QED
      BY <3>1, <3>2
  <2> QED
    BY <2>1, <2>2, <2>3 DEF TimedInv, NeededStreamIsStarted, Waiting
<1>15. CASE TimerFires
  <2>1. tracker'.state = "Offline"
    BY <1>1, <1>15 DEF TimerFires, Claiming, Tracker
  <2> QED
    BY <1>15, <2>1, StillTimed DEF TimerFires, Idling, Reported
<1>16. CASE UNCHANGED vars
  BY <1>1, <1>16, StillTimed DEF vars, bounds
<1> QED
  BY <1>3, <1>4, <1>5, <1>6, <1>7, <1>8, <1>9, <1>10, <1>11, <1>12, <1>13, <1>14, <1>15, <1>16
     DEF Next, Client, Opens

LEMMA InitTimed == Init => TimedInv
BY DEF Init, NewStream, TimedInv, NeededStreamIsStarted, Reported, Waiting, IsStarted

\* RemoteStore: after every close, listen and call of the switch a stream that
\* is needed is started.
THEOREM NeededStreamCorrect == Spec => []NeededStreamIsStarted
<1>1. TimedInv => NeededStreamIsStarted
  BY DEF TimedInv
<1> QED
  BY <1>1, InitInv, NextInv, InitTimed, NextTimed, PTL DEF Spec

\* HandleWatchStreamStart: who waits for the server has the timer running.
THEOREM WaitingIsTimedCorrect == Spec => []WaitingIsTimed
<1>1. TimedInv => WaitingIsTimed
  BY DEF TimedInv, WaitingIsTimed
<1> QED
  BY <1>1, InitInv, NextInv, InitTimed, NextTimed, PTL DEF Spec

=============================================================================
