# ServiceBook in TLA+

ServiceBook is an iOS app that keeps a list of vehicles, works out when each
is due for service, reminds its owner on that day and shares the list through a
Firestore collection. This directory holds TLA+ modules that model it, TLC
configurations that check them, and eight modules of theorems checked by TLAPS.

App sources are under `src/ServiceBook/ServiceBook`; the Firestore client it is
built with is under `src/ServiceBook/Pods/FirebaseFirestore`. `PROJECT.json`
maps every modelled definition to its lines, and lists components, runs,
mutants, hazards, findings and theorems.

## Inventory

| Component | State | Operations | What makes it correct |
|---|---|---|---|
| Vehicle database (`DatabaseManager`, `VehicleManager`, the Core Data stack of `AppDelegate`) | managed object context; SQLite file | add, edit, delete, list, save on termination | one row per ID, in both, through failed saves and kills |
| Reminders (`AppSharedInstance`) | pending and delivered requests (kept by the system), the delegate | set, remove, handle | a reminder exactly for each vehicle still due, on its day |
| Gadget service (`FIRFireStoreService`) and Firestore client | worker queue, local view of the collection, listeners, snapshots on the main queue | create, update, delete, listen | every vehicle has a document; what is queued is written; the last snapshot seen is the latest |
| Upcoming vehicles (`AllVehiclesVC`, presenter) | `arrAllVehicles`, `arrGadgets`, rows counted by the table | appear, tap, delete, snapshot, reminder | acts on the vehicle it shows |
| Add and edit (`AddVehicleVC`, presenter) | the form, `objVehicle`, `gadgetToUpdate` | save, back, pick a date | row, document and reminder change together |
| History (`HistoryVC`, presenter) | `arrAllVehicles` | appear, tap, delete | shows only past vehicles, so a delete need not remove a reminder |
| Lifecycle (`AppDelegate`) | the process | launch, terminate, be killed | what a restart finds is consistent |
| Due-date arithmetic (`getServiceDueDate`) | the two numbers of the form | type, save | the right day, or a trap before anything is saved |
| Firestore client, writes (`sync_engine`, `local_store`, `remote_store`, `stream`) | mutation queue and document cache on disk; pipeline, stream, callbacks in memory | write, acknowledge, reject, resend, restart, apply a snapshot | no write lost, answers given to their writes, in order, never back to older contents |
| Firestore client, watch (`remote_event`, `remote_store`, `view`) | targets, their tokens and counts of answers; the aggregator between snapshots | listen, unlisten, message, snapshot, refusal, lost stream | a view said to be current is what the server had |
| Firestore client, limbo (`sync_engine`, `view`) | documents in limbo, lookups by key and by target, a queue | track, pump, remove, refuse | every document in limbo is looked up, a few at a time |
| Firestore client, online state (`online_state_tracker`) | state, failures, a timer | stream starts, fails, answers; network switch | never online without a stream, never waiting for ever |
| Query engine, serialisation, garbage collection of the client | | | not modelled |
| Cells, images, stubs, other Pods | layout only, or third-party | | |

How they interact. A view controller calls its presenter, which calls
`VehicleManager` and `DatabaseManager` and is called back before they return:
a handler, callbacks included, runs from start to end on the main thread.
Firestore calls only enqueue a task for the client's worker thread; snapshots
come back later on the main queue. Requests handed to the notification centre
live outside the process. The row, the document and the reminder of a vehicle
are three copies in three places, updated one after the other, with no
transaction around them and no result looked at. The gadget carries no vehicle
ID: the upcoming screen pairs rows and gadgets by position.

What is hard, then: snapshots that arrive between two touches, failed
saves whose changes linger, ends of the process between any two steps (and
inside a handler), midnights that move vehicles from one list to the other, and
other devices writing the same collection.

## Modules

| Module | Models |
|---|---|
| `Listing` | ordered fetches: every order of equal keys |
| `VehicleDatabase` | the vehicle table as the context shows it and as the file has it |
| `ReminderCenter` | requests, the calendar, the delegate |
| `GadgetService` | worker queue, collection as this device sees it, snapshots |
| `ServiceBook` | the screens and presenters over the other three: one action per handler |
| `VehicleBook` | abstract specification: a book of vehicles and the reminders read off it |
| `ServiceBookProperties` | type invariant, invariants, refinement, liveness, and what the source says but does not do |
| `MCServiceBook` | root module of the app's runs |
| `ServiceBookProofs` | theorems about `ServiceBook` |
| `DueDate`, `MCDueDate` | the form's numbers, division in single precision, the columns' widths |
| `Stream` | the life of one gRPC stream, as operators on a record |
| `LocalStore` | mutation queue and remote document cache |
| `FirestoreClient` | `SyncEngine`, the write half of `RemoteStore`, the server and other devices, over the two above |
| `SharedCollection` | abstract specification: what the client promises of a collection shared with others |
| `FirestoreClientProperties` | its properties, among them the refinement |
| `WatchTarget`, `WatchTargetProperties` | one watch target: listens, messages, the aggregator, resume tokens |
| `LimboResolution`, `LimboResolutionProperties` | documents in limbo and their lookups |
| `OnlineState`, `OnlineStateProperties` | the online-state tracker over a watch `Stream` |
| `StreamProofs` | lemmas about the operators of `Stream`, whoever owns the stream |
| `FirestoreClientProofs`, `FirestoreWritesProofs` | theorems about `FirestoreClient`, the second upon the first: what is in flight; then what becomes of each write, cache, list and refinement |
| `WatchTargetProofs`, `LimboResolutionProofs`, `OnlineStateProofs`, `DueDateProofs` | theorems about the module of that name |

The modules of the client stand beside `ServiceBook` and not under it. `GadgetService`
is the client as the app sees it (a queue of tasks, a collection with the own writes in it);
`FirestoreClient` is the same client seen from below, and `SharedCollection` what both promise.
`WatchTarget`, `LimboResolution` and `OnlineState` each take one part of what
`FirestoreClient` abstracts: there watch is a snapshot that is never behind the last
one, documents are never in limbo and the client does not say whether it is online.

`ServiceBook` extends the component modules and calls their operations as
conjuncts of its actions, as the handlers call the managers.

State and code:

- `context` / `store`: `viewContext` with its pending changes / the SQLite file.
  A failed save leaves `store` alone and `context` changed, for no handler rolls back.
- `pending`, `delivered`, `today`: requests that will fire, banners nobody
  opened, the day. Requests are keyed by vehicle ID, as in `setLocalNotification`.
- `delegateSet`: `AppSharedInstance` is created lazily, by the first cell
  shown or the first reminder or date handled; until then responses go nowhere.
- `docs`, `tasks`, `inbox`, `listening`: the latency-compensated collection (on
  disk), the worker queue, posted snapshots, whether a listener is attached.
- `screen`, `editing`, `rows`, `arrGadgets`, `tableRows`: what is in front and
  the arrays behind it. `tableRows` is the row count of the last reload, since
  the snapshot callback replaces `arrGadgets` without reloading.
- `damaged`: a history variable, read by no guard (see `RemindersMatchVehicles`).

Actions and code: `Launch`, `SelectAll/History/Add` are launch and tab changes
(`viewWillAppear`); `TapRow`, `TapHistoryRow`, `BackTo...` push and pop the edit
screen; `SaveNew`, `SaveEdit`, `DeleteRow`, `DeleteHistoryRow` are the whole of
`clkSave` and `commit editingStyle` with everything they call; `PickDate` is
`clkDone`. `TouchMissingRow`, `ScrollToMissingRow`, `SaveBadForm`,
`SaveEditFromHistory`, `DeleteLookupFails` and `OpenReminder` are the handlers
that trap. `Quit` is `applicationWillTerminate`, `Kill` a death between
handlers, `TornNew/Edit/Delete` a kill inside one after its save. `NextDay`,
`OpenUnheardReminder`, `SnapshotArrives`, `Worker` and `Outside` are the calendar,
the notification centre, the main queue, the client and other devices.

Of the client:

- Everything in it runs on one worker queue, so a task (a call, a message, a timer) is one action
  with every callback it makes. `WriteMutations` is the whole way from the call through
  `LocalStore`, the views and `FillWritePipeline`; `MutationResult` and `WriteDenied` are the
  two ends of a write, `HandshakeCompletes` the resend, `StreamFails`, `TokenFails`,
  `IdleTimeout` the ways a stream closes. `queue`, `cache`, `lastRemote` are LevelDB and survive
  `Die`; `pipeline`, `callbacks`, `nextBatchID` and the streams do not. `shown` is the
  view's documents, `sent` and `replies` are the two directions of the stream.
- `outcome`, `denied` (what the app was told, what the server refused), and `asOf`, `cut` in
  `WatchTarget` are history variables; no guard reads them.
- `Stream` records a failed `HARD_ASSERT` in `broken` instead of aborting, so that the
  assertions are properties. `auth` holds every token that was asked for and may still come.
- `WatchTarget`: `state` is the target's entry in `target_states_`; `resume` is the token in
  `listen_targets_`, `token` the one on disk, and both stand for the documents they vouch for.
  `ReadChange` is a message without a snapshot version, `RaiseWatchSnapshot` one with it.
- `LimboResolution`: `tracker` is `SyncEngine`'s four containers; its loops (the pump, and the calls
  of it for each document a task changes) are recursive functions on it. A task that changes
  documents ends in `ApplyChanges`, as each does in `EmitNewSnapshotsAndNotifyLocalStore`.
- `OnlineState`: `tracker` is `OnlineStateTracker`, `watch` the stream; `Closed` is
  `OnWatchStreamClose`, which runs inside every stop and failure.

Definitions named `X_Something` ("Slip") are wrong versions of `X`; no
specification uses them. Each is a plausible bug with which some property fails.

### Abstractions

- A vehicle is its ID and due date; a gadget is a document ID, the vehicle a
  reader would recognise in it (`of`), and a due date. Other columns are wording.
  UUIDs and document IDs do not collide. Due dates are midnights (the form
  stores the last service as a date without a time) counted in days, so
  `serviceDueDate >= now` is false of today's. Time zones and daylight saving
  are left out.
- A controller refetches its list when it appears, so one variable `rows` serves the
  tab in front. The Add tab and the edit screens are instances of the same class
  with their own form.
- Listeners are never removed and all listen to the same query; a second
  listener repeats snapshots, which leaves `arrGadgets` the same. Hence a Boolean.
  A change of metadata alone raises nothing, and the client's suppressed
  empty first snapshot finds an empty `arrGadgets` anyway.
- A handler is atomic: tasks it enqueues are picked up by the worker at the
  latest point, after the handler; an earlier pick-up only posts the snapshot
  earlier, and the main queue delivers it after the handler all the same.
- Notification permission is granted; a request whose trigger has passed never
  fires. Foreground delivery (`willPresent`) and opening (`didReceive`) post
  the same message and are one action. Opening a banner launches no process by
  itself; a user may launch it before or after.
- A store that does not load at launch (`fatalError`) is left out.

Of the client and what is around it:

- The server serves the requests of a stream in order, and none after the stream has closed; what
  was answered before may be lost. It may refuse a write, after which it closes the stream. A
  write that comes again is committed again.
- Every watch snapshot carries a version and a token; a listen is answered with what has changed
  since the token, then "current", then a count if some deletions were left out (the comment in
  `HandleExistenceFilter` expects the view to have been current), then a snapshot.
- The app writes one document at a time, whole or not at all, and has one query, which every
  document matches and which has no limit. So a batch is one mutation, and no document leaves
  the query but by deletion.
- Lengths of backoff and of timers are left out: a backoff ends, the idle timer may go off
  whenever it runs, the ten-second timer as well. Stream tokens are opaque and left out.
- `DisableNetwork`, `EnableNetwork`, `HandleCredentialChange` and unlistens are calls of the library that this
  app does not make; they are modelled because the code under test is the library's. The app
  listens once per start of the process and never ends a listen.
- Target IDs of lookups are reused in `LimboResolution` to keep it finite; the code counts on.
- In `DueDate` numbers have at most 24 bits, so that each is a Float, and are not negative; one
  model value stands for any number too wide for its column.

## Properties and runs

`CHECK_DEADLOCK FALSE` everywhere: the bounds on user actions, days, writes, failures
and deaths run out, and a system nobody touches rests.

The app (`MCServiceBook`):

| Run | Property | What it says |
|---|---|---|
| `reminders` | `TypeOK` | types; the edit screen over the upcoming list has a vehicle and a gadget |
| | `VehicleIDsUnique` | no two rows share an ID, in context or file |
| | `RemindersMatchVehicles` | a reminder exactly when service is still to come, on that day, outside `damaged` |
| | `ScreensShowTheTable` | lists and edit screen in front show present rows; history only past ones |
| | `GadgetPerVehicle` | never fewer documents (written or queued) than vehicles |
| `converge` | `SettledGadgetsAreDocs` | with nothing queued or unread, the gadgets listed are the documents, if these can be decoded |
| | `GadgetsConverge` | in the end everything queued is written and the gadgets listed are the documents |
| | `ImplementsVehicleBook` | the app implements `VehicleBook` |
| `edit_wrong_gadget` | `EditWritesOwnGadget` | violated |
| `add_not_stored` | `AddedVehicleIsStored` | violated |
| `reminder_trap` | `ReminderIsHandled` | violated |
| `history_edit_trap` | `HistoryEditCanBeSaved` | violated |

`RemindersMatchVehicles` does not hold of every vehicle, and the code does not
let it: `damaged` collects the IDs for which a death found the row unsaved, a kill
fell inside the handler, or an edit's lookup failed. The run shows that nothing
else sets row and reminder apart, and that a later successful edit or delete
of the vehicle repairs it.

`GadgetPerVehicle` is a count because positions are all that link the two; which
document belongs to which vehicle is what `edit_wrong_gadget` shows to go
wrong. It counts no restarted device (queued writes are lost with the process).

`ImplementsVehicleBook` maps `book` to `context` and `ringing` to `delivered`.
It needs a working database (`MaxFaults = 0`, `MaxTorn = 0`): deaths between handlers
are allowed, because without failed saves the context is always in the file.
It says that screens, traps and queues change nothing in the book, and that at
midnight exactly the vehicles due ring although the reminders were set, moved and
removed one by one long before.

The Firestore client's writes (`FirestoreClientProperties`):

| Run | Property | What it says |
|---|---|---|
| `client` | `TypeOK` | types |
| | `PipelineHeadsQueue` | what is in flight is the head of the queue, in order, within the limit; fresh IDs are larger |
| | `AnswersMatchPipeline` | the answers to come on a stream are those to the pipeline, from its head |
| | `NoWriteLost` | a write is in the queue until the server has committed or refused it |
| | `CallbacksTellTheTruth` | "ok" only of committed writes, an error only of refused ones |
| | `LastWriteWins` | once settled, a document's last own commit is the newest own write |
| | `StreamAssertionsHold` | no assertion of the stream fails; it idles only with nothing to write |
| | `CacheIsServerState` | the cached document is what the server had at its version |
| | `ListShowsDocuments` | the list shows the cache under the own writes, or one held back until watch confirms it |
| | `NothingIsStuck` | with the network on the pipeline is full or has the whole queue, over a started stream; an idle wire means an empty queue |
| | `SettledListIsServers` | own writes settled and watch caught up, the list is the server's, nothing held back |
| | `ImplementsSharedCollection` | the client implements `SharedCollection` |
| | `WritesSettle`, `ListConverges` | every write is settled; the list ends as the server's |

Watch (`WatchTargetProperties`), limbo (`LimboResolutionProperties`), online state
(`OnlineStateProperties`) and `MCDueDate`:

| Run | Property | What it says |
|---|---|---|
| `watch` | `UncutViewIsServers` | a current view has the server's documents as of the last snapshot |
| | `ModifiedAreListed` | the assertion of `ApplyTargetChange`: what is modified was listed |
| | `SettledViewIsServers` | once nothing is on its way, a query listened to is current and has the server's documents |
| | `OutstandingAreCounted` | the count of answers is that of requests and answers on their way |
| | `ListenConverges` | a query listened to ends with the server's documents |
| `watch_stale_token` | `CurrentViewIsServers` | violated |
| `limbo` | `RefsAreLimbo` | the references are the view's limbo documents |
| | `SlotsUsed` | nothing waits while a slot is free |
| | `KeysHaveTargets` | the maps by key and by target agree |
| | `SyncedViewIsServers` | a view in sync shows only the server's documents and own writes |
| | `LookupsGoOn` | a lookup ends only by its document leaving limbo, or with it gone |
| `online` | `AssertionsHold`, `OnlineMeansOpen`, `IdleMeansNoTargets` | assertions; online only over an open stream; idle only without targets |
| | `NeededStreamIsStarted` | with the network on and a target, the stream is started |
| | `WaitingIsTimed` | a wait for the server has its timer running |
| | `WaitingEnds` | the wait for a silent server ends |
| | `ComesOnline` | with a server that answers, the client ends online |
| `due_date` | `DueWithinADay` | a saved row's due date is within a day of the exact quotient, if that is below 2^23 days |

Some of these are stated with an exception, because without it the code breaks them:

- `UncutViewIsServers` is `CurrentViewIsServers` for histories that are not `cut` (as is `SettledViewIsServers`): no listen has
  ended (by an unlisten, a refusal or the process) between a count that did not match and the answer to the
  listen that follows it. `watch_stale_token` shows what a restart there does.
- It, `SettledViewIsServers`, `OutstandingAreCounted` and `ListenConverges` are about histories with refusals or with unlistens
  but not both (`NoRefusalCrossed`): a refusal that crosses an unlisten leaves the count of answers wrong,
  and with more listens than the `watch` run has, messages of an earlier listen can then be taken
  for the present one's.
- `WaitingIsTimed` and `WaitingEnds` are about targets that stay and a network switch left alone: the unlisten
  of the last target cancels the timer of a stream that goes on starting.

`SharedCollection` says nothing of batches, pipelines or streams: writes not settled, a log of
commits, and for each document how far down the log this device has seen. `seen` is the cached
version, so the refinement says that no document is ever shown as older than it was, that
an acknowledged write has been committed and is seen, and that writes settle oldest first,
although answers, snapshots and restarts come in any order.

### Bounds

Two vehicles are needed for anything about order, pairing or IDs; with two, both
lists can be non-empty, and every pair of dates (equal, ordered, past, today, to
come) occurs with days 0 to 2. Six steps suffice for add, add, select, tap, save and one
more touch, or for a double delete after two adds. One fault,
one death and one kill inside a handler can hit any database call of any handler, and any
point between handlers. Three documents let another device, or a document written
again after its delete, stand beside two own ones. `MaxRemote` is 0 where other
devices do not bear on the property.

`converge` has five steps, two deaths and a document of another device; its refinement needs a
working database, so it has no faults and no kills inside handlers.

For the client: `MaxPending` is 10 in the code, and 2 here with three writes, so that the pipeline is full
while the queue is longer, a refill follows a partly settled pipeline and a resend reaches behind a
commit. The second write is a delete (`Deletes`); it may also be the last, since three are a bound. `MaxTroubles` is 2: a
lost stream, a refusal, a death, a stop of the network or another device's write, and then
another of them or the same again, between any two steps. One document: what the properties say of documents they say of
each by itself, except for the order of the queue, and writes to one document are the ones that can be confused.
For a watch target, two documents tell a wrong set from a wrong count; three listens, one
unlisten, one refusal, one lost stream and one death give every order of two
generations of messages. For limbo, one slot and two documents make one wait, and the second
generation of a key needs `MaxEnqueued` 3. The
online state has 16 000 states with three calls of the switch, three failures and two
unlistens. `due_date` takes every pair of small numbers and
numbers at the edges of the columns and of a Float's precision; beyond 2^23 days (a very large distance over a
run of one or two) a Float no longer tells days apart, and the property says nothing.

All these invariants and both refinements are proved for every value of the
bounds (see Proofs), so that for them the runs are there to show that the cases occur, and to
catch a change of the model early.

### Fairness

Of the app:

`GadgetsConverge` uses `FairSpec`: weak fairness of `Worker` (the client's
serial queue runs what is enqueued as long as the process lives) and of
`SnapshotArrives` (the main run loop drains its queue). Nothing is assumed of
users, days, other devices or deaths; the property is about what follows
once they stop, which the bounds make them do.

Of the client:

- `FirestoreClient!FairSpec`: weak fairness of the client's tasks together (the worker queue is
  first in, first out, and its timers go off), of the server's answers together, and of watch
  snapshots. Failures, refusals, deaths, other devices and the app owe nothing, and their bounds
  make failures stop. `WritesSettle` and `ListConverges` are about a process that stays alive
  with its network on.
- `WatchTarget!FairSpec`: weak fairness of reading and reopening, and of serving (a refusal is
  not owed).
- `OnlineState!FairSpec`: the worker queue only; the server owes nothing, so that in `WaitingEnds` the
  timer alone ends the wait. `ComesOnline` assumes a server that opens streams and sends
  messages (`WF_vars(Opens)`, on the left of its implication).

## Findings

1. **An edit can overwrite another vehicle's document** (`AllVehiclesVC.swift:161`).
   Rows sorted by due date and documents sorted by random ID are paired by position.
2. **A failed save is announced as success** (`AddVehiclePresenter.swift:41`).
3. **A reminder ends the running app** (`AllVehiclesVC.swift:90`): the due date is asked
   of a vehicle whose fields are filled in only afterwards.
4. **Saving an edit opened from history ends the app** (`AddVehicleVC.swift:258`).

In the Firestore client the app is built with:

5. **A resume token survives the mismatch that voids it** (`remote_store.cc:310`,
   `local_store.cc:276-300`): the token of the full view is kept on disk beside the emptied keys,
   and a restart before the new listen is answered goes on from it.

Seen while modelling the client, each out of this app's own reach (it neither unlistens nor
is refused, and has fewer documents than the limit of 100 lookups):

- A document that leaves limbo while it waits for a lookup stays in the queue and is looked up all the same
  (`sync_engine.cc:557`; `sync_engine.h:301-302` says of the queue "The keys of documents that are in
  limbo for which we haven't yet started a limbo resolution query."). If it comes back meanwhile it is
  enqueued twice and listened to twice (`sync_engine.cc:548`): the map by key forgets one of the two
  targets, and the limit is passed.
- A mismatch is forgotten when its target is not listened to at the snapshot (`remote_store.cc:302`).
- A target listened to again before its unlisten is answered keeps the "current" of the listen before (`remote_event.cc:88`).
- A refused target forgets what else it is waiting for (`remote_store.cc:343`). When the refusal crosses an
  unlisten, and another refusal follows, a later listen is taken to be answered too early, and a
  view can be said to be current over an earlier listen's documents (18 steps with four listens; found on the way to
  `ViewCorrect`, which is why `UncutViewIsServers` is stated as it is).
- Nothing limits the wait for the server after the last target goes and another comes while the stream is starting (`remote_store.cc:168`).
- A lookup refused while the view is not current leaves its document in limbo with no
  lookup (`LookupsGoOn` allows for it, since the document is gone from the cache).

In the app, without a line of the source that promises otherwise: rows
of the upcoming table that trap when touched or scrolled to
(`TouchMissingRow`, `ScrollToMissingRow`); a first snapshot that does not show
until the next reload; one more listener per appearance; a history delete that
leaves the document; one undecodable document that hides every later snapshot.

## Proofs

Theorems are proved for every value of the constants; what is assumed of those is the named
assumption of each module (finite sets, natural numbers), and one hypothesis, stated in
`AppImplementsVehicleBook`. Every theorem comes from an inductive invariant, by one lemma per
operation and one per action.

### The app

`ServiceBookProofs`:

| Theorem | States |
|---|---|
| `TypeCorrect`, `RemindersCorrect`, `ScreensCorrect`, `KeysCorrect` | `Spec => []` of `TypeOK`, `RemindersMatchVehicles`, `ScreensShowTheTable`, `VehicleIDsUnique` |
| `GadgetsCorrect`, `SettledGadgetsCorrect` | `Spec => []` of `GadgetPerVehicle`, `SettledGadgetsAreDocs` |
| `AppImplementsVehicleBook` | `MaxFaults = 0 /\ MaxTorn = 0 => (Spec => ImplementsVehicleBook)` |

The first four share `ReminderInvariant`, their conjunction. None but the first is inductive alone: an edit
moves the reminder of the row it was shown, so the reminder follows the table only if that row is still in it
(`ScreensShowTheTable`) and is the only one of its ID (`VehicleIDsUnique`, which in
turn needs every ID to have been made before); a delete from history removes no
reminder, which is right only because the list holds past rows. The proofs restate
`RemindersMatchVehicles` row by row (`Matched`).

`GadgetPerVehicle` counts, and a count is not inductive: a second delete of a document already
deleted, or an update of one, must not take a document from another vehicle. `GadgetInvariant` adds what makes
the count right: every document a task, snapshot or screen names has an ID that was taken (`UsedInv`), and
what the queue will leave, run to its end (`Settled`), has distinct documents, at least as many as there
are rows (`SettledInv`). The worker's run is a fold; its lemmas are proved by taking the least
counterexample.

`SettledGadgetsCorrect` needs that a running app has asked for a listener or has one, and that
with one the last snapshot, unread or read, is of the present documents (`HeardInv`).

The refinement needs that the end of a process changes nothing in the book: `BookInvariant` is
`ReminderInvariant` with `context = store`. That is where the hypothesis comes from. With a failing call or
a kill inside a handler table, file and reminders do part (`add_not_stored` is one way), and
`RemindersCorrect` says how far: that theorem has no such hypothesis.

### The due date

`DueDateProofs`: `DueDateCorrect`, `Spec => []DueWithinADay`, for all numbers of at most 24 bits. The invariant is
`DueWithinADay` with the types of the form (`FormInv`); the work is in the arithmetic, which is
on whole numbers throughout.

- A quotient of `n` by `d` on its way to 24 bits keeps `q * d + r = n * 2^e` through every shift
  (`ShiftKeeps`), and at most eight shifts of six and five of one bring it there, whatever `n`
  and `d` are (`SixesKeep`, `OnesKeep`, `ScaledKeeps`).
- Rounding then leaves it within half a unit of the exact quotient (`RoundedNear`, `QuotientNear`), also
  when it rounds up to a 25th bit.
- Two such quotients, one divided by the other, are off by less than a day as long as the
  exact result is below 2^23 (`WithinOne`, `DaysClose`): here both errors count, one in the
  divisor.

The provers do not know `2^k` for a variable `k`; the function `Powers` stands for it, whose existence and
laws are lemmas by the least counterexample.

### The client's writes

| Module | Theorem | States |
|---|---|---|
| `FirestoreClientProofs` | `TypeCorrect`, `PipelineCorrect`, `StreamAssertionsCorrect`, `AnswersCorrect` | `TypeOK`, `PipelineHeadsQueue`, `StreamAssertionsHold`, `AnswersMatchPipeline` |
| | `NothingStuckCorrect` | `NothingIsStuck` |
| `FirestoreWritesProofs` | `NoWriteIsLost`, `CallbacksCorrect`, `LastWriteWinsCorrect` | `NoWriteLost`, `CallbacksTellTheTruth`, `LastWriteWins` |
| | `CacheCorrect`, `ListCorrect`, `SettledListCorrect` | `CacheIsServerState`, `ListShowsDocuments`, `SettledListIsServers` |
| | `ClientImplementsSharedCollection` | `Spec => ImplementsSharedCollection` |

Three invariants, each the one before and more:

- `IInv`: types, and that the queue holds the newest writes in order, with the pipeline as its head
  (`QueueInv`); the stages of a stream, with the handshake before anything else (`WireInv`); and that
  answers and requests on the wire are together the pipeline, only the last answer a refusal
  (`AnswersInv`). Answers name no write, so this is what gives each to its own.
- `WInv`: with the server's log (`LogInv`). A write that is sent again is committed again, so
  what is kept of a write is that some commit of it has no older own write after it (`LastOf`); every
  answer on the wire is one of those or a refusal, and so is every write that has left the queue.
  `CallbackInv` ties callbacks to batches and the app's outcomes to the log.
- `CInv`: a cached document is the server's at its version, not older than what watch has passed, and one that
  waits for watch is at an own commit not passed yet (`CacheInv`). So none waits once watch has come to the
  last commit, which is `SettledListCorrect`.

`NothingStuckCorrect` rests on `IInv` and `SuppliedInv`: whatever changes queue, pipeline or stream ends with a
refill or with a restart of the stream that looks at the pipeline.

The refinement maps `seen` to the cached versions: an acknowledgement is the abstract step that
settles the oldest write, a snapshot the one that raises `seen`, and everything about batches, pipelines,
streams and restarts a stutter. `StreamProofs` has the lemmas on a stream's calls that this and `OnlineStateProofs`
rest on (`StreamInv`).

### Watch, limbo, online state

| Module | Theorem | States |
|---|---|---|
| `WatchTargetProofs` | `AnswersAreCounted`, `ModifiedCorrect`, `ViewCorrect`, `SettledViewCorrect` | `OutstandingAreCounted`, `ModifiedAreListed`, `UncutViewIsServers`, `SettledViewIsServers` |
| `LimboResolutionProofs` | `RefsAreLimboCorrect`, `SlotsUsedCorrect`, `KeysHaveTargetsCorrect`, `SyncedViewCorrect` | the invariants of those names, `SyncedViewIsServers` |
| | `LookupsGoOnCorrect` | `Spec => LookupsGoOn`, an action property |
| `OnlineStateProofs` | `AssertionsCorrect`, `OnlineCorrect`, `IdleCorrect` | `AssertionsHold`, `OnlineMeansOpen`, `IdleMeansNoTargets` |
| | `NeededStreamCorrect`, `WaitingIsTimedCorrect` | `NeededStreamIsStarted`, `WaitingIsTimed` |

`WatchTargetProofs`. `IInv` has the count of answers (`OutstandingAreCounted`), what keeps it right (nothing is on its way
without a stream; without unlistens a refusal is the last thing to come) and that what is called modified is in the query.
That a current view is the server's is about messages not yet read: `Course(ms, a, b)` says that
messages `ms`, read by a client with documents `a`, lead it to `b`, a count standing only where it cannot match,
just before a snapshot. `ViewInv` says that the token is for the view's documents (`TokenInv`); that a
target with no answer to come is on course to the server's documents (`FollowsInv`); that the last
request asks to go on from the view's documents (`AsksInv`), and the last answer, once served, starts a
course from them (`AnswerInv`); and that a mismatch is found in such a target only, leaves it with nothing,
and has the snapshot next (`MismatchInv`). All of it is under `Uncut`; only that changes are
relative to the last snapshot (`RelativeInv`) always holds. `SettledViewCorrect` adds that nothing is forgotten: what
the server has sent ends with something that brings `current` (`SentInv`), and a target that has read all of it, with no
request left, is `current` at the server's documents (`DoneInv`).

`LimboResolutionProofs`. `LInv` says that limbo is what the current view makes of it (`ViewInv`), that the
references are the limbo documents, and of the four containers that they are well formed and no slot is free while a
document waits (`Pumped`). It is broken inside a loop and restored by the pump; so the lemmas say what one
round keeps, and then what the loop keeps, by taking the least round that does not.

`OnlineStateProofs`. `IInv` is the stream's own invariant (`StreamInv`), the
tracker's (`TrackerInv`: the timer runs only in Unknown with no failure counted) and
`Linked`, which is why either keeps its assertions: the timer runs only while a stream is
started, so the start of another never finds it running, and online is said only of an open
stream, so its failure finds neither timer nor failures. `TimedInv`, on top of it, says that a failure
counted has been reported as Offline, and that before any unlisten or second use of the switch a
stream is started only with a target, so that its timer was set when the wait began.

### Checking them

    for m in ServiceBookProofs DueDateProofs StreamProofs FirestoreClientProofs \
             FirestoreWritesProofs WatchTargetProofs LimboResolutionProofs OnlineStateProofs
    do tlapm $m.tla; done

### Left to TLC

Liveness under fairness, which is beyond this prover: `GadgetsConverge`, `WritesSettle`, `ListConverges`,
`ListenConverges`, `WaitingEnds`, `ComesOnline`. What of them is safety is proved: that nothing is owed any more only
when the state is the promised one (`SettledGadgetsAreDocs`, `SettledListIsServers`,
`SettledViewIsServers`), and that whatever waits has something started or running that will end the
wait (`NothingIsStuck`, `NeededStreamIsStarted`, `WaitingIsTimed`). Left to the runs is that what is
started or queued is in fact done.

## Plan

What is next, the most consequential first:

1. `EventManager` and `QueryListener`: several listeners of one query, from-cache and online
   changes, in place of the Boolean `listening`.
2. Several targets in one aggregator: documents shared by targets, and limbo worked out in
   `CreateRemoteEvent`; with them, `WatchTarget` implementing the watch that `FirestoreClient` takes for granted (a
   snapshot is never behind the last one).
3. That `GadgetService` implements `SharedCollection`, as `FirestoreClient` does.

## Not modelled

- Cells, images and stub screens: layout, no state.
- `deleteAllRecords`, which nothing calls; a store that fails to load at launch.
- Of the Firestore client: transactions, batches of several mutations, patches and preconditions, a change
  of user, several queries, limits and filters, and what only saves time or space (backoff
  lengths, the throttle on token writes, garbage collection). The app uses none of the first, and
  the rest changes nothing it can tell.
- Conversion to and from the wire and disk formats, and the libraries below (gRPC-Core,
  BoringSSL, abseil, leveldb, nanopb): vendored third-party code that the app reaches only
  through the client. They are over nine tenths of the repository's lines, so the
  share of all lines that `PROJECT.json` maps stays small however much of the app and the client is
  modelled; of the app's own logic, and of the client's files that carry it, most is mapped.
