# FamilyNight in TLA+

FamilyNight is an iOS app in which a family plans events. It keeps the events
in a list in memory, writes the list to a JSON file, publishes each event to a
Firestore collection, shares events by Firebase dynamic links and proposes
ideas for the next one. The app's own code is about 1400 lines of Swift under
`src/FamilyNight/FamilyNight/`; everything under `src/FamilyNight/Pods/` is
vendored. There are no tests.

This directory holds TLA+ modules for the parts of the app that keep state,
TLC configurations that check them on small instances, and TLAPS proofs of the
main safety properties for every instance.

    tlc -config FamilyNight_paths.cfg MCFamilyNight.tla
    tlapm FamilyNightProofs.tla

## 1. Inventory

### Components

| Component | State | Operations |
|---|---|---|
| `EventController` (Controllers/Model Controllers) | the list `events`, `eventDynamicLink`, the file `FamilyNight.json` | create, update, delete, load, save, `fetchEventWith`, (unused) `fetchEvents` |
| `Event` (Models) | five fields and an id; a *class*, equal by id | - |
| Event list screen (`EventViewController`) | the rows its table shows | load on appearing, tap a row, delete a row |
| Planner screen (`PlannerViewController`) | the `event` being edited, the form, an alert | save, create/share, add to calendar, ideas, suggestions, leave |
| Help screen | unfolded rows | open, leave |
| `AppDelegate`, `SceneDelegate` | - | receive a dynamic link, fetch its event |
| Ideas (Helper and Extension/Ideas.swift) | a global list that shrinks | draw, draw again, use |
| Firestore client (vendored) | worker queue, durable mutation queue, pipeline, write stream with its timers | set, delete; fill the pipeline, handshake, send, acknowledge, reject, back off, stop when idle, restart |
| Calendar (EventKit, external) | the user's permission, the calendar's entries | ask for access, run the planner's block |
| Dynamic-link library (vendored) | whether the first-launch link was fetched | deliver the deferred link once per installation: one fact, the variable `link` |
| Calendar screen, styles, date format, persistence helper | none that matters | - |

### How they interact

* The view controllers call `EventController.shared` on the main thread; each
  call runs to its end before anything else does.
* `EventController` calls Firestore, which only enqueues on a worker queue, and
  then writes the file synchronously. No call passes a completion block, so
  the app never learns how a write of a document ended.
* An `Event` is shared *by reference* between the list and the planner.
  Loading the file replaces the list by new objects; the planner may go on
  holding an old one.
* The list screen dispatches its load asynchronously from `viewWillAppear`, so
  it runs after the transition has begun, and also when an interactive
  transition is abandoned.
* Exporting an event to the calendar hands a block to EventKit, which runs it on a
  queue of its own when the user has answered its question. The block keeps the
  planner, and reads the planner's event field by field.
* A dynamic link makes `fetchEventWith` run a query, and, without waiting for
  the answer, load the file.

### What is hard, and what makes each component correct

| Component | Hard behaviour | Correct means |
|---|---|---|
| Firestore client | writes sent several at a time, streams that break after the server has committed, the process dying between queue and disk | resending never takes an older document back into view; the newest write arrives |
| Write stream | late credentials, an idle timer, back-off, changes of the network, a refusal that overtakes results | its assertions hold; it is never stopped while needed; it is the in-order queue that its users see |
| Calendar export | a block that runs beside the main thread and outlives its planner | the entry is one state of the event; what is announced is added |
| EventController | loads at any time, detached objects, a save whose two halves can be separated by a death, a file write that can be torn | ids stay unique in list and file; the list is what the file says; a save touches one event; list and document part for a named cause only |
| Screens | a table whose row count is a copy of the list's length; an alert that announces a save | no trap; what is announced is on disk; the screens use the controller as it expects |
| Whole app | two stores written one after the other | it behaves as a book of events; documents follow the list |
| Links | an answer that nobody waits for | a success names the event that was asked for |
| Ideas | a list that only shrinks | nothing repeated; a tap is always answered |

The hazards of the code, line by line, are in `PROJECT.json` with the
properties that cover them.

## 2. Modules

| Module | What it is |
|---|---|
| `FirestoreClient` | the write path of the Firestore client and the server's documents, as the app sees it |
| `WritePipeline` | the pipeline and the write stream that implement it; extends `FirestoreClient` |
| `EventController` | the list, the heap of `Event` objects, the file, the calls; extends `FirestoreClient` |
| `FamilyNight` | the screens, the alerts and the link on top of `EventController`: the whole app |
| `CalendarExport` | the calendar's block beside the app; extends `FamilyNight` |
| `EventBook` | the abstract specification: a book of events and receipts for saved ones |
| `Ideas` | the list of ideas and its alert |
| `MC...` | small instances and symmetry for TLC |
| `DataLemmas` | lemmas on `Min`, `Max`, `RemoveAt`, concatenation |
| `FirestoreClientProofs`, `WritePipelineProofs`, `EventControllerProofs`, `FamilyNightProofs`, `CalendarExportProofs`, `StoresProofs`, `IdeasProofs` | the theorems |

`EventController` *extends* `FirestoreClient`: its operations conjoin the
client's `Enqueue` and leave the client's other variables alone; the client's
own steps are `Network`. `FamilyNight` extends `EventController` in the same
way: a button's action conjoins the controller's operation with what happens to
the screen. `EventController` instantiates `EventBook` with a refinement mapping
that leaves receipts out (`KeepsTheBook`), `FamilyNight` with one that has them
(`ImplementsBook`).
`CalendarExport` takes the app's steps apart: `Screens` may happen at any time
beside the block, `ChooseCalendar` and `ExportEnds` are conjoined with the block's
first and last step. There are two refinements: `WritePipeline` implements
`FirestoreClient` (it keeps its variables, so no mapping is needed), and `FamilyNight`
implements `EventBook` (as `EventController` does for any callers, without receipts).

### FirestoreClient

`handoff` is the worker queue (lost with the process), `batches` the mutation
queue in LevelDB (kept), `sent` how many of its batches the server took on the
open stream, `collection` the server's documents. One action each for the
app's call, making it durable, the server's commit, its answer, a broken
stream, a refusal and the end of the process. The resend after a restart is
`sent' = 0`: the next commits apply the same batches again. `View` is what the
client's reads would return: the newest pending mutation, or the server's
document. The app's install is the only writer of the documents it owns (an id
is a fresh UUID, and nothing in the app changes another install's document), so the
server's documents stand for the client's cache of them.

A mutation that came from `setData(merge: true)` is modelled as a plain set:
both calls name the same five fields and nobody else writes any other.

### WritePipeline

The same four variables, and what is behind them: `pipeline`
(`RemoteStore.write_pipeline_`, at most `MaxPipeline` batches), `stream`
(`Stream.state_`), `handshake`, the idle timer, the credentials that were asked for
(`asked`) and those that a stream asked for that has been closed since (`stale`,
what the comparison of close counts in `RequestCredentials` is for), the writes on the wire
(`toServer`), and whether the server has ended the stream with a permanent error
(`refusal`). `sent` counts the results on their way back. Each operation that the worker
queue runs to its end is one action; `FillWritePipeline`, which most of them
end with, refills the pipeline from the queue, sets or cancels the timer and starts
the stream if it is needed.

What is taken from the environment:

* The server ends a stream with an error only. An end without one, with writes in the
  pipeline, would trip the assertion of `OnWriteStreamClose`
  (remote_store.cc:456).
* A stream that has broken is dead: the server commits nothing that it still
  had on it. A write that was committed and not yet answered is committed again.
* Getting credentials does not fail: the app never signs in, so the empty
  provider answers at once.
* When a call ends, results that have arrived but have not been read may be cancelled
  (grpc_stream.cc:232-253), so a refusal may come before them. The batch at the
  front of the pipeline is then dropped as the refused one, although the server
  may have executed it and refused a later one.

An acknowledged or refused batch is removed from the front of the queue
(`Tail`): the code removes it by its id, and that it is at the front is what
`SentIsApplied` and the proof's `pipeline = Window(batches)` establish.

### EventController

`heap` maps live objects to records of an id and a content (the five fields as
one value), `events` is a sequence of objects, `held` is the set of objects that callers
refer to. An object referred to by neither is freed (`Alive`). `file` is the
sequence of records saved, or `NoFile`, or `Torn`: half an encoding, which
`JSONDecoder` refuses. `loadFromPersistenceStore` makes *new* objects, which
is how the planner's object can stop being the list's.

An operation is one action, with a parameter `out` that says how its save
ends: `ok`, `ioError` and `tornError` (the error is printed and forgotten), or
the process dies before, in, or after the write (`earlyKill`, `tornKill`,
`lateKill`). When it dies, any prefix of the calls that were still in the
worker queue may have become durable. `Kill` is a death between operations.

`fetchReturns` follows the completion block: the documents whose *field* `id`
equals the id are put in `eventDynamicLink`, and the block answers `true`
however many there were. `DocFields` lists the fields the two set calls write;
`id` is not one of them.

### FamilyNight

`screen`, `editing`, `form`, `alert` and `rows` are the state of the two view
controllers; `exporting` is the event of the planner that the calendar's block keeps; `appearing` says that the block that `viewWillAppear` dispatches is
on the main queue; `link` is the event of a deferred link not yet delivered;
`trapped` that a runtime error was raised (an index out of range, or
UITableView's consistency exception), after which the process ends (`Crash`).

Facts about UIKit the model takes as given: touches are ignored while a
transition runs and below an alert (`Interactive`); the delegate's window is
nil in an app with a scene manifest, so the planner that the link's answer would
push is never on the screen; the open-url handler is called by the link library
alone.

`Paths` names three paths that runs may allow: a swipe back that is given up
(`cancelledSwipe`), a deferred link (`link`) and the calendar (`calendar`). On the
first, `SaveHonoured` fails, which has a run of its own; on both of the first two
the list may be loaded behind the planner. "The usual paths" below are those without
them.

`EventController.events` is read by the list screen at each use; the copy that
the screen keeps in a property of its own is never read and is left out.

### CalendarExport

`access` is the permission that iOS keeps, `block` what the completion block is doing,
`copied` the contents it has read so far, `agenda` the entries it has saved; `chosen`
remembers the content at the moment the user chose to export, for the
properties only. The block reads one field per step (`ReadField`), and any step
of the app may come between two reads. While the system's question is on the screen the
app's own alert under it cannot be answered (`Prompting`). A second export cannot begin while a
block is there: a bound. The block ends with the process.

### EventBook

What the user may rely on: a set of events with contents, changed by adding,
amending or removing *one* entry, never resurrecting one (an id is used once),
and a receipt, which is only given for what the book holds. An addition over
which the app dies may be lost (`Lose`), nothing else.

### Ideas

`ideas` is the global list, `offered` the history of what was shown since the
process started, `trapped` that `remove(at:)` was called on an empty list.
`arc4random_uniform(0)` is 0, so the draw from an empty list has an index.

## 3. Runs

"Bounds" are the constants of the cfg. Everything else is exhaustive.

| Run | Question | Answer |
|---|---|---|
| `pipeline` | with broken streams, refusals, late credentials, idle stops, changes of the network and deaths: do the code's assertions hold, is the pipeline the in-order queue of `FirestoreClient`, does it deliver? | `PipelineTypeOK`, `AssertionsHold`, `NeverForgotten`, `SentIsApplied`, `ViewIsStable`, `ImplementsClient` hold, and a write leaves the queue only when the server has executed or refused that very write (`LeavesDecided`); under the fairness below `DeliversAsClient` and `Published` too |
| `controller_kills` | any callers, loads at any time, deaths at any point of a save, refusals | `TypeOK`, `UniqueIds`, `Mirror`, `SavesOneEvent` hold, a deleted event never comes back (`NeverReturns`), and document and file part only by a death, a refusal or an object that the list has lost, for no event that these do not concern (`SplitsOneEvent`) |
| `app_paths` | on every path, those included that leave the planner with an object the list has lost, with deaths before or after each write of the file | the table is the list, although a link may load behind it (`TableMatchesList`), nothing traps (`NeverTraps`), `AppTypeOK` holds, and the file stays the book, without receipts (`KeepsTheBook`) |
| `app_cloud` | without faults, do documents follow the list and reach the server? | `CloudMatchesList` and, under fairness, `EventuallyPublished` hold |
| `app_faults` | with every fault, a link, a given-up swipe, traps included | although a failed write can leave more events in the list than the table has rows, and the next deletion then raises, no row ever lacks its event (`RowsHaveEvents`); a torn file costs nothing while the process lives (`TornIsRepaired`); the app is one of the controller's callers throughout (`UsesController`) |
| `calendar` | while the block reads beside the main thread, with deaths anywhere: is the entry one state of the event, is it added? and is the app, on its usual paths, the book that `EventBook` specifies, receipts included? is what it offers for sharing what the file has? | `CalendarTypeOK`, `EntryWasTheEvent`, `ImplementsBook`, `SaveHonoured`, `OfferIsSaved` and, under fairness, `GrantedIsAdded` hold |
| `ideas_once` | is an idea lost or offered twice, does a draw trap too early? | `EachEntryOnce`, `TrapsOnlyWhenOut` hold |
| `saved_alert_swipe` | is an announced save on disk after a swipe back that was given up? | **no** (finding 1) |
| `saved_alert_disk` | is it when the disk refuses the write? | **no** (finding 2) |
| `link_not_found` | does a successful answer name the linked event? | **no** (finding 3) |
| `calendar_announced` | is an event added that is announced as added? | **no** (finding 5) |
| `ideas_every_tap` | is every tap answered by an idea? | **no** (finding 4) |

What some of these say, and what they do not:

* `OfferIsSaved` is about the offer itself: the event whose id the link carries is the
  file's entry for it, and with a title it is what the form shows. With an empty title
  Create saves nothing, so the offer is about the event as it was saved before while the
  form shows something else. By `CloudMatchesList` and
  `EventuallyPublished` its document reaches the server when nothing fails; that whoever
  gets the link finds it there is false (`link_not_found`).
* `TornIsRepaired` holds while the process lives. A death with the file torn loses
  the list: the next process cannot read the file, starts with no events and overwrites
  the rest with its first save. `Mirror`, `UniqueIds` and `RowsHaveEvents` hold of the empty list too,
  so they say nothing of this; nothing in the code prevents it.
* `SplitsOneEvent` says for what causes, and for which events, the two stores part, not
  that they meet again: the calls have no completion block, so a refused or lost write
  leaves its document behind the list until the event is saved again. It is stated where no
  write of the file fails and for steps that do not tear it; a death in a save may part the event in hand and those whose calls
  still waited for the worker queue.
* `FirestoreClient` may refuse its oldest write at any time, which is more than
  the code does, so `ImplementsClient` does not show that the right write
  is dropped. `LeavesDecided` does: when a refusal has overtaken results, the
  batch that is taken for the refused one had been executed, and the refused one
  is sent again.

### Bounds, and why they are enough

* Two ids of this install and one foreign id. One event to be changed and one
  that must not be is the least that can show a wrong entry being changed,
  removed or overwritten; the foreign one is what a link names.
* Three objects in `controller_kills`: a list of two and one held by a caller but no
  longer in the list, the situation after a load. Four in the app: the calendar's
  block may hold one more. `NewObjects` takes one representative
  placement of new objects; which objects they are can be seen by no operation.
* Two contents, and in the app an empty form as well: old and new. `app_faults` has one
  beside the empty form, since what it asks about is ids, numbers of rows and objects, which no
  content decides.
* `MaxPending` 1 to 4 writes that the server has not answered. In `pipeline` four
  writes and a pipeline of two (10 in the code, `kMaxPendingWrites`): the
  pipeline is full with two more waiting behind it, so that a refill finds
  some, all or nothing. One document and two contents are enough there, because
  only the order of the writes of one document can be told. In
  the runs about the list and the screens one write is enough, because no
  operation there reads the queue; `app_cloud` has two. `controller_kills` has one, which for
  `SplitsOneEvent` means one call lost with the process; the theorem is for any number.
* `MaxStale` 2 outdated credentials still to come, one more than needed to be confused
  with those that are waited for.
* `Fields` 2 for the calendar's block, the first and the last that it reads:
  if any two of the five reads could differ, a run with two reads has it
  too, since any number of steps may come between them. `MaxEntries` 1: the block of
  each export is new, and the one before it is gone.
* `MaxFetches` 1 link query waiting: a link is delivered once per installation.
* Symmetry on the own ids and on the contents in the runs that check safety
  only; none with liveness.

`Room`, `MaxFetches`, `MaxStale` and `MaxEntries` are guards that the code does not have: while a bound
is reached the user cannot act, and the client's own steps go on. TLC's deadlock
check is on in every run.

### Fairness

Stated only where liveness is checked.

* `FirestoreClient`, and with it `app_cloud`: `WriteLocally` (the worker queue is
  served) and `ServerCommit` (the client sends whenever it has something to send
  and a server is reachable) are weakly fair. `AcknowledgeBatch` is strongly
  fair: a stream may break any number of times before the answer, so the answer
  is not continuously enabled, but not forever; the client's exponential back-off
  retries without limit.
* `pipeline` does not assume these but derives them: `DeliversAsClient` is
  `FirestoreSpec` with its fairness. Assumed are the worker queue's own steps and timers (weakly fair) and, strongly, each
  step that a broken connection may prevent any number of times but not always:
  credentials, the handshake, the server's commit, the reading of a result.
* In the app the client's steps are fair while the process runs, and so is the block on the main
  queue; nothing is assumed of the user.
* `calendar`: the system's question is answered in the end, since it cannot be left
  otherwise, and EventKit runs the block it was given.

### Findings

1. *A save is announced that never reaches the list or the file.* Beginning to
   swipe back from the planner makes the list load the file. When the swipe is
   given up the planner edits an object the list no longer has; saving it
   publishes the new content, writes the *old* list to the file and says "Your
   event has been saved successfully".
2. *A failed write is announced as a save.* `saveToPersistenceStore` prints the
   error and returns nothing.
3. *A link's event is never found, and the failure is never reported.* The
   query asks for a document field that no code writes, and its completion
   block runs with `true` for an empty result.
4. *The button for ideas ends the app after the last idea.* The list of ideas
   loses every idea it shows and is not refilled; drawing from the empty list traps.

5. *An event is announced as added to the calendar that never is.* The alert is
   presented before access is asked for; when access is denied the block only
   prints.

## 4. Proofs

Checked by `tlapm` for every set of ids, contents and objects, every bound and
every set of faults. The assumptions are the named `ASSUME`s of the modules: that
`NoDoc`, `NoFile`, `Torn` and `None` differ from the values they stand beside,
that the bounds are numbers (`MaxPipeline` and `Fields` at least 1), that foreign ids are ids, that the empty form
is an untitled content and that the list of ideas is a sequence.

| Theorem | Statement |
|---|---|
| `FirestoreTypeCorrect` | `FirestoreSpec => []FirestoreTypeOK` |
| `SentIsAppliedAlways` | `FirestoreSpec => []SentIsApplied` |
| `ViewStable` | `FirestoreSpec => ViewIsStable` |
| `PipelineTypeCorrect`, `AssertionsAlways`, `NeverForgottenAlways` | `PipelineSpec => []PipelineTypeOK`, `[]AssertionsHold`, `[]NeverForgotten` |
| `PipelineSentIsApplied` | `PipelineSpec => []SentIsApplied /\ ViewIsStable` |
| `LeavesDecidedAlways` | `PipelineSpec => LeavesDecided` |
| `PipelineRefines` | `PipelineSpec => ImplementsClient` |
| `TypeCorrect`, `UniqueIdsAlways`, `MirrorAlways` | `Spec => []TypeOK`, `[]UniqueIds`, `[]Mirror` |
| `SavesOne` | `Spec => SavesOneEvent` |
| `AppTypeCorrect`, `AppUniqueIds`, `EveryRowHasEvent` | `AppSpec => []AppTypeOK`, `[]UniqueIds`, `[]RowsHaveEvents` |
| `TableMatches` | `AppSpec => [](WritesComplete => TableMatchesList)` |
| `ControllerClient`, `AppClient` | `Spec => []SentIsApplied /\ ViewIsStable`, and the same of `AppSpec` |
| `NeverReturnsAlways`, `AppNeverReturns` | `Spec => NeverReturns`, `AppSpec => NeverReturns` |
| `ControllerKeepsTheBook`, `AppKeepsTheBook` | `Spec => KeepsTheBook`, `AppSpec => KeepsTheBook`, where no write of the file fails or is torn |
| `TornIsRepairedAlways`, `AppTornIsRepaired` | `Spec => TornIsRepaired`, `AppSpec => TornIsRepaired` |
| `SplitsOneAlways`, `AppSplitsOne` | `Spec => SplitsOneEvent`, `AppSpec => SplitsOneEvent` |
| `NeverTrapsAlways` | `AppSpec => []NeverTraps` |
| `AppIsController` | `AppSpec => UsesController`, where no write of the file fails or the process may be killed anyway |
| `SaveHonouredAlways` | `AppSpec => []SaveHonoured`, on the usual paths, where no write of the file fails |
| `OfferIsSavedAlways` | `AppSpec => []OfferIsSaved`, on the usual paths, where no write of the file fails or is torn |
| `AppIsBook` | `AppSpec => ImplementsBook`, on the usual paths, where no write of the file fails or is torn |
| `CloudMatchesListAlways` | `AppSpec => []CloudMatchesList`, on the usual paths without faults (of the calendar excepted) |
| `CalendarIsApp` | `CalendarSpec => AppSpec` |
| `CalendarTypeCorrect`, `EntriesAreEvents` | `CalendarSpec => []CalendarTypeOK`, `[]EntryWasTheEvent` |
| `EachEntryOnceAlways`, `TrapsOnlyWhenOutAlways` | `IdeaSpec => []EachEntryOnce`, `[]TrapsOnlyWhenOut` |

**FirestoreClient.** `SentIsApplied` is inductive with the type invariant: a
commit adds the document that it writes, an answer removes the oldest of the
writes the invariant speaks of, and wherever the stream ends it speaks of none.
`ViewIsStable` follows from it: the only step that could change the view is the
answer that takes the last pending write of a document out of the queue, and
`SentIsApplied` says the server's document already has its content. Both are proved
once for any step that leaves the stream alone, is the client's own, or ends the
stream (`StreamStep`); a step of the controller and of the app, a death in the middle of an
operation included, is one of these, which gives `ControllerClient` and `AppClient`. The lemmas
on `Max` of a bounded set and on the tail of a concatenation carry the index
arithmetic.

**WritePipeline.** The strengthening is that the pipeline is always filled: it is the
first `MaxPipeline` batches of the queue (`Window(batches)`), and on a stream past its handshake the
results on their way and the writes on their way together are the pipeline. With
it the front of the pipeline that an answer removes is the front of the queue, and what the
server takes next is `batches[sent + 1]`, which is `FirestoreClient`'s
`ServerCommit`. `LeavesDecided` is the same fact seen from the queue: at a refusal either results
are on their way, so the front was executed, or none are, and the front is the first write on the wire. The properties of `FirestoreClient` then hold of the pipeline by
its own theorems.

**EventController.** `UniqueIds` and `Mirror` are not inductive. A new event
gets an id outside `usedIds`, so `IInv` adds that every id in the heap (a
detached object's too, since it can be deleted or saved again) and in the file
is in `usedIds` (`IdsUsed`), and that a process that starts, starts with nothing (`Off`). The
proof has one lemma for the way operations end by saving (`SaveKeepsIInv`,
which covers completed, failed, torn and interrupted saves at once), one for loading
(`LoadKeepsIInv`), one for deaths, and then one for each operation, which only
has to show that the list it leaves has distinct ids in use. `delete` needs
that removing position `Min(IndicesOf(o))` shifts the rest without merging
entries; `create` that the appended id is new. `SavesOne` then compares the two
files entry by entry, using `Mirror` to know that the file before was the list.

**FamilyNight.** `AppStepIsControllerStep` shows that each of the app's actions
is a step of the controller or leaves it alone, except that the crash is the
death of the process; so `IInv` is kept by the app. `UITypeOK` adds
that the planner holds exactly the object it edits, and `TableInv` that an alert is
only ever above the planner and that the touchable table has as many rows as
the list. The step that could break this is a link's load behind the table;
`Mirror` before and after it gives lists of the same length. Where writes fail,
the list and the file part, but rows are only ever fewer than either: the file
that a load may bring is always as long as the touchable table (`RowsInv`).

`NeverTraps` rests on both halves: `TableMatchesList` for the row before the deletion, and
`UniqueIds` for the list after it, since the event that `delete` finds by its id is
the one at the row and no other goes with it (`DeletionShortens`). So where no write of the
file fails the crash never happens and `AppIsController` needs no death to stand for it.

On the usual paths the planner's object is in the list (`EditsTheList`): nothing
loads the file while a planner is open. With `Mirror` and `UniqueIds` this gives
`SaveHonoured`: the file's one entry for the event holds the form. `AboutForm` says when the
planner's object holds what the form shows (at an alert, and with a title); with it
the same lemma, `EditedIsSaved`, gives `OfferIsSaved`.

**StoresProofs: list, file and documents.** `Agree` says that what the file has for an event, the client's view of its
document has too. A save without faults makes one call and changes in the file
what the call says (`CreatedRecs`, `UpdatedRecs`, `DeletedRecs`: which records
the new file has); the call shows at once in the view of its document and in no other (`EnqueueShows`), and
the client's own steps leave the view alone, which is `ViewIsStable` again. The hypotheses
are needed: a lost save on another path, a death between the two writes or a refusal makes
the stores differ for good.

**StoresProofs: the book.** The same three lemmas on records, with deaths: a save keeps what it is
given, or keeps nothing and the process is gone. In the first case the book of the
file has one entry written or removed (`EntryWritten`, `EntryRemoved`), in the
second the step is `Lose` or `PutAway`. `AppIsBook` needs the usual paths because it claims the
receipts. Without them the file is a book for any callers: a save of an object that the
list has lost writes the list as it was (`UpdateSavesRecs`), which is no change.

**StoresProofs: nothing returns.** For `NeverReturns` each operation that saves is shown to leave in list and file
only records that were there, and at most one of the object in hand if the list has it, or of an id never used
before; a load moves what the file has (`StepCases`). It is proved with every fault, torn
writes included, and holds of the app by its steps being the controller's.

**StoresProofs: torn files.** While the file is torn a load reads nothing and leaves the list
as it is, and an operation that does not save leaves it too. One that saves
writes the whole list, of which `delete` alone has taken something, and by
`UniqueIds` that is one id. This needs no hypothesis on the faults.

**StoresProofs: why the stores part.** `StepParts` goes through the steps that touch either store. A save that
completes puts the same content of one event in both; one that is cut short by a
death changes the views of the event in hand and of the calls that were lost
(`DropKeepsView`); an answer changes no view, and a refusal that of the refused
document alone (`RejectKeepsOthers`), both by `SentIsApplied`. The
save of an object that the list has lost changes the document only, which is the
remaining cause.

**CalendarExport.** The block reads without a lock. `Private` says why that is safe: the planner
that exports is still below its alert, or the list is about to load, or neither
the list nor the planner on the screen has the object, because a load puts new
objects in the list. Where a write of the file fails this still holds for the
heap but the theorem does not claim it: a load from a file that is missing or torn
leaves the old objects in the list. `CalendarIsApp` says that taking the app's steps apart adds
none: forgetting the block, every step is one of `AppNext`. What is proved of `AppSpec` therefore holds
beside the calendar's queue.

**Ideas.** A title's number of occurrences is the cardinality of the set of its places.
Removing an element shifts the places behind it, which is a bijection (`PlacesOfRemoveAt`),
so a draw takes one occurrence from the list and adds one to what was offered. The
strengthening is that a trap finds the list empty; `TrapsOnlyWhenOut` follows with
`EachEntryOnce`.

`IInv` was checked with TLC on the instance of `controller_kills` before it
was proved.

### Only model-checked

* Liveness (`Published`, `DeliversAsClient`, `EventuallyPublished`, `GrantedIsAdded`): it
  rests on fairness, which this prover does not handle.
* The five properties that the code violates: their runs show it.

## 5. Not modelled

* `fetchEvents` (EventController.swift:64-92), a snapshot listener that would replace the
  list: nothing in the program calls it, so a model would need a caller that nobody wrote.
* The Maps buttons and location services: they read CoreLocation's last location and
  permission and open Maps; no state of the app depends on them, and the delegate methods that
  would react to a change (PlannerViewController.swift:454-466) are in a private
  extension and never called.
* How the link of an event is made and shortened, and the text that goes with it: a URL without a choice.
  What the app does with a link it receives is in `FamilyNight`; how often and when the link
  library delivers it is its variable `link`. The delegate's `continue
  userActivity` handler is private and has no caller.
* Which rows of the help page are unfolded; colours, borders, date formats.
* `CalendarViewController` and `Persistence.swift`: unused.
* The rest of the vendored code, which is nearly all of the repository: listens,
  transactions and garbage collection of the Firestore client, authentication,
  gRPC, BoringSSL, LevelDB. The app reaches none of it except through the
  write path and the one query, whose part in the app is what the modules above have.
* A second device: this install's model has other installs' events (`Foreign`)
  and no steps for them, since nothing they do changes this app's state.
* Two exports to the calendar at once: the bound of one block. Blocks share nothing but the
  event store, whose saves are atomic.

## 6. Plan

Done, in this order: `FirestoreClient`, `EventController`, `FamilyNight` with
`EventBook`, `Ideas`; the proofs of the client, the controller and the app's
invariant; `WritePipeline` and its refinement; `CalendarExport`; the proofs of
the app's remaining safety properties and of its refinement of `EventBook`; the book for any
callers and on every path, that nothing deleted returns and nothing traps, what a torn file
costs and for what causes the two stores part, the client's
promises inside the app, the app beside the calendar, and `Ideas`.

Next, by importance:

1. The query of `fetchEventWith` below the app: that its one answer comes from the server or, without a
   connection, from the cache, and that the cache keeps `View`.
2. Two exports at once.
