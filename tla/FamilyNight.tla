---------------------------- MODULE FamilyNight ----------------------------
(***************************************************************************)
(* The app: the list of events (EventViewController) at the root of a      *)
(* navigation stack, the planner (PlannerViewController) and the help page *)
(* above it, and the deferred dynamic link that the link library delivers  *)
(* to the AppDelegate once after an installation.  All of them work on     *)
(* EventController.shared.                                                 *)
(*                                                                         *)
(* The user acts between the handlers of the main thread; the block that   *)
(* the list dispatches to the main queue when it is about to appear, the   *)
(* link and the answers of Firestore come in between as well.              *)
(***************************************************************************)
EXTENDS EventController

CONSTANTS Untitled,  \* the contents whose title is empty
          Blank,     \* the content of an empty form
          Paths      \* the unusual ways through the app that are taken:
                     \* "cancelledSwipe", "link" and "calendar"

ASSUME BlankAssumption == Untitled \subseteq Content /\ Blank \in Untitled

VARIABLES screen,    \* the top view controller
          editing,   \* PlannerViewController.event
          exporting, \* event of the planner that the calendar's block holds
          form,      \* what the planner's fields hold
          alert,     \* the alert on the screen
          rows,      \* the number of rows the table shows
          appearing, \* setup's block is on the main queue
          link,      \* the event of the deferred link, until it is delivered
          trapped    \* a runtime error was raised

ui == <<screen, editing, exporting, form, alert, rows, appearing, link, trapped>>
appVars == <<vars, ui>>

AppTypeOK ==
    /\ TypeOK
    /\ screen \in {"home", "planner", "help"}
    /\ editing \in Obj \cup {None} /\ exporting \in Obj \cup {None}
    /\ held = {editing, exporting} \ {None}
    /\ editing # None => running /\ screen = "planner"
    /\ form \in Content
    /\ alert \in {"none", "saved", "untitled", "share", "calendar"}
    /\ rows \in Nat
    /\ appearing \in BOOLEAN /\ trapped \in BOOLEAN
    /\ link \in Id \cup {None}

AppInit ==
    /\ Init
    /\ screen = "home" /\ editing = None /\ form = Blank /\ alert = "none"
    /\ exporting = None
    /\ rows = 0 /\ appearing = FALSE /\ trapped = FALSE
    /\ link \in {None} \cup (IF "link" \in Paths THEN Foreign ELSE {})

\* Views ignore touches while they move, and below an alert.
Interactive == running /\ ~trapped /\ ~appearing /\ alert = "none"

\* The views are gone with the process; a link not yet delivered is not.
ViewsDie ==
    /\ screen' = "home" /\ editing' = None /\ form' = Blank /\ alert' = "none"
    /\ exporting' = None
    /\ rows' = 0 /\ appearing' = FALSE /\ trapped' = FALSE
    /\ UNCHANGED link

Raise ==
    /\ trapped' = TRUE
    /\ UNCHANGED <<screen, editing, exporting, form, alert, rows, appearing, link>>

-----------------------------------------------------------------------------
(* EventViewController.                                                    *)

AppLaunch ==
    /\ Launch
    /\ appearing' = TRUE
    /\ UNCHANGED <<screen, editing, exporting, form, alert, rows, link, trapped>>

\* Mutant: the table is reloaded, the list is not.
RunSetupNoLoad ==
    /\ appearing /\ ~trapped
    /\ rows' = Len(events)
    /\ appearing' = FALSE
    /\ UNCHANGED <<vars, screen, editing, exporting, form, alert, link, trapped>>

\* Mutant: the table is not reloaded.
RunSetupNoReload ==
    /\ appearing /\ ~trapped
    /\ reload
    /\ appearing' = FALSE
    /\ UNCHANGED <<screen, editing, exporting, form, alert, rows, link, trapped>>

\* The block of setup(): load, reload the table.
RunSetup ==
    /\ appearing /\ ~trapped
    /\ reload
    /\ rows' = Len(events')
    /\ appearing' = FALSE
    /\ UNCHANGED <<screen, editing, exporting, form, alert, link, trapped>>

TapPlan ==
    /\ Interactive /\ screen = "home"
    /\ screen' = "planner" /\ form' = Blank
    /\ UNCHANGED <<vars, editing, exporting, alert, rows, appearing, link, trapped>>

\* Mutant: the planner's reference is weak.
TapRowWeakly(i) ==
    /\ Interactive /\ screen = "home"
    /\ i \in 1..rows
    /\ screen' = "planner"
    /\ editing' = events[i]
    /\ form' = heap[events[i]].data
    /\ UNCHANGED <<vars, exporting, alert, rows, appearing, link, trapped>>

\* prepare(for:sender:) hands the list's object over.  The subscripts here, in
\* cellForRowAt and in commit would trap for a row without an event: there is
\* none (RowsHaveEvents).
TapRow(i) ==
    /\ Interactive /\ screen = "home"
    /\ i \in 1..rows
    /\ IF events[i] = exporting THEN UNCHANGED vars ELSE Take(events[i])
    /\ screen' = "planner"
    /\ editing' = events[i]
    /\ form' = heap[events[i]].data
    /\ UNCHANGED <<exporting, alert, rows, appearing, link, trapped>>

\* Mutant: the row is not deleted.
DeleteEventOnly(i, out) ==
    /\ Interactive /\ screen = "home"
    /\ i \in 1..rows
    /\ delete(events[i], out)
    /\ IF running' THEN UNCHANGED ui ELSE ViewsDie

\* The event goes, then the row; UITableView raises unless the data source
\* now has one row less than the table.
DeleteRow(i, out) ==
    /\ Interactive /\ screen = "home"
    /\ i \in 1..rows
    /\ delete(events[i], out)
    /\ \/ ~running' /\ ViewsDie
       \/ running' /\ Len(events') # rows - 1 /\ Raise
       \/ /\ running' /\ Len(events') = rows - 1
          /\ rows' = rows - 1
          /\ UNCHANGED <<screen, editing, exporting, form, alert, appearing, link, trapped>>

OpenHelp ==
    /\ Interactive /\ screen = "home"
    /\ screen' = "help"
    /\ UNCHANGED <<vars, editing, exporting, form, alert, rows, appearing, link, trapped>>

-----------------------------------------------------------------------------
(* PlannerViewController.                                                  *)

EditForm(c) ==
    /\ Interactive /\ screen = "planner"
    /\ form' = c
    /\ UNCHANGED <<vars, screen, editing, exporting, alert, rows, appearing, link, trapped>>

\* Only called with a title.
saveEvent(out) ==
    \/ /\ editing # None
       /\ updateEvent(editing, form, out)
       /\ editing' = IF running' THEN editing ELSE None
    \/ /\ editing = None
       /\ createEvent(form, out)
       /\ IF running' THEN editing' \in held' \ held ELSE editing' = None

Present(a) ==
    /\ alert' = a
    /\ UNCHANGED <<screen, form, rows, appearing, link, trapped>>

saveButtonTapped(out) ==
    /\ Interactive /\ screen = "planner"
    /\ \/ /\ form \in Untitled
          /\ Present("untitled")
          /\ UNCHANGED <<vars, editing, exporting>>
       \/ /\ form \notin Untitled
          /\ saveEvent(out)
          /\ IF running' THEN Present("saved") /\ UNCHANGED exporting ELSE ViewsDie

\* Mutant: the fields are assigned before the title is looked at.
createAssigningFirst(out) ==
    /\ Interactive /\ screen = "planner"
    /\ \/ /\ form \in Untitled /\ editing # None
          /\ heap' = [heap EXCEPT ![editing].data = form]
          /\ Present("share")
          /\ UNCHANGED <<firestoreVars, running, events, held, file, usedIds, fetching,
                         eventDynamicLink, answer, editing, exporting>>
       \/ /\ form \notin Untitled
          /\ saveEvent(out)
          /\ IF running' THEN Present("share") /\ UNCHANGED exporting ELSE ViewsDie

\* Without a title nothing is saved, but an event saved before is offered.
createButtonTapped(out) ==
    /\ Interactive /\ screen = "planner"
    /\ \/ /\ form \in Untitled /\ editing # None
          /\ Present("share")
          /\ UNCHANGED <<vars, editing, exporting>>
       \/ /\ form \notin Untitled
          /\ saveEvent(out)
          /\ IF running' THEN Present("share") /\ UNCHANGED exporting ELSE ViewsDie

\* The calendar's success alert is shown and then the calendar is asked, with a
\* block that keeps the planner, and so its event, until it has run.  Bound: one
\* such block at a time.
ChooseCalendar ==
    /\ "calendar" \in Paths
    /\ running /\ ~trapped /\ alert = "share" /\ exporting = None
    /\ exporting' = editing
    /\ Present("calendar")
    /\ UNCHANGED <<vars, editing>>

\* The block has run, on a queue of its own (CalendarExport has its steps).
ExportEnds ==
    /\ running /\ ~trapped /\ exporting # None
    /\ exporting' = None
    /\ IF editing = exporting THEN UNCHANGED vars ELSE Release(exporting)
    /\ UNCHANGED <<screen, editing, form, alert, rows, appearing, link, trapped>>

\* OK, Cancel, or Link and the share sheet: the planner stays.
DismissAlert ==
    /\ running /\ ~trapped /\ alert \in {"saved", "untitled", "share"}
    /\ Present("none")
    /\ UNCHANGED <<vars, editing, exporting>>

\* Mutant: the planner is kept alive behind the list.
PopLeaking ==
    /\ screen' = "home" /\ editing' = None /\ form' = Blank /\ alert' = "none"
    /\ appearing' = TRUE
    /\ UNCHANGED <<vars, exporting, rows, link, trapped>>

\* The planner or the help page leaves the stack, the list appears.
Pop ==
    /\ screen' = "home" /\ editing' = None /\ form' = Blank /\ alert' = "none"
    /\ appearing' = TRUE
    /\ IF editing \in {None, exporting} THEN UNCHANGED vars ELSE Release(editing)
    /\ UNCHANGED <<exporting, rows, link, trapped>>

Back ==
    /\ Interactive /\ screen # "home"
    /\ Pop

\* The OK of the calendar's alert pops the planner too.
CalendarOK ==
    /\ running /\ ~trapped /\ alert = "calendar"
    /\ Pop

\* The user starts the swipe back, so that the list is about to appear, and
\* gives it up: the planner stays, and setup's block runs all the same.
SwipeBackCancelled ==
    /\ "cancelledSwipe" \in Paths
    /\ Interactive /\ screen = "planner"
    /\ appearing' = TRUE
    /\ UNCHANGED <<vars, screen, editing, exporting, form, alert, rows, link, trapped>>

-----------------------------------------------------------------------------
(* AppDelegate.                                                            *)

\* The link is dropped if it is weak or names no event; otherwise its event is
\* fetched.  The window of a scene-based app is not the delegate's, so the
\* planner that the answer would push is never on the screen.
handleIncomingDynamicLink ==
    /\ running /\ ~trapped /\ link # None
    /\ link' = None
    /\ \/ fetchEventWith(link)
       \/ UNCHANGED vars
    /\ UNCHANGED <<screen, editing, exporting, form, alert, rows, appearing, trapped>>

LinkAnswered ==
    /\ ~trapped
    /\ \E id \in fetching : fetchReturns(id) \/ fetchFails(id)
    /\ UNCHANGED ui

-----------------------------------------------------------------------------
AppDies ==
    /\ Kill
    /\ ViewsDie

\* The runtime error ends the process.
Crash ==
    /\ trapped
    /\ ProcessDies(<<>>)
    /\ ViewsDie
    /\ UNCHANGED <<file, usedIds>>

AppNetwork == Network /\ UNCHANGED ui

\* Every step but those that begin and end an export to the calendar.
Screens ==
    \/ AppLaunch
    \/ RunSetup
    \/ TapPlan
    \/ \E i \in DOMAIN events : TapRow(i)
    \/ \E i \in DOMAIN events, out \in Outcome : DeleteRow(i, out)
    \/ OpenHelp
    \/ \E c \in Content : EditForm(c)
    \/ \E out \in Outcome : saveButtonTapped(out)
    \/ \E out \in Outcome : createButtonTapped(out)
    \/ DismissAlert
    \/ Back
    \/ CalendarOK
    \/ SwipeBackCancelled
    \/ handleIncomingDynamicLink
    \/ LinkAnswered
    \/ AppDies
    \/ Crash
    \/ AppNetwork

AppNext == Screens \/ ChooseCalendar \/ ExportEnds

AppSpec == AppInit /\ [][AppNext]_appVars

\* A process that runs serves its queues and its network; the user is free.
AppFairness ==
    /\ WF_appVars(RunSetup)
    /\ WF_appVars(running /\ WriteLocally /\ UNCHANGED <<controllerVars, ui>>)
    /\ WF_appVars(running /\ ServerCommit /\ UNCHANGED <<controllerVars, ui>>)
    /\ SF_appVars(running /\ AcknowledgeBatch /\ UNCHANGED <<controllerVars, ui>>)

FairAppSpec == AppSpec /\ AppFairness

-----------------------------------------------------------------------------
(* What the app promises.                                                  *)

\* The app uses EventController as its module allows: every view, link and
\* network step is one of the controller's operations, of its callers' steps,
\* or leaves it alone.
UsesController == Init /\ [][Next]_vars

\* Whenever the user can touch the table, it has as many rows as the list has
\* events, although a link may load the file behind its back: no deletion of a
\* row raises UITableView's consistency exception.
TableMatchesList == Interactive /\ screen = "home" => rows = Len(events)

\* What that is for: as long as no write of the file fails, nothing traps.
NeverTraps == WritesComplete => ~trapped

\* Even where writes of the file fail or are torn, so that a load brings other
\* events than the table shows: every row that can be touched has an event of
\* the list, and no subscript of the list traps.
RowsHaveEvents == Interactive /\ screen = "home" => rows <= Len(events)

\* While "Your event has been saved successfully" is on the screen, the file
\* holds the content of the form as the content of the event that is edited,
\* so that the list shows it when the planner is left or the app restarted.
SaveHonoured ==
    alert = "saved" => ContentOf(Saved, heap[editing].id) = {form}

\* Only a saved event is offered for the calendar or a link, and as it was saved:
\* what the offer is about is the file's entry for it.  With a title that is what
\* the form shows; without one nothing is saved now, and the offer is about the
\* event as it was before, whatever else the form shows.
OfferIsSaved ==
    alert = "share" =>
      /\ ContentOf(Saved, heap[editing].id) = {heap[editing].data}
      /\ form \notin Untitled => heap[editing].data = form

\* The documents as this client knows them are the events of the list, in
\* content too; deleted events have none.  saveEvent and delete write the two
\* stores one after the other and the second write depends on the list alone.
CloudMatchesList == \A id \in usedIds \ Foreign : ~Split(id)

\* What the list says of an event is what the server will have, unless the
\* event changes again.
EventuallyPublished ==
    \A id \in Id \ Foreign, c \in Content :
      ContentOf(Saved, id) = {c} ~>
        (collection[id] = c \/ ContentOf(Saved, id) # {c})

\* A successful answer to a link is the event that the link names: "loading a
\* specific event", where the other answer is "Unable to find event with id".
LinkFindsEvent ==
    answer # None /\ answer.success =>
      eventDynamicLink # None /\ eventDynamicLink.id = answer.id

\* The file is the user's book of events: through deaths of the process at any
\* point, one handler changes one entry, deleted events never return, and a
\* receipt (the alert of a save) is given for what the book then holds.
ReceiptOfAlert == IF alert = "saved" THEN [id |-> heap[editing].id, data |-> form]
                  ELSE None
BookOfApp == INSTANCE EventBook
               WITH used <- usedIds, book <- BookOfFile, receipt <- ReceiptOfAlert
ImplementsBook == BookOfApp!BookSpec
=============================================================================
