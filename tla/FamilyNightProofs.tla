------------------------- MODULE FamilyNightProofs -------------------------
(***************************************************************************)
(* What holds of the app for every number of events, objects and contents  *)
(* and every set of faults and paths.                                      *)
(*                                                                         *)
(* Every step of the app is a step that EventController allows, so that    *)
(* its invariant IInv holds of the app too; UI says what the screens add.  *)
(***************************************************************************)
EXTENDS FamilyNight, EventControllerProofs

Alerts == {"none", "saved", "untitled", "share", "calendar"}

UITypeOK ==
    /\ screen \in {"home", "planner", "help"}
    /\ editing \in Obj \cup {None} /\ exporting \in Obj \cup {None}
    /\ held = {editing, exporting} \ {None}
    /\ editing # None => running /\ screen = "planner"
    /\ exporting # None => running
    /\ alert \in {"saved", "share", "calendar"} => editing # None
    /\ form \in Content
    /\ alert \in Alerts
    /\ rows \in Nat
    /\ appearing \in BOOLEAN /\ trapped \in BOOLEAN
    /\ link \in Id \cup {None}
    /\ trapped => running

\* The next load, if there is a file to be read, brings an event for each row.
FileHasRows == file \notin {NoFile, Torn} => rows <= Len(file)
RowsInv == Interactive /\ screen = "home" => rows <= Len(events) /\ FileHasRows

\* An alert is only ever shown above the planner, and the rows of a table that
\* can be touched are the events of the list, or at least have events there.
TableInv ==
    /\ alert # "none" => screen = "planner"
    /\ WritesComplete => TableMatchesList
    /\ RowsInv

AppInv == IInv /\ UITypeOK /\ TableInv

-----------------------------------------------------------------------------
(* The app's steps are the controller's.                                   *)

\* What saveEvent does to the controller is what one of its operations does.
LEMMA SaveIsOperation ==
  ASSUME IInv, UITypeOK, NEW out \in Outcome, saveEvent(out)
  PROVE  Next
<1>1. CASE editing # None /\ updateEvent(editing, form, out)
  BY <1>1 DEF UITypeOK, Next, Operation
<1>2. CASE editing = None /\ createEvent(form, out)
  BY <1>2 DEF UITypeOK, Next, Operation
<1> QED
  BY <1>1, <1>2 DEF saveEvent

LEMMA PopIsRelease ==
  ASSUME UITypeOK, running, Pop
  PROVE  [Next]_vars
<1>1. CASE editing \in {None, exporting}
  BY <1>1 DEF Pop
<1>2. CASE editing \notin {None, exporting}
  <2>1. editing \in Obj /\ Release(editing)
    BY <1>2 DEF Pop, UITypeOK
  <2> QED
    BY <2>1 DEF Next
<1> QED
  BY <1>1, <1>2

LEMMA ExportEndIsRelease ==
  ASSUME UITypeOK, ExportEnds
  PROVE  [Next]_vars
<1>1. CASE editing = exporting
  BY <1>1 DEF ExportEnds
<1>2. CASE editing # exporting
  <2>1. exporting \in Obj /\ Release(exporting)
    BY <1>2 DEF ExportEnds, UITypeOK
  <2> QED
    BY <2>1 DEF Next
<1> QED
  BY <1>1, <1>2

\* Every step of the app but the crash is a step of EventController or leaves
\* it alone; the crash is the death of the process.
LEMMA AppStepIsControllerStep ==
  ASSUME IInv, UITypeOK, [AppNext]_appVars
  PROVE  [Next]_vars \/ Crash
<1>1. CASE AppLaunch
  BY <1>1 DEF AppLaunch, Next
<1>2. CASE RunSetup
  BY <1>2 DEF RunSetup, Next, Operation
<1>3. CASE TapPlan \/ OpenHelp \/ ChooseCalendar
           \/ DismissAlert \/ SwipeBackCancelled \/ \E c \in Content : EditForm(c)
  BY <1>3 DEF TapPlan, OpenHelp, ChooseCalendar, DismissAlert,
              SwipeBackCancelled, EditForm
<1>4. CASE \E i \in DOMAIN events : TapRow(i)
  <2>1. PICK i \in DOMAIN events : Take(events[i]) \/ UNCHANGED vars
    BY <1>4 DEF TapRow
  <2>2. events[i] \in Obj
    BY HeapFacts
  <2> QED
    BY <2>1, <2>2 DEF Next
<1>5. CASE \E i \in DOMAIN events, out \in Outcome : DeleteRow(i, out)
  <2>1. PICK i \in DOMAIN events, out \in Outcome : delete(events[i], out)
    BY <1>5 DEF DeleteRow
  <2>2. events[i] \in DOMAIN heap
    BY HeapFacts
  <2> QED
    BY <2>1, <2>2 DEF Next, Operation
<1>6. CASE \E out \in Outcome : saveButtonTapped(out) \/ createButtonTapped(out)
  <2>1. PICK out \in Outcome : saveEvent(out) \/ UNCHANGED vars
    BY <1>6 DEF saveButtonTapped, createButtonTapped
  <2> QED
    BY <2>1, SaveIsOperation
<1>7. CASE Back \/ CalendarOK
  <2>1. running /\ Pop
    BY <1>7 DEF Back, CalendarOK, Interactive
  <2> QED
    BY <2>1, PopIsRelease
<1>8. CASE handleIncomingDynamicLink
  <2>1. link \in Id /\ (fetchEventWith(link) \/ UNCHANGED vars)
    BY <1>8 DEF handleIncomingDynamicLink, UITypeOK
  <2> QED
    BY <2>1 DEF Next, Operation
<1>9. CASE LinkAnswered
  <2>1. PICK id \in fetching : fetchReturns(id) \/ fetchFails(id)
    BY <1>9 DEF LinkAnswered
  <2>2. id \in Id
    BY DEF IInv, TypeOK
  <2> QED
    BY <2>1, <2>2 DEF Next, Operation
<1>10. CASE AppDies
  BY <1>10 DEF AppDies, Next
<1>11. CASE AppNetwork
  BY <1>11 DEF AppNetwork, Next
<1>12. CASE UNCHANGED appVars
  BY <1>12 DEF appVars
<1>13. CASE ExportEnds
  BY <1>13, ExportEndIsRelease
<1> QED
  BY <1>1, <1>2, <1>3, <1>4, <1>5, <1>6, <1>7, <1>8, <1>9, <1>10, <1>11, <1>12, <1>13
  DEF AppNext, Screens

\* So the controller's invariant is kept by the app.
LEMMA AppKeepsIInv ==
  ASSUME IInv, UITypeOK, [AppNext]_appVars
  PROVE  IInv'
<1>1. CASE [Next]_vars
  BY <1>1, NextKeepsIInv
<1>2. CASE Crash
  <2>1. ProcessDies(<<>>) /\ file' = file /\ usedIds' = usedIds /\ <<>> \in Seq(Mutation)
    BY <1>2 DEF Crash
  <2>2. Saved' = Saved
    BY <2>1 DEF Saved
  <2> QED
    BY <2>1, <2>2, DeathKeepsIInv DEF IInv, TypeOK, IdsUsed, UniqueIds
<1> QED
  BY <1>1, <1>2, AppStepIsControllerStep

-----------------------------------------------------------------------------
(* The screens.                                                            *)

\* A save either ends with the process or leaves the planner holding the event.
LEMMA SaveEnds ==
  ASSUME IInv, UITypeOK, NEW out \in Outcome, saveEvent(out)
  PROVE  \/ running' = FALSE /\ held' = {} /\ editing' = None
         \/ /\ running' = running /\ running
            /\ editing' \in Obj /\ held' = {editing', exporting} \ {None}
<1>1. CASE editing # None /\ updateEvent(editing, form, out)
  <2>1. CASE ProcessDies(updateEventInFirebase([heap[editing] EXCEPT !.data = form]))
    BY <1>1, <2>1, Zenon DEF ProcessDies, saveEvent
  <2>2. CASE held' = held /\ running' = running /\ running
    BY <1>1, <2>2 DEF UITypeOK, saveEvent
  <2> QED
    BY <1>1, <2>1, <2>2 DEF updateEvent, saveToPersistenceStore
<1>2. CASE editing = None /\ createEvent(form, out)
  <2>1. PICK new \in NewObjects(1, DOMAIN heap) :
          \/ \E calls : ProcessDies(calls)
          \/ held' = held \cup {new[1]} /\ UNCHANGED running
    BY <1>2 DEF createEvent, saveToPersistenceStore
  <2>2. new[1] \in Obj
    BY NewObjectsArePlaced
  <2>3. CASE \E calls : ProcessDies(calls)
    BY <1>2, <2>3 DEF ProcessDies, saveEvent
  <2>4. CASE held' = held \cup {new[1]} /\ UNCHANGED running
    <3>1. held = {exporting} \ {None} /\ running
      BY <1>2 DEF UITypeOK, createEvent
    <3>2. editing' \in held' \ held
      BY <1>2, <2>4, <3>1, NoneAssumption DEF saveEvent
    <3> QED
      BY <2>2, <2>4, <3>1, <3>2, NoneAssumption
  <2> QED
    BY <2>1, <2>3, <2>4
<1> QED
  BY <1>1, <1>2 DEF saveEvent

\* The steps that leave the controller and what the planner edits alone.
Plain == \/ TapPlan \/ OpenHelp
         \/ DismissAlert \/ SwipeBackCancelled \/ LinkAnswered \/ AppNetwork
         \/ \E c \in Content : EditForm(c)

LEMMA PlainKeepsUI ==
  ASSUME UITypeOK, Plain
  PROVE  UITypeOK'
<1>1. UNCHANGED <<running, held, editing, exporting, rows, link>>
  BY DEF Plain, TapPlan, OpenHelp, DismissAlert,
         SwipeBackCancelled, LinkAnswered, AppNetwork, EditForm, Present, Raise,
         vars, controllerVars, memory, ui, Network, fetchReturns, fetchFails
<1>2. screen' \in {"home", "planner", "help"} /\ (editing # None => screen' = "planner")
  BY DEF Plain, TapPlan, OpenHelp, DismissAlert,
         SwipeBackCancelled, LinkAnswered, AppNetwork, EditForm, Present, Raise,
         ui, UITypeOK
<1>3. form' \in Content
  BY BlankAssumption
  DEF Plain, TapPlan, OpenHelp, DismissAlert,
      SwipeBackCancelled, LinkAnswered, AppNetwork, EditForm, Present, Raise,
      ui, UITypeOK
<1>4. alert' \in Alerts
  BY DEF Alerts, Plain, TapPlan, OpenHelp, DismissAlert,
         SwipeBackCancelled, LinkAnswered, AppNetwork, EditForm, Present, Raise,
         ui, UITypeOK
<1>4a. alert' \in {"saved", "share", "calendar"} => alert' = alert
  BY DEF Plain, TapPlan, OpenHelp, DismissAlert, SwipeBackCancelled, LinkAnswered,
         AppNetwork, EditForm, Present, Raise, ui
<1>5. appearing' \in BOOLEAN /\ trapped' \in BOOLEAN
  BY DEF Plain, TapPlan, OpenHelp, DismissAlert,
         SwipeBackCancelled, LinkAnswered, AppNetwork, EditForm, Present, Raise,
         ui, UITypeOK
<1>6. trapped' => running
  <2>1. trapped' = trapped \/ running
    BY DEF Plain, TapPlan, OpenHelp, DismissAlert,
           SwipeBackCancelled, LinkAnswered, AppNetwork, EditForm, Present,
           Interactive, ui
  <2> QED
    BY <2>1 DEF UITypeOK
<1> QED
  BY <1>1, <1>2, <1>3, <1>4, <1>4a, <1>5, <1>6 DEF UITypeOK

LEMMA ChooseKeepsUI ==
  ASSUME UITypeOK, ChooseCalendar
  PROVE  UITypeOK'
<1>1. UNCHANGED <<running, held>>
  BY DEF ChooseCalendar, vars, controllerVars, memory
<1>2. held = {editing, editing} \ {None}
  BY DEF ChooseCalendar, UITypeOK
<1> QED
  BY <1>1, <1>2 DEF ChooseCalendar, Present, Alerts, UITypeOK

LEMMA ExportEndKeepsUI ==
  ASSUME UITypeOK, ExportEnds
  PROVE  UITypeOK'
<1>1. held' = {editing} \ {None} /\ running' = running
  BY DEF ExportEnds, Release, UITypeOK, vars, controllerVars, memory
<1> QED
  BY <1>1 DEF ExportEnds, UITypeOK

\* Wherever the process ends the views are new.
LEMMA DeathKeepsUI ==
  ASSUME UITypeOK, ViewsDie, held' = {}
  PROVE  UITypeOK'
BY BlankAssumption DEF UITypeOK, ViewsDie, Alerts

LEMMA PopKeepsUI ==
  ASSUME UITypeOK, Pop
  PROVE  UITypeOK'
<1>1. held' = {exporting} \ {None} /\ running' = running
  BY DEF Pop, Release, UITypeOK, vars, controllerVars, memory
<1> QED
  BY <1>1, BlankAssumption DEF UITypeOK, Pop, Alerts

\* The events of the list when a row is tapped.
LEMMA TapKeepsUI ==
  ASSUME IInv, UITypeOK, NEW i \in DOMAIN events, TapRow(i)
  PROVE  UITypeOK'
<1>1. events[i] \in Obj /\ heap[events[i]].data \in Content
  BY HeapFacts DEF Rec
<1>2. editing = None
  BY DEF TapRow, UITypeOK
<1>3. held' = {events[i], exporting} \ {None} /\ running'
  <2>1. CASE events[i] = exporting
    BY <1>1, <1>2, <2>1, NoneAssumption
    DEF TapRow, Interactive, UITypeOK, vars, controllerVars, memory
  <2>2. CASE events[i] # exporting
    BY <1>1, <1>2, <2>2, NoneAssumption DEF TapRow, Take, UITypeOK
  <2> QED
    BY <2>1, <2>2
<1> QED
  BY <1>1, <1>3, NoneAssumption DEF UITypeOK, TapRow

LEMMA SaveKeepsUI ==
  ASSUME IInv, UITypeOK, NEW out \in Outcome, screen = "planner",
         NEW a \in {"saved", "share"},
         saveEvent(out),
         IF running' THEN Present(a) /\ UNCHANGED exporting ELSE ViewsDie
  PROVE  UITypeOK'
<1>1. CASE running' = FALSE /\ held' = {} /\ editing' = None
  BY <1>1, DeathKeepsUI
<1>2. CASE running' = running /\ running /\ editing' \in Obj
           /\ held' = {editing', exporting} \ {None}
  BY <1>2, NoneAssumption DEF UITypeOK, Present, Alerts
<1> QED
  BY <1>1, <1>2, SaveEnds

LEMMA DeleteKeepsUI ==
  ASSUME IInv, UITypeOK, NEW i \in DOMAIN events, NEW out \in Outcome,
         DeleteRow(i, out)
  PROVE  UITypeOK'
<1>1. /\ running /\ screen = "home" /\ editing = None /\ held = {exporting} \ {None}
      /\ i \in 1..rows
  BY DEF DeleteRow, Interactive, UITypeOK
<1>2. \/ running' /\ held' = held
      \/ ~running' /\ held' = {}
  <2>1. CASE UNCHANGED memory
    BY <1>1, <2>1 DEF memory
  <2>2. CASE \E es, calls : saveToPersistenceStore(es, heap, held, calls, out)
    BY <1>1, <2>2 DEF saveToPersistenceStore, ProcessDies
  <2> QED
    BY <2>1, <2>2, Zenon DEF DeleteRow, delete
<1>3. CASE ViewsDie /\ ~running'
  BY <1>2, <1>3, DeathKeepsUI
<1>4. CASE running' /\ Raise
  BY <1>1, <1>2, <1>4 DEF Raise, UITypeOK
<1>5. CASE /\ running' /\ rows' = rows - 1
           /\ UNCHANGED <<screen, editing, exporting, form, alert, appearing,
                          link, trapped>>
  BY <1>1, <1>2, <1>5 DEF UITypeOK
<1> QED
  BY <1>3, <1>4, <1>5 DEF DeleteRow

LEMMA AppKeepsUI ==
  ASSUME IInv, UITypeOK, IInv', [AppNext]_appVars
  PROVE  UITypeOK'
<1>1. CASE AppLaunch
  BY <1>1 DEF AppLaunch, Launch, UITypeOK
<1>2. CASE RunSetup
  <2>1. rows' \in Nat
    BY <1>2 DEF RunSetup, IInv, TypeOK
  <2>2. UNCHANGED <<running, held>>
    BY <1>2 DEF RunSetup, reload
  <2> QED
    BY <1>2, <2>1, <2>2 DEF RunSetup, UITypeOK
<1>3. CASE Plain
  BY <1>3, PlainKeepsUI
<1>4. CASE \E i \in DOMAIN events : TapRow(i)
  BY <1>4, TapKeepsUI
<1>5. CASE \E i \in DOMAIN events, out \in Outcome : DeleteRow(i, out)
  BY <1>5, DeleteKeepsUI
<1>6. CASE \E out \in Outcome : saveButtonTapped(out) \/ createButtonTapped(out)
  <2>1. PICK out \in Outcome, a \in {"untitled", "saved", "share"} :
          /\ screen = "planner"
          /\ \/ /\ Present(a) /\ UNCHANGED <<vars, editing, exporting>>
                /\ a = "untitled" \/ editing # None
             \/ /\ a # "untitled" /\ saveEvent(out)
                /\ IF running' THEN Present(a) /\ UNCHANGED exporting ELSE ViewsDie
    BY <1>6 DEF saveButtonTapped, createButtonTapped
  <2>2. CASE /\ Present(a) /\ UNCHANGED <<vars, editing, exporting>>
             /\ a = "untitled" \/ editing # None
    BY <2>2 DEF Present, Alerts, UITypeOK, vars, controllerVars, memory
  <2> QED
    BY <2>1, <2>2, SaveKeepsUI
<1>7. CASE Back \/ CalendarOK
  BY <1>7, PopKeepsUI DEF Back, CalendarOK
<1>8. CASE handleIncomingDynamicLink
  <2>1. UNCHANGED <<running, held>>
    BY <1>8 DEF handleIncomingDynamicLink, fetchEventWith, vars, controllerVars, memory
  <2> QED
    BY <1>8, <2>1 DEF handleIncomingDynamicLink, UITypeOK
<1>9. CASE AppDies \/ Crash
  <2>1. ViewsDie /\ held' = {}
    BY <1>9 DEF AppDies, Kill, Crash, ProcessDies
  <2> QED
    BY <2>1, DeathKeepsUI
<1>10. CASE UNCHANGED appVars
  BY <1>10 DEF appVars, vars, controllerVars, memory, ui, UITypeOK
<1>11. CASE ChooseCalendar \/ ExportEnds
  BY <1>11, ChooseKeepsUI, ExportEndKeepsUI
<1> QED
  BY <1>1, <1>2, <1>3, <1>4, <1>5, <1>6, <1>7, <1>8, <1>9, <1>10, <1>11
  DEF AppNext, Screens, Plain

-----------------------------------------------------------------------------
(* The table.                                                              *)

\* The file is the list, before a load and after it: the list stays as long.
LEMMA LoadKeepsLength ==
  ASSUME IInv, IInv', running, running', file' = file, WritesComplete
  PROVE  Len(events') = Len(events)
<1>1. Values(heap, events) = Saved /\ Values(heap', events') = Saved
  BY DEF IInv, Mirror, Saved, WritesComplete
<1>2. Len(Values(heap, events)) = Len(events)
  BY HeapFacts, ValuesElements
<1>3. Len(Values(heap', events')) = Len(events')
  <2>1. /\ heap' \in [Range(events') \cup held' -> Rec] /\ events' \in Seq(Obj)
        /\ Range(events') \subseteq Range(events') \cup held'
    BY DEF IInv, TypeOK
  <2> QED
    BY <2>1, ValuesElements
<1> QED
  BY <1>1, <1>2, <1>3

\* A list just loaded is as long as the file.
LEMMA LoadedLength ==
  ASSUME IInv, IInv', loadFromPersistenceStore(events, heap, held),
         file \notin {NoFile, Torn}
  PROVE  Len(events') = Len(file)
<1>1. file \in Seq(Rec)
  BY DEF IInv, TypeOK
<1>2. heap \in [DOMAIN heap -> Rec] /\ held \subseteq DOMAIN heap
  BY HeapFacts
<1>3. Values(heap', events') = file /\ events' \in Seq(Obj)
  BY <1>1, <1>2, LoadedValues
<1>4. DOMAIN file = DOMAIN events'
  BY <1>3 DEF Values
<1> QED
  BY <1>1, <1>3, <1>4

\* A delete that changes the file, and is neither torn nor fatal, saves the list.
LEMMA DeletedLength ==
  ASSUME IInv, IInv', NEW o, NEW out \in Outcome, delete(o, out), running',
         file' \notin {file, Torn}
  PROVE  Len(file') = Len(events')
<1> DEFINE es == RemoveAt(events, Min(IndicesOf(o)))
           calls == <<DeleteDocument(heap[o].id)>>
<1>1. saveToPersistenceStore(es, heap, held, calls, out)
  BY DEF delete
<1> HIDE DEF es, calls
<1>2. events' = es /\ file' = Written(Values(heap, es), out)
  BY <1>1 DEF saveToPersistenceStore, ProcessDies
<1>3. file' = Values(heap, es)
  BY <1>2, WrittenCases
<1>4. DOMAIN file' = DOMAIN events' /\ events' \in Seq(Obj)
  BY <1>2, <1>3 DEF Values, IInv, TypeOK
<1>5. file' = [i \in 1..Len(events') |-> heap[events'[i]]]
  BY <1>2, <1>3, <1>4 DEF Values
<1> QED
  BY <1>4, <1>5

LEMMA AppKeepsTable ==
  ASSUME AppInv, IInv', [AppNext]_appVars
  PROVE  TableInv'
<1> USE DEF AppInv, TableInv
<1>1. CASE AppLaunch \/ SwipeBackCancelled \/ Pop
  <2>1. appearing' = TRUE /\ (alert' # "none" => screen' = "planner")
    BY <1>1 DEF AppLaunch, SwipeBackCancelled, Pop
  <2> QED
    BY <2>1 DEF TableMatchesList, RowsInv, Interactive
<1>2. CASE RunSetup
  <2>1. file' = file /\ rows' = Len(events') /\ alert' = alert /\ screen' = screen
    BY <1>2 DEF RunSetup, reload
  <2>2. file \notin {NoFile, Torn} => Len(events') = Len(file)
    BY <1>2, LoadedLength, HeapFacts DEF RunSetup, reload
  <2>3. Len(events') \in Nat
    BY DEF IInv, TypeOK
  <2> QED
    BY <2>1, <2>2, <2>3 DEF TableMatchesList, RowsInv, FileHasRows
<1>3. CASE ViewsDie /\ running' = FALSE
  BY <1>3 DEF ViewsDie, TableMatchesList, RowsInv, Interactive
<1>4. CASE Raise
  BY <1>4 DEF Raise, TableMatchesList, RowsInv, Interactive
<1>5. CASE screen = "planner" /\ (\E a \in Alerts : Present(a))
  BY <1>5 DEF Present, TableMatchesList, RowsInv
<1>6. CASE TapPlan \/ OpenHelp \/ \E i \in DOMAIN events : TapRow(i)
  <2>1. alert' = "none" /\ screen' # "home"
    BY <1>6 DEF TapPlan, OpenHelp, TapRow, Interactive
  <2> QED
    BY <2>1 DEF TableMatchesList, RowsInv
<1>7. CASE \E c \in Content : EditForm(c)
  BY <1>7 DEF EditForm, TableMatchesList, RowsInv, Interactive
<1>8. CASE \E i \in DOMAIN events, out \in Outcome : DeleteRow(i, out)
  <2>1. PICK i \in DOMAIN events, out \in Outcome : DeleteRow(i, out)
    BY <1>8
  <2>2. CASE ~running' /\ ViewsDie
    BY <2>2 DEF ViewsDie, TableMatchesList, RowsInv, Interactive
  <2>3. CASE running' /\ Raise
    BY <2>3 DEF Raise, TableMatchesList, RowsInv, Interactive
  <2>4. CASE /\ running' /\ Len(events') = rows - 1 /\ rows' = rows - 1
             /\ UNCHANGED <<screen, alert>>
    <3>1. rows \in Nat /\ (file \notin {NoFile, Torn} => rows <= Len(file))
      BY <2>1 DEF UITypeOK, RowsInv, FileHasRows, DeleteRow
    <3>2. file' \notin {file, Torn} => Len(file') = Len(events')
      BY <2>1, <2>4, DeletedLength DEF DeleteRow
    <3>3. rows' <= Len(events')
      BY <2>4, <3>1
    <3>4. FileHasRows'
      <4>1. CASE file' = file
        <5>1. file \notin {NoFile, Torn} => file \in Seq(Rec)
          BY DEF IInv, TypeOK
        <5> QED
          BY <2>4, <3>1, <4>1, <5>1 DEF FileHasRows
      <4>2. CASE file' # file
        BY <2>4, <3>1, <3>2, <4>2 DEF FileHasRows
      <4> QED
        BY <4>1, <4>2
    <3> QED
      BY <2>4, <3>3, <3>4 DEF TableMatchesList, RowsInv
  <2> QED
    BY <2>1, <2>2, <2>3, <2>4 DEF DeleteRow
<1>9. CASE handleIncomingDynamicLink
  <2>1. /\ running /\ UNCHANGED <<running, file>>
        /\ UNCHANGED <<screen, alert, rows, appearing, trapped>>
    BY <1>9 DEF handleIncomingDynamicLink, fetchEventWith, vars, controllerVars, memory
  <2>2. WritesComplete => Len(events') = Len(events)
    BY <2>1, LoadKeepsLength
  <2>3. Interactive' = Interactive
    BY <2>1 DEF Interactive
  <2>4. WritesComplete => TableMatchesList'
    BY <2>1, <2>2, <2>3 DEF TableMatchesList
  <2>5. RowsInv'
    <3>1. \/ Len(events') = Len(events)
          \/ file \notin {NoFile, Torn} /\ Len(events') = Len(file)
      <4>1. CASE UNCHANGED vars
        BY <4>1 DEF vars, controllerVars, memory
      <4>2. CASE fetchEventWith(link)
        <5>1. CASE file \in {NoFile, Torn}
          BY <4>2, <5>1 DEF fetchEventWith, loadFromPersistenceStore
        <5>2. CASE file \notin {NoFile, Torn}
          BY <4>2, <5>2, LoadedLength, HeapFacts DEF fetchEventWith
        <5> QED
          BY <5>1, <5>2
      <4> QED
        BY <1>9, <4>1, <4>2 DEF handleIncomingDynamicLink
    <3> QED
      BY <2>1, <2>3, <3>1 DEF RowsInv, FileHasRows
  <2> QED
    BY <2>1, <2>4, <2>5 DEF WritesComplete
<1>10. CASE LinkAnswered \/ AppNetwork \/ ExportEnds \/ UNCHANGED appVars
  <2>1. UNCHANGED <<running, events, file, screen, alert, rows, appearing, trapped>>
    BY <1>10 DEF LinkAnswered, ExportEnds, Release, AppNetwork, Network, fetchReturns, fetchFails,
                 appVars, vars, controllerVars, memory, ui
  <2> QED
    BY <2>1 DEF TableMatchesList, RowsInv, FileHasRows, Interactive, WritesComplete
<1>11. CASE \E out \in Outcome : saveButtonTapped(out) \/ createButtonTapped(out)
  <2>1. /\ screen = "planner"
        /\ (\E a \in Alerts : Present(a)) \/ (~running' /\ ViewsDie)
    BY <1>11 DEF Alerts, saveButtonTapped, createButtonTapped
  <2>2. CASE ~running' /\ ViewsDie
    BY <2>2 DEF ViewsDie, TableMatchesList, RowsInv, Interactive
  <2> QED
    BY <1>5, <2>1, <2>2
<1>12. CASE ChooseCalendar \/ DismissAlert
  <2>1. screen = "planner" /\ \E a \in Alerts : Present(a)
    BY <1>12 DEF Alerts, ChooseCalendar, DismissAlert
  <2> QED
    BY <1>5, <2>1
<1>13. CASE AppDies \/ Crash
  <2>1. ViewsDie /\ running' = FALSE
    BY <1>13 DEF AppDies, Kill, Crash, ProcessDies
  <2> QED
    BY <1>3, <2>1
<1>15. CASE Back \/ CalendarOK
  BY <1>1, <1>15 DEF Back, CalendarOK
<1> QED
  BY <1>1, <1>2, <1>6, <1>7, <1>8, <1>9, <1>10, <1>11, <1>12, <1>13, <1>15
  DEF AppNext, Screens

-----------------------------------------------------------------------------
LEMMA AppInitInv == AppInit => AppInv
<1> SUFFICES ASSUME AppInit PROVE AppInv
  OBVIOUS
<1>1. IInv
  BY InitIInv DEF AppInit
<1>2. UITypeOK
  BY BlankAssumption, ForeignAssumption DEF AppInit, Init, UITypeOK, Alerts
<1>3. TableInv
  BY DEF AppInit, Init, TableInv, TableMatchesList, RowsInv, Interactive
<1> QED
  BY <1>1, <1>2, <1>3 DEF AppInv

LEMMA AppInvInductive ==
  ASSUME AppInv, [AppNext]_appVars
  PROVE  AppInv'
<1>1. IInv'
  BY AppKeepsIInv DEF AppInv
<1> QED
  BY <1>1, AppKeepsUI, AppKeepsTable DEF AppInv

\* The inductive invariant of the app holds in every behaviour.
THEOREM AppInvAlways == AppSpec => []AppInv
<1>1. AppInit => AppInv
  BY AppInitInv
<1>2. AppInv /\ [AppNext]_appVars => AppInv'
  BY AppInvInductive
<1> QED
  BY <1>1, <1>2, PTL DEF AppSpec

\* The variables keep their types; in particular the planner holds exactly the
\* object that it edits, and only while it is on the screen of a running app.
THEOREM AppTypeCorrect == AppSpec => []AppTypeOK
<1>1. AppInv => AppTypeOK
  BY DEF AppInv, IInv, UITypeOK, AppTypeOK, Alerts
<1> QED
  BY <1>1, AppInvAlways, PTL

\* Whatever faults occur and whatever paths the user takes, no event is twice
\* in the list or in the file.
THEOREM AppUniqueIds == AppSpec => []UniqueIds
<1>1. AppInv => UniqueIds
  BY DEF AppInv, IInv
<1> QED
  BY <1>1, AppInvAlways, PTL

\* Where no write of the file fails, a table that can be touched has a row for
\* each event of the list: no deletion of a row raises.
THEOREM TableMatches == AppSpec => [](WritesComplete => TableMatchesList)
<1>1. AppInv => (WritesComplete => TableMatchesList)
  BY DEF AppInv, TableInv
<1> QED
  BY <1>1, AppInvAlways, PTL

\* Whatever happens to the file, every row that can be touched has an event of
\* the list: no subscript of the list traps.
THEOREM EveryRowHasEvent == AppSpec => []RowsHaveEvents
<1>1. AppInv => RowsHaveEvents
  BY DEF AppInv, TableInv, RowsInv, RowsHaveEvents
<1> QED
  BY <1>1, AppInvAlways, PTL

-----------------------------------------------------------------------------
(* No deletion of a row raises.                                            *)

\* No two places of the list hold events with one id.
LEMMA OnePlace ==
  ASSUME IInv, NEW i \in DOMAIN events, NEW j \in DOMAIN events,
         heap[events[i]].id = heap[events[j]].id
  PROVE  i = j
BY HeapFacts DEF DistinctIds, Values

\* A delete from a row that does not end with the process takes one event, the
\* row's, out of the list.
LEMMA DeletionShortens ==
  ASSUME IInv, NEW n \in DOMAIN events, NEW out, delete(events[n], out), running'
  PROVE  Len(events') = Len(events) - 1
<1> DEFINE es == RemoveAt(events, Min(IndicesOf(events[n])))
           calls == <<DeleteDocument(heap[events[n]].id)>>
<1>1. events \in Seq(Obj) /\ n \in 1..Len(events)
  BY HeapFacts
<1>2. IndicesOf(events[n]) = {n}
  BY OnePlace DEF IndicesOf
<1>3. {n} \subseteq Nat
  BY <1>1
<1>4. Min(IndicesOf(events[n])) = n
  BY <1>2, <1>3, MinIsLeast
<1>5. Len(es) = Len(events) - 1
  BY <1>1, <1>4, RemoveAtElements
<1>6. saveToPersistenceStore(es, heap, held, calls, out)
  BY <1>2 DEF delete
<1> HIDE DEF es, calls
<1>7. events' = es
  BY <1>6 DEF saveToPersistenceStore, ProcessDies
<1> QED
  BY <1>5, <1>7

\* Where no write of the file fails, nothing ever traps: the table has a row for
\* each event when a row is deleted, and the event is there once.
THEOREM NeverTrapsAlways == AppSpec => []NeverTraps
<1>1. AppInit => NeverTraps
  BY DEF AppInit, NeverTraps
<1>2. AppInv /\ NeverTraps /\ [AppNext]_appVars => NeverTraps'
  <2> SUFFICES ASSUME AppInv, WritesComplete, ~trapped, [AppNext]_appVars
               PROVE  ~trapped'
    BY DEF NeverTraps, WritesComplete
  <2>1. CASE \E i \in DOMAIN events, out \in Outcome : DeleteRow(i, out)
    <3>1. PICK i \in DOMAIN events, out \in Outcome : DeleteRow(i, out)
      BY <2>1
    <3>2. running' => Len(events') = rows - 1
      BY <3>1, DeletionShortens
      DEF AppInv, TableInv, TableMatchesList, DeleteRow, Interactive
    <3> QED
      BY <3>1, <3>2 DEF DeleteRow, ViewsDie
  <2>2. CASE \E out \in Outcome : saveButtonTapped(out) \/ createButtonTapped(out)
    BY <2>2 DEF saveButtonTapped, createButtonTapped, Present, ViewsDie
  <2>3. CASE AppDies \/ Crash \/ UNCHANGED appVars
    BY <2>3 DEF AppDies, Crash, ViewsDie, appVars, ui
  <2>4. CASE \/ AppLaunch \/ RunSetup \/ TapPlan \/ OpenHelp \/ DismissAlert
             \/ Back \/ CalendarOK \/ SwipeBackCancelled
             \/ handleIncomingDynamicLink \/ LinkAnswered \/ AppNetwork
             \/ ChooseCalendar \/ ExportEnds
             \/ \E i \in DOMAIN events : TapRow(i)
             \/ \E c \in Content : EditForm(c)
    BY <2>4 DEF AppLaunch, RunSetup, TapPlan, OpenHelp, DismissAlert, Present, Back,
                CalendarOK, Pop, SwipeBackCancelled, handleIncomingDynamicLink,
                LinkAnswered, AppNetwork, ChooseCalendar, ExportEnds, TapRow,
                EditForm, ui
  <2> QED
    BY <2>1, <2>2, <2>3, <2>4 DEF AppNext, Screens
<1> QED
  BY <1>1, <1>2, AppInvAlways, PTL DEF AppSpec

\* Where nothing traps, or a process may die anyway, the app is one of the
\* callers for which EventController is specified: all that is proved of Spec
\* holds of the app.
THEOREM AppIsController ==
  ASSUME "kill" \in Faults \/ WritesComplete
  PROVE  AppSpec => UsesController
<1>1. AppInit => Init
  BY DEF AppInit
<1>2. AppInv /\ NeverTraps /\ [AppNext]_appVars => [Next]_vars
  <2> SUFFICES ASSUME AppInv, NeverTraps, [AppNext]_appVars PROVE [Next]_vars
    OBVIOUS
  <2>1. CASE Crash
    <3>1. running /\ "kill" \in Faults
      BY <2>1 DEF Crash, AppInv, UITypeOK, NeverTraps
    <3> QED
      BY <2>1, <3>1 DEF Crash, Kill, Next
  <2> QED
    BY <2>1, AppStepIsControllerStep DEF AppInv
<1> QED
  BY <1>1, <1>2, AppInvAlways, NeverTrapsAlways, PTL DEF AppSpec, UsesController
-----------------------------------------------------------------------------
(* The alert of a save.                                                    *)

\* A save that does not end with the process keeps what the heap it is given
\* has for the object.
LEMMA SaveLeaves ==
  ASSUME NEW es, NEW hp, NEW hs, NEW calls, NEW out, running',
         saveToPersistenceStore(es, hp, hs, calls, out),
         NEW o \in (Range(es) \cup hs) \cap DOMAIN hp
  PROVE  events' = es /\ held' = hs /\ heap'[o] = hp[o]
<1>1. events' = es /\ held' = hs /\ heap' = Alive(hp, es, hs)
  BY DEF saveToPersistenceStore, ProcessDies
<1> QED
  BY <1>1 DEF Alive, Restrict

\* The paths on which nothing loads the file behind the planner.
UsualPaths == Paths \cap {"link", "cancelledSwipe"} = {}

\* The alert is about what the form shows.
AboutForm == alert = "saved" \/ (alert = "share" /\ form \notin Untitled)

\* The object that the planner edits is one of the list's.
EditsTheList ==
    /\ link = None
    /\ appearing => editing = None
    /\ editing # None => editing \in Range(events)
    /\ AboutForm => heap[editing].data = form

\* What a save that does not end with the process leaves.
LEMMA SaveEffect ==
  ASSUME IInv, UITypeOK, NEW out \in Outcome, saveEvent(out), running',
         editing # None => editing \in Range(events)
  PROVE  editing' \in Range(events') /\ heap'[editing'].data = form
<1>1. CASE editing # None /\ updateEvent(editing, form, out)
  <2> DEFINE rec == [heap[editing] EXCEPT !.data = form]
             hp == [heap EXCEPT ![editing] = rec]
             calls == updateEventInFirebase(rec)
  <2>1. saveToPersistenceStore(events, hp, held, calls, out)
    BY <1>1 DEF updateEvent
  <2>2. editing \in DOMAIN heap /\ heap[editing] \in Rec /\ editing \in Range(events)
    BY <1>1, HeapFacts
  <2>3. DOMAIN hp = DOMAIN heap /\ hp[editing].data = form
    BY <2>2 DEF Rec
  <2> HIDE DEF hp, calls
  <2>4. events' = events /\ heap'[editing] = hp[editing]
    BY <2>1, <2>2, <2>3, SaveLeaves
  <2>5. editing' = editing
    BY <1>1 DEF saveEvent
  <2> QED
    BY <2>2, <2>3, <2>4, <2>5
<1>2. CASE editing = None /\ createEvent(form, out)
  <2>1. PICK id \in Id \ usedIds, new \in NewObjects(1, DOMAIN heap) :
          LET rec == [id |-> id, data |-> form]
              o == new[1]
          IN saveToPersistenceStore(
               Append(events, o),
               [x \in DOMAIN heap \cup {o} |-> IF x = o THEN rec ELSE heap[x]],
               held \cup {o}, createEventInFirebase(rec), out)
    BY <1>2 DEF createEvent
  <2> DEFINE o == new[1]
             rec == [id |-> id, data |-> form]
             hp == [x \in DOMAIN heap \cup {o} |-> IF x = o THEN rec ELSE heap[x]]
             calls == createEventInFirebase(rec)
  <2>2. o \in Obj \ DOMAIN heap
    BY NewObjectsArePlaced
  <2>3. hp[o].data = form /\ o \in DOMAIN hp
    OBVIOUS
  <2>4. saveToPersistenceStore(Append(events, o), hp, held \cup {o}, calls, out)
    BY <2>1
  <2> HIDE DEF hp, calls, o
  <2>5. /\ events' = Append(events, o) /\ held' = held \cup {o}
        /\ heap'[o] = hp[o]
    <3>1. o \in (Range(Append(events, o)) \cup (held \cup {o})) \cap DOMAIN hp
      BY <2>3
    <3> QED
      BY <2>4, <3>1, SaveLeaves, Zenon
  <2>6. editing' = o
    BY <1>2, <2>5, NoneAssumption DEF saveEvent
  <2>7. o \in Range(events')
    BY <2>2, <2>5, HeapFacts, RangeOfAppend
  <2> QED
    BY <2>3, <2>5, <2>6, <2>7
<1> QED
  BY <1>1, <1>2 DEF saveEvent

LEMMA KeepsEditsTheList ==
  ASSUME AppInv, UITypeOK', UsualPaths, EditsTheList, [AppNext]_appVars
  PROVE  EditsTheList'
<1> USE DEF AppInv, UITypeOK, AboutForm
<1>1. CASE AppLaunch \/ RunSetup
  <2>1. editing = None /\ alert \notin {"saved", "share"} /\ UNCHANGED <<link, editing, alert>>
    BY <1>1 DEF AppLaunch, Launch, RunSetup, EditsTheList
  <2> QED
    BY <2>1 DEF EditsTheList
<1>2. CASE ViewsDie
  BY <1>2 DEF ViewsDie, EditsTheList
<1>3. CASE Plain
  <2>1. UNCHANGED <<heap, events, link, editing>>
    BY <1>3 DEF Plain, TapPlan, OpenHelp, DismissAlert, SwipeBackCancelled, LinkAnswered,
           AppNetwork, EditForm, Present, vars, controllerVars, memory, ui, Network,
           fetchReturns, fetchFails
  <2>2. UNCHANGED appearing
    BY <1>3 DEF Plain, TapPlan, OpenHelp, DismissAlert, SwipeBackCancelled, LinkAnswered,
           AppNetwork, EditForm, Present, ui, UsualPaths
  <2>3. AboutForm' => AboutForm /\ form' = form
    BY <1>3 DEF Plain, TapPlan, OpenHelp, DismissAlert, SwipeBackCancelled, LinkAnswered,
           AppNetwork, EditForm, Present, Interactive, ui
  <2> QED
    BY <2>1, <2>2, <2>3 DEF EditsTheList
<1>4. CASE ChooseCalendar
  BY <1>4 DEF ChooseCalendar, Present, EditsTheList, vars, controllerVars, memory
<1>5. CASE ExportEnds
  <2>1. UNCHANGED <<events, link, editing, appearing, alert, form>>
    BY <1>5 DEF ExportEnds, Release, vars, controllerVars, memory
  <2>2. editing # None => heap'[editing] = heap[editing]
    <3>1. CASE UNCHANGED vars
      BY <3>1 DEF vars, controllerVars, memory
    <3>2. CASE Release(exporting)
      <4>1. heap' = Alive(heap, events, held')
        BY <3>2 DEF Release
      <4>2. editing # None => editing \in Range(events) /\ editing \in DOMAIN heap
        BY HeapFacts DEF EditsTheList
      <4> QED
        BY <4>1, <4>2 DEF Alive, Restrict
    <3> QED
      BY <1>5, <3>1, <3>2 DEF ExportEnds
  <2> QED
    BY <2>1, <2>2 DEF EditsTheList
<1>6. CASE \E i \in DOMAIN events : TapRow(i)
  <2>1. PICK i \in DOMAIN events : TapRow(i)
    BY <1>6
  <2>2. UNCHANGED <<events, link, appearing>> /\ editing' = events[i] /\ alert' = "none"
    BY <2>1 DEF TapRow, Take, Interactive, vars, controllerVars, memory
  <2>3. ~appearing
    BY <2>1 DEF TapRow, Interactive
  <2> QED
    BY <2>2, <2>3 DEF EditsTheList, Range
<1>7. CASE \E i \in DOMAIN events, out \in Outcome : DeleteRow(i, out)
  <2>1. editing = None /\ alert = "none"
    BY <1>7 DEF DeleteRow, Interactive
  <2>2. ViewsDie \/ UNCHANGED <<link, editing, alert>>
    BY <1>7 DEF DeleteRow, Raise
  <2> QED
    BY <1>2, <2>1, <2>2 DEF EditsTheList
<1>8. CASE \E out \in Outcome : saveButtonTapped(out) \/ createButtonTapped(out)
  <2>1. PICK out \in Outcome, a \in {"untitled", "saved", "share"} :
          /\ ~appearing
          /\ \/ /\ Present(a) /\ UNCHANGED <<vars, editing>>
                /\ a = "untitled" \/ (a = "share" /\ form \in Untitled)
             \/ saveEvent(out) /\ IF running' THEN Present(a) ELSE ViewsDie
    BY <1>8 DEF saveButtonTapped, createButtonTapped, Interactive
  <2>2. CASE /\ Present(a) /\ UNCHANGED <<vars, editing>>
             /\ a = "untitled" \/ (a = "share" /\ form \in Untitled)
    BY <2>2 DEF Present, EditsTheList, vars, controllerVars, memory
  <2>3. CASE saveEvent(out) /\ running' /\ Present(a)
    <3>1. editing' \in Range(events') /\ heap'[editing'].data = form
      BY <2>3, SaveEffect DEF EditsTheList
    <3> QED
      BY <2>1, <2>3, <3>1 DEF Present, EditsTheList
  <2> QED
    BY <1>2, <2>1, <2>2, <2>3
<1>9. CASE Back \/ CalendarOK
  BY <1>9 DEF Back, CalendarOK, Pop, EditsTheList
<1>10. CASE handleIncomingDynamicLink
  BY <1>10 DEF handleIncomingDynamicLink, EditsTheList
<1>11. CASE AppDies \/ Crash
  BY <1>2, <1>11 DEF AppDies, Crash
<1>12. CASE UNCHANGED appVars
  BY <1>12 DEF appVars, vars, controllerVars, memory, ui, EditsTheList
<1> QED
  BY <1>1, <1>3, <1>4, <1>5, <1>6, <1>7, <1>8, <1>9, <1>10, <1>11, <1>12
  DEF AppNext, Screens, Plain

\* The file is the list, and the list has the event that is edited.
LEMMA EditedIsSaved ==
  ASSUME AppInv, EditsTheList, WritesComplete, alert \in {"saved", "share"}
  PROVE  ContentOf(Saved, heap[editing].id) = {heap[editing].data}
<1> USE DEF AppInv
<1>1. running /\ editing \in Range(events)
  BY DEF UITypeOK, EditsTheList
<1>2. Saved = Values(heap, events) /\ DistinctIds(Saved)
  BY <1>1 DEF IInv, Mirror, UniqueIds, WritesComplete
<1>3. PICK i \in DOMAIN events : events[i] = editing
  BY <1>1 DEF Range
<1>4. DOMAIN Saved = DOMAIN events /\ Saved[i] = heap[editing]
  BY <1>2, <1>3 DEF Values
<1>5. {j \in DOMAIN Saved : Saved[j].id = heap[editing].id} = {i}
  BY <1>2, <1>3, <1>4 DEF DistinctIds
<1> QED
  BY <1>4, <1>5 DEF ContentOf

LEMMA EditsTheListAlways ==
  ASSUME UsualPaths
  PROVE  AppSpec => [](AppInv /\ EditsTheList)
<1>1. AppInit => EditsTheList
  BY DEF AppInit, EditsTheList, AboutForm, UsualPaths
<1>2. AppInv /\ AppInv' /\ EditsTheList /\ [AppNext]_appVars => EditsTheList'
  BY KeepsEditsTheList DEF AppInv
<1> QED
  BY <1>1, <1>2, AppInvAlways, PTL DEF AppSpec

\* On the usual paths, where no write of the file fails, "Your event has been
\* saved successfully" is true whenever it is shown: the file holds the form.
THEOREM SaveHonouredAlways ==
  ASSUME UsualPaths, WritesComplete
  PROVE  AppSpec => []SaveHonoured
<1>1. AppInv /\ EditsTheList => SaveHonoured
  BY EditedIsSaved DEF EditsTheList, AboutForm, SaveHonoured
<1> QED
  BY <1>1, EditsTheListAlways, PTL

\* On the usual paths, where no write of the file fails, the calendar and the link
\* are offered for an event as the file has it, which with a title is the form.
THEOREM OfferIsSavedAlways ==
  ASSUME UsualPaths, WritesComplete
  PROVE  AppSpec => []OfferIsSaved
<1>1. AppInv /\ EditsTheList => OfferIsSaved
  BY EditedIsSaved DEF EditsTheList, AboutForm, OfferIsSaved
<1> QED
  BY <1>1, EditsTheListAlways, PTL

\* The client's promises hold of the app too, whatever the user does.
THEOREM AppClient == AppSpec => []SentIsApplied /\ ViewIsStable
<1>1. AppInit => SentIsApplied
  BY DEF AppInit, Init, FirestoreInit, SentIsApplied
<1>2. AppInv /\ SentIsApplied /\ [AppNext]_appVars => SentIsApplied'
  <2> SUFFICES ASSUME AppInv, SentIsApplied, [AppNext]_appVars PROVE SentIsApplied'
    OBVIOUS
  <2>1. StreamStep
    BY AppStepIsControllerStep, StepIsStreamStep, DeathEndsStream DEF AppInv, Crash
  <2> QED
    BY <2>1, SentIsAppliedInductive DEF AppInv, IInv, TypeOK
<1>3. AppInv /\ SentIsApplied
        => [Background => \A id \in Id : View(id)' = View(id)]_firestoreVars
  BY ViewStableStep DEF AppInv, IInv, TypeOK
<1> QED
  BY <1>1, <1>2, <1>3, AppInvAlways, PTL DEF AppSpec, ViewIsStable
=============================================================================
