------------------------ MODULE CalendarExportProofs ------------------------
(***************************************************************************)
(* What the calendar gets, for every number of fields that the block reads *)
(* and every way the app may go on between two reads.                      *)
(*                                                                         *)
(* The block reads without a lock.  It is safe because no one else has its *)
(* object when the main thread can change one: Private is the strengthening*)
(* that says so, and it rests on the list loading new objects each time it *)
(* appears (LoadLeaves).                                                   *)
(***************************************************************************)
EXTENDS CalendarExport, FamilyNightProofs

BlockTypeOK ==
    /\ access \in {"undecided", "granted", "denied"}
    /\ block \in {"none", "waiting", "reading"}
    /\ exporting # None <=> block # "none"
    /\ copied \in Seq(Content) /\ Len(copied) <= Fields
    /\ block = "none" => copied = <<>>
    /\ chosen \in Content
    /\ agenda \in Seq([chosen : Content, fields : Seq(Content)])

\* The planner that exports is still below its alert, or the list is about to
\* load, or neither the list nor the planner on the screen has the object.
Private ==
    exporting # None =>
      \/ editing = exporting /\ alert = "calendar"
      \/ editing = None /\ appearing
      \/ exporting \notin Range(events) \cup {editing}

CopyIsChosen ==
    block # "none" =>
      /\ heap[exporting].data = chosen
      /\ \A j \in 1..Len(copied) : copied[j] = chosen

CalendarInv ==
    /\ AppInv
    /\ BlockTypeOK
    /\ WritesComplete => Private /\ CopyIsChosen /\ EntryWasTheEvent

-----------------------------------------------------------------------------
(* What the operations of the controller do to an object that is held.     *)

\* A load leaves the object alone and takes it out of the list.
LEMMA LoadLeaves ==
  ASSUME IInv, running, WritesComplete,
         loadFromPersistenceStore(events, heap, held), NEW o \in held
  PROVE  heap'[o] = heap[o] /\ o \notin Range(events')
<1>1. /\ heap \in [DOMAIN heap -> Rec] /\ DOMAIN heap = Range(events) \cup held
      /\ events \in Seq(Obj)
  BY HeapFacts
<1>2. CASE file \in {NoFile, Torn}
  <2>1. events' = events /\ heap' = Alive(heap, events, held)
    BY <1>2 DEF loadFromPersistenceStore
  <2>2. Values(heap, events) = <<>>
    BY <1>2 DEF IInv, Mirror, Saved, WritesComplete
  <2>3. Len(events) = 0
    <3>1. Len(Values(heap, events)) = Len(events)
      BY <1>1, ValuesElements
    <3> QED
      BY <2>2, <3>1
  <2>4. Range(events) = {}
    BY <1>1, <2>3 DEF Range
  <2>5. Alive(heap, events, held)[o] = heap[o]
    BY <1>1 DEF Alive, Restrict
  <2> QED
    BY <2>1, <2>4, <2>5
<1>3. CASE file \notin {NoFile, Torn}
  <2>1. file \in Seq(Rec)
    BY <1>3 DEF IInv, TypeOK
  <2>2. PICK new \in NewObjects(Len(file), held) :
          /\ events' = new
          /\ heap' = [p \in Range(new) \cup held |->
                        IF p \in held THEN heap[p]
                        ELSE file[CHOOSE i \in DOMAIN new : new[i] = p]]
    BY <1>3 DEF loadFromPersistenceStore
  <2>3. heap'[o] = heap[o]
    BY <2>2
  <2>4. new \in [1..Len(file) -> Obj \ held]
    BY <2>1, <2>2, NewObjectsArePlaced
  <2>5. o \notin Range(events')
    BY <2>2, <2>4 DEF Range
  <2> QED
    BY <2>3, <2>5
<1> QED
  BY <1>2, <1>3

\* A save by the planner changes the object it edits and no other.
LEMMA PlannerSaveLeaves ==
  ASSUME IInv, UITypeOK, NEW out \in Outcome, saveEvent(out), running',
         exporting # None, exporting \notin Range(events) \cup {editing}
  PROVE  /\ heap'[exporting] = heap[exporting]
         /\ exporting \notin Range(events') \cup {editing'}
<1>1. exporting \in held /\ exporting \in DOMAIN heap /\ held \subseteq DOMAIN heap
  BY HeapFacts DEF UITypeOK
<1>2. CASE editing # None /\ updateEvent(editing, form, out)
  <2> DEFINE rec == [heap[editing] EXCEPT !.data = form]
             hp == [heap EXCEPT ![editing] = rec]
             calls == updateEventInFirebase(rec)
  <2>1. saveToPersistenceStore(events, hp, held, calls, out)
    BY <1>2 DEF updateEvent
  <2>2. DOMAIN hp = DOMAIN heap /\ hp[exporting] = heap[exporting]
    BY <1>1
  <2> HIDE DEF hp, calls
  <2>3. events' = events /\ heap'[exporting] = hp[exporting]
    BY <1>1, <2>1, <2>2, SaveLeaves
  <2>4. editing' = editing
    BY <1>2 DEF saveEvent
  <2> QED
    BY <2>2, <2>3, <2>4
<1>3. CASE editing = None /\ createEvent(form, out)
  <2>1. PICK id \in Id \ usedIds, new \in NewObjects(1, DOMAIN heap) :
          LET rec == [id |-> id, data |-> form]
              o == new[1]
          IN saveToPersistenceStore(
               Append(events, o),
               [x \in DOMAIN heap \cup {o} |-> IF x = o THEN rec ELSE heap[x]],
               held \cup {o}, createEventInFirebase(rec), out)
    BY <1>3 DEF createEvent
  <2> DEFINE o == new[1]
             rec == [id |-> id, data |-> form]
             hp == [x \in DOMAIN heap \cup {o} |-> IF x = o THEN rec ELSE heap[x]]
             calls == createEventInFirebase(rec)
  <2>2. o \in Obj \ DOMAIN heap
    BY NewObjectsArePlaced
  <2>3. hp[exporting] = heap[exporting] /\ DOMAIN hp = DOMAIN heap \cup {o}
    BY <1>1, <2>2
  <2>4. saveToPersistenceStore(Append(events, o), hp, held \cup {o}, calls, out)
    BY <2>1
  <2> HIDE DEF hp, calls, o
  <2>5. /\ events' = Append(events, o) /\ held' = held \cup {o}
        /\ heap'[exporting] = hp[exporting]
    <3>1. exporting \in (held \cup {o}) \cap DOMAIN hp
      BY <1>1, <2>3
    <3> QED
      BY <2>4, <3>1, SaveLeaves, Zenon
  <2>6. editing' \in held' \ held
    BY <1>3, NoneAssumption DEF saveEvent
  <2>7. Range(events') = Range(events) \cup {o}
    BY <2>2, <2>5, HeapFacts, RangeOfAppend
  <2> QED
    BY <1>1, <2>2, <2>3, <2>5, <2>6, <2>7
<1> QED
  BY <1>2, <1>3 DEF saveEvent

LEMMA DeleteLeaves ==
  ASSUME IInv, NEW i \in DOMAIN events, NEW out \in Outcome,
         delete(events[i], out), running', NEW o \in held, o \notin Range(events)
  PROVE  heap'[o] = heap[o] /\ o \notin Range(events')
<1> DEFINE k == Min(IndicesOf(events[i]))
           calls == <<DeleteDocument(heap[events[i]].id)>>
<1>1. events \in Seq(Obj) /\ held \subseteq DOMAIN heap
  BY HeapFacts
<1>2. CASE UNCHANGED memory
  BY <1>2 DEF memory
<1>3. CASE saveToPersistenceStore(RemoveAt(events, k), heap, held, calls, out)
  <2>1. IndicesOf(events[i]) \subseteq 1..Len(events) /\ IndicesOf(events[i]) # {}
    BY <1>1 DEF IndicesOf
  <2>2. k \in 1..Len(events)
    BY <2>1, MinIsLeast
  <2> HIDE DEF k, calls
  <2>3. events' = RemoveAt(events, k) /\ heap'[o] = heap[o]
    BY <1>1, <1>3, SaveLeaves
  <2>4. /\ RemoveAt(events, k) \in Seq(Obj)
        /\ Len(RemoveAt(events, k)) = Len(events) - 1
        /\ \A j \in 1..Len(events) - 1 :
             RemoveAt(events, k)[j] = events[IF j < k THEN j ELSE j + 1]
    BY <1>1, <2>2, RemoveAtElements
  <2>5. ASSUME NEW j \in 1..Len(events) - 1 PROVE RemoveAt(events, k)[j] # o
    BY <1>1, <2>4 DEF Range
  <2> QED
    BY <1>1, <2>3, <2>4, <2>5 DEF Range
<1> QED
  BY <1>2, <1>3, Zenon DEF delete

-----------------------------------------------------------------------------
(* The app goes on.                                                        *)

\* The block's planner stays the block's, or everything is gone.
LEMMA ScreensKeepExporting ==
  ASSUME IInv, UITypeOK, Screens
  PROVE  \/ running' /\ exporting' = exporting
         \/ ~running' /\ exporting' = None
<1>0. Screens => [AppNext]_appVars
  BY DEF AppNext
<1>1. UITypeOK'
  BY <1>0, AppKeepsUI, AppKeepsIInv
<1>2. exporting' = exporting \/ (~running' /\ exporting' = None)
  BY DEF Screens, AppLaunch, RunSetup, TapPlan, TapRow, DeleteRow, Raise, ViewsDie,
         OpenHelp, EditForm, saveButtonTapped, createButtonTapped, DismissAlert,
         Back, CalendarOK, Pop, SwipeBackCancelled, handleIncomingDynamicLink,
         LinkAnswered, AppDies, Crash, Kill, ProcessDies, AppNetwork, ui
<1>3. running' \in BOOLEAN
  BY <1>0, AppKeepsIInv DEF IInv, TypeOK
<1> QED
  BY <1>1, <1>2, <1>3 DEF UITypeOK

LEMMA ScreensLeave ==
  ASSUME AppInv, WritesComplete, Private, Screens, exporting # None, running'
  PROVE  heap'[exporting] = heap[exporting] /\ Private'
<1> USE DEF AppInv
<1>0. exporting' = exporting /\ running /\ exporting \in held
  BY ScreensKeepExporting DEF UITypeOK
<1>1. CASE \/ UNCHANGED <<heap, events, editing, appearing>> /\ alert # "calendar"
           \/ UNCHANGED <<heap, events, editing, appearing, alert>>
  BY <1>0, <1>1 DEF Private
<1>2. CASE SwipeBackCancelled
  BY <1>0, <1>2
  DEF SwipeBackCancelled, Interactive, Private, vars, controllerVars, memory
<1>3. CASE TapPlan \/ OpenHelp \/ DismissAlert \/ LinkAnswered \/ AppNetwork
           \/ \E c \in Content : EditForm(c)
  <2>1. \/ UNCHANGED <<heap, events, editing, appearing>> /\ alert # "calendar"
        \/ UNCHANGED <<heap, events, editing, appearing, alert>>
    BY <1>3 DEF TapPlan, OpenHelp, DismissAlert, LinkAnswered, AppNetwork,
                EditForm, Present, Interactive, vars, controllerVars, memory, ui,
                Network, fetchReturns, fetchFails
  <2> QED
    BY <1>1, <2>1
<1>4. CASE /\ loadFromPersistenceStore(events, heap, held)
           /\ UNCHANGED <<editing, alert>>
  <2>1. heap'[exporting] = heap[exporting] /\ exporting \notin Range(events')
    BY <1>0, <1>4, LoadLeaves
  <2> QED
    BY <1>0, <1>4, <2>1 DEF Private
<1>5. CASE \E i \in DOMAIN events : TapRow(i)
  <2>1. PICK i \in DOMAIN events : TapRow(i)
    BY <1>5
  <2>2. events[i] \in Range(events) /\ exporting \notin Range(events)
    BY <2>1 DEF TapRow, Interactive, Private, Range
  <2>3. UNCHANGED <<heap, events>> /\ editing' = events[i]
    BY <2>1 DEF TapRow, Take, vars, controllerVars, memory
  <2> QED
    BY <1>0, <2>2, <2>3 DEF Private
<1>6. CASE \E i \in DOMAIN events, out \in Outcome : DeleteRow(i, out)
  <2>1. PICK i \in DOMAIN events, out \in Outcome : DeleteRow(i, out)
    BY <1>6
  <2>2. exporting \notin Range(events) \cup {editing} /\ delete(events[i], out)
    BY <2>1 DEF DeleteRow, Interactive, Private, UITypeOK
  <2>3. editing' = editing
    BY <2>1 DEF DeleteRow, Raise
  <2> QED
    BY <1>0, <2>2, <2>3, DeleteLeaves DEF Private
<1>7. CASE \E out \in Outcome : saveButtonTapped(out) \/ createButtonTapped(out)
  <2>1. PICK out \in Outcome : \/ saveEvent(out)
                               \/ UNCHANGED <<vars, editing>>
    BY <1>7 DEF saveButtonTapped, createButtonTapped
  <2>2. exporting \notin Range(events) \cup {editing}
    BY <1>7 DEF saveButtonTapped, createButtonTapped, Interactive, Private
  <2>3. CASE saveEvent(out)
    BY <1>0, <2>2, <2>3, PlannerSaveLeaves DEF Private
  <2>4. CASE UNCHANGED <<vars, editing>>
    BY <1>0, <2>2, <2>4 DEF Private, vars, controllerVars, memory
  <2> QED
    BY <2>1, <2>3, <2>4
<1>8. CASE Back \/ CalendarOK
  <2>1. editing' = None /\ appearing'
    BY <1>8 DEF Back, CalendarOK, Pop
  <2>2. heap'[exporting] = heap[exporting]
    <3>1. CASE UNCHANGED vars
      BY <3>1 DEF vars, controllerVars, memory
    <3>2. CASE Release(editing) /\ editing # exporting
      <4>1. exporting \in held' /\ heap' = Alive(heap, events, held')
        BY <1>0, <3>2 DEF Release
      <4>2. exporting \in DOMAIN heap
        BY <1>0, HeapFacts
      <4> QED
        BY <4>1, <4>2 DEF Alive, Restrict
    <3> QED
      BY <1>8, <3>1, <3>2 DEF Back, CalendarOK, Pop
  <2> QED
    BY <2>1, <2>2 DEF Private
<1>9. CASE RunSetup
  BY <1>4, <1>9 DEF RunSetup, reload
<1>10. CASE handleIncomingDynamicLink
  <2>1. CASE UNCHANGED vars
    BY <1>1, <1>10, <2>1
    DEF handleIncomingDynamicLink, vars, controllerVars, memory
  <2>2. CASE fetchEventWith(link)
    BY <1>4, <1>10, <2>2 DEF handleIncomingDynamicLink, fetchEventWith
  <2> QED
    BY <1>10, <2>1, <2>2 DEF handleIncomingDynamicLink
<1>11. CASE AppLaunch \/ AppDies \/ Crash
  BY <1>0, <1>11 DEF AppLaunch, Launch, AppDies, Kill, Crash, ProcessDies
<1> QED
  BY <1>2, <1>3, <1>5, <1>6, <1>7, <1>8, <1>9, <1>10, <1>11 DEF Screens

-----------------------------------------------------------------------------
(* The steps of the block.                                                 *)

LEMMA CalendarStepIsAppStep ==
  ASSUME [CalendarNext]_exportVars
  PROVE  [AppNext]_appVars
BY DEF CalendarNext, AppGoesOn, RequestAccess, UserAnswers, BlockRefused,
       BlockStarts, ReadField, SaveEntry, BlockEnds, AppNext, exportVars

\* With the calendar's queue beside the main thread, the app takes no step that it
\* does not take without: what is proved of AppSpec holds here.  This is where
\* the abstraction of the calendar in FamilyNight, two steps that begin and end
\* an export, is justified.
THEOREM CalendarIsApp == CalendarSpec => AppSpec
<1>1. CalendarInit => AppInit
  BY DEF CalendarInit
<1>2. [CalendarNext]_exportVars => [AppNext]_appVars
  BY CalendarStepIsAppStep
<1> QED
  BY <1>1, <1>2, PTL DEF CalendarSpec, AppSpec

LEMMA CalendarKeepsTypes ==
  ASSUME AppInv, AppInv', BlockTypeOK, [CalendarNext]_exportVars
  PROVE  BlockTypeOK'
<1> USE DEF BlockTypeOK
<1>1. CASE AppGoesOn
  <2>1. CASE running' /\ exporting' = exporting
    BY <1>1, <2>1 DEF AppGoesOn
  <2>2. CASE ~running' /\ exporting' = None
    BY <1>1, <2>2, BlankAssumption, FieldsAssumption DEF AppGoesOn
  <2> QED
    BY <1>1, <2>1, <2>2, ScreensKeepExporting DEF AppGoesOn, AppInv
<1>2. CASE RequestAccess
  <2>1. exporting' # None /\ heap[editing].data \in Content
    <3>1. editing # None
      BY <1>2 DEF RequestAccess, ChooseCalendar, AppInv, UITypeOK
    <3>2. editing \in DOMAIN heap
      BY <3>1, HeapFacts DEF AppInv, UITypeOK
    <3> QED
      BY <1>2, <3>1, <3>2, HeapFacts DEF RequestAccess, ChooseCalendar, AppInv, Rec
  <2> QED
    BY <1>2, <2>1 DEF RequestAccess, ChooseCalendar
<1>3. CASE UserAnswers \/ BlockStarts
  BY <1>3 DEF UserAnswers, BlockStarts, Prompting, appVars, ui
<1>4. CASE BlockRefused
  BY <1>4, BlankAssumption, FieldsAssumption DEF BlockRefused, BlockEnds, ExportEnds
<1>5. CASE ReadField
  <2>1. exporting \in DOMAIN heap
    BY <1>5, HeapFacts DEF ReadField, AppInv, UITypeOK
  <2>2. heap[exporting].data \in Content
    BY <2>1, HeapFacts DEF AppInv, Rec
  <2>3. copied' \in Seq(Content) /\ Len(copied') = Len(copied) + 1
    BY <1>5, <2>2 DEF ReadField
  <2>4. Len(copied') <= Fields
    BY <1>5, <2>3, FieldsAssumption DEF ReadField
  <2> QED
    BY <1>5, <2>3, <2>4 DEF ReadField, appVars, ui
<1>6. CASE SaveEntry
  <2>1. agenda' \in Seq([chosen : Content, fields : Seq(Content)])
    <3> DEFINE Entry == [chosen : Content, fields : Seq(Content)]
               e == [chosen |-> chosen, fields |-> copied]
    <3>1. e \in Entry /\ agenda \in Seq(Entry)
      OBVIOUS
    <3>2. agenda' = Append(agenda, e) \/ agenda' = agenda
      BY <1>6 DEF SaveEntry
    <3> HIDE DEF Entry, e
    <3>3. agenda' \in Seq(Entry)
      BY <3>1, <3>2
    <3> QED
      BY <3>3 DEF Entry
  <2> QED
    BY <1>6, <2>1, BlankAssumption, FieldsAssumption DEF SaveEntry, BlockEnds, ExportEnds
<1>7. CASE UNCHANGED exportVars
  BY <1>7 DEF exportVars, calendarVars, appVars, ui
<1> QED
  BY <1>1, <1>2, <1>3, <1>4, <1>5, <1>6, <1>7 DEF CalendarNext

LEMMA CalendarKeepsCopies ==
  ASSUME AppInv, BlockTypeOK, BlockTypeOK', WritesComplete, Private, CopyIsChosen,
         EntryWasTheEvent, [CalendarNext]_exportVars
  PROVE  Private' /\ CopyIsChosen' /\ EntryWasTheEvent'
<1>1. CASE AppGoesOn
  <2>1. EntryWasTheEvent'
    BY <1>1 DEF AppGoesOn, EntryWasTheEvent
  <2>2. CASE exporting' = None
    BY <2>1, <2>2 DEF Private, CopyIsChosen, BlockTypeOK
  <2>3. CASE exporting' # None
    <3>1. running' /\ exporting' = exporting
      BY <1>1, <2>3, ScreensKeepExporting DEF AppGoesOn, AppInv
    <3>2. heap'[exporting] = heap[exporting] /\ Private'
      BY <1>1, <2>3, <3>1, ScreensLeave DEF AppGoesOn
    <3>3. CopyIsChosen'
      BY <1>1, <3>1, <3>2 DEF AppGoesOn, CopyIsChosen
    <3> QED
      BY <2>1, <3>2, <3>3
  <2> QED
    BY <2>2, <2>3
<1>2. CASE RequestAccess
  <2>1. exporting = None /\ copied = <<>>
    BY <1>2 DEF RequestAccess, ChooseCalendar, BlockTypeOK
  <2>2. UNCHANGED heap
    BY <1>2 DEF RequestAccess, ChooseCalendar, vars, controllerVars, memory
  <2> QED
    BY <1>2, <2>1, <2>2
    DEF RequestAccess, ChooseCalendar, Present, Private, CopyIsChosen, EntryWasTheEvent
<1>3. CASE UserAnswers \/ BlockStarts \/ UNCHANGED exportVars
  BY <1>3 DEF UserAnswers, BlockStarts, Prompting, exportVars, calendarVars, appVars,
              ui, vars, controllerVars, memory, Private, CopyIsChosen, EntryWasTheEvent
<1>4. CASE BlockRefused
  BY <1>4 DEF BlockRefused, BlockEnds, ExportEnds, Private, CopyIsChosen, EntryWasTheEvent
<1>5. CASE ReadField
  <2>1. UNCHANGED <<heap, exporting, editing, alert, appearing, events, chosen, agenda>>
    BY <1>5 DEF ReadField, appVars, ui, vars, controllerVars, memory
  <2>2. heap[exporting].data = chosen /\ copied \in Seq(Content)
    BY <1>5 DEF ReadField, CopyIsChosen, BlockTypeOK
  <2>3. /\ copied' = Append(copied, chosen)
        /\ \A j \in 1..Len(copied) : copied[j] = chosen
    BY <1>5, <2>2 DEF ReadField, CopyIsChosen
  <2>4. \A j \in 1..Len(copied') : copied'[j] = chosen
    BY <2>2, <2>3
  <2> QED
    BY <2>1, <2>2, <2>4 DEF Private, CopyIsChosen, EntryWasTheEvent
<1>6. CASE SaveEntry
  <2>1. exporting' = None /\ block' = "none"
    BY <1>6 DEF SaveEntry, BlockEnds, ExportEnds
  <2>2. \A j \in 1..Fields : copied[j] = chosen
    BY <1>6 DEF SaveEntry, CopyIsChosen
  <2>3. EntryWasTheEvent'
    <3>1. CASE agenda' = agenda
      BY <3>1 DEF EntryWasTheEvent
    <3>2. CASE agenda' = Append(agenda, [chosen |-> chosen, fields |-> copied])
      <4> DEFINE e == [chosen |-> chosen, fields |-> copied]
      <4>1. agenda \in Seq([chosen : Content, fields : Seq(Content)])
        BY DEF BlockTypeOK
      <4>2. e.chosen = chosen /\ e.fields = copied
        OBVIOUS
      <4>3. e \in [chosen : Content, fields : Seq(Content)]
        BY DEF BlockTypeOK
      <4> HIDE DEF e
      <4>4. ASSUME NEW i \in DOMAIN agenda'
            PROVE  agenda'[i] = e \/ (i \in DOMAIN agenda /\ agenda'[i] = agenda[i])
        BY <3>2, <4>1, <4>3 DEF e
      <4> QED
        BY <2>2, <4>2, <4>4 DEF EntryWasTheEvent, WritesComplete
    <3> QED
      BY <1>6, <3>1, <3>2 DEF SaveEntry
  <2> QED
    BY <2>1, <2>3 DEF Private, CopyIsChosen
<1> QED
  BY <1>1, <1>2, <1>3, <1>4, <1>5, <1>6 DEF CalendarNext

-----------------------------------------------------------------------------
LEMMA CalendarInitInv == CalendarInit => CalendarInv
<1> SUFFICES ASSUME CalendarInit PROVE CalendarInv
  OBVIOUS
<1>1. AppInv
  BY AppInitInv DEF CalendarInit
<1>2. exporting = None
  BY DEF CalendarInit, AppInit
<1>3. BlockTypeOK
  BY <1>2, BlankAssumption, FieldsAssumption DEF CalendarInit, BlockTypeOK
<1>4. Private /\ CopyIsChosen /\ EntryWasTheEvent
  BY <1>2 DEF CalendarInit, Private, CopyIsChosen, EntryWasTheEvent
<1> QED
  BY <1>1, <1>3, <1>4 DEF CalendarInv

\* The inductive invariant of the export holds in every behaviour.
THEOREM CalendarInvAlways == CalendarSpec => []CalendarInv
<1>1. CalendarInit => CalendarInv
  BY CalendarInitInv
<1>2. CalendarInv /\ [CalendarNext]_exportVars => CalendarInv'
  <2> SUFFICES ASSUME CalendarInv, [CalendarNext]_exportVars PROVE CalendarInv'
    OBVIOUS
  <2>1. AppInv'
    BY CalendarStepIsAppStep, AppInvInductive DEF CalendarInv
  <2>2. BlockTypeOK'
    BY <2>1, CalendarKeepsTypes DEF CalendarInv
  <2>3. WritesComplete' <=> WritesComplete
    BY DEF WritesComplete
  <2> QED
    BY <2>1, <2>2, <2>3, CalendarKeepsCopies DEF CalendarInv
<1> QED
  BY <1>1, <1>2, PTL DEF CalendarSpec

\* A block is there exactly while it keeps its planner's event, and everything
\* has its type.
THEOREM CalendarTypeCorrect == CalendarSpec => []CalendarTypeOK
<1>1. CalendarInv => CalendarTypeOK
  BY DEF CalendarInv, AppInv, IInv, UITypeOK, AppTypeOK, Alerts, BlockTypeOK,
         CalendarTypeOK
<1> QED
  BY <1>1, CalendarInvAlways, PTL

\* Where no write of the file fails, every field of an entry is the field of
\* the event as it was when the user chose to export it, however the app went
\* on while the block read.
THEOREM EntriesAreEvents == CalendarSpec => []EntryWasTheEvent
<1>1. CalendarInv => EntryWasTheEvent
  BY DEF CalendarInv, EntryWasTheEvent
<1> QED
  BY <1>1, CalendarInvAlways, PTL
=============================================================================
