--------------------------- MODULE CalendarExport ---------------------------
(***************************************************************************)
(* Adding an event to the device's calendar: what happens behind the       *)
(* alert that says it was added.  The calendar asks the user once for      *)
(* access and then runs the planner's completion block on a queue of its   *)
(* own.  The block reads the fields of self.event one by one while the     *)
(* main thread goes on: the planner may be popped, the list reloaded, and  *)
(* the same event changed or deleted in a new planner.                     *)
(***************************************************************************)
EXTENDS FamilyNight

CONSTANTS Fields,     \* the number of fields the block reads
          MaxEntries  \* bound: entries of the calendar

ASSUME FieldsAssumption == Fields \in Nat \ {0}
ASSUME MaxEntriesAssumption == MaxEntries \in Nat

VARIABLES access,  \* the user's permission; iOS keeps it
          block,   \* the completion block: what it is doing
          copied,  \* the contents at the reads the block has made
          chosen,  \* history: the content when "Calendar" was tapped
          agenda   \* the calendar's entries: chosen and read contents

calendarVars == <<access, block, copied, chosen, agenda>>
exportVars == <<appVars, calendarVars>>

CalendarTypeOK ==
    /\ AppTypeOK
    /\ access \in {"undecided", "granted", "denied"}
    /\ block \in {"none", "waiting", "reading"}
    /\ exporting # None <=> block # "none"
    /\ copied \in Seq(Content) /\ Len(copied) <= Fields
    /\ chosen \in Content
    /\ agenda \in Seq([chosen : Content, fields : Seq(Content)])

CalendarInit ==
    /\ AppInit
    /\ access = "undecided"
    /\ block = "none" /\ copied = <<>> /\ chosen = Blank
    /\ agenda = <<>>

BlockEnds ==
    /\ ExportEnds
    /\ block' = "none" /\ copied' = <<>> /\ chosen' = Blank
    /\ UNCHANGED access

-----------------------------------------------------------------------------
RequestAccess ==
    /\ ChooseCalendar
    /\ Len(agenda) < MaxEntries
    /\ block' = "waiting" /\ chosen' = heap[editing].data
    /\ UNCHANGED <<access, copied, agenda>>

\* The system's question covers the app until it is answered.
Prompting == block = "waiting" /\ access = "undecided"

UserAnswers ==
    /\ Prompting
    /\ access' \in {"granted", "denied"}
    /\ UNCHANGED <<appVars, block, copied, chosen, agenda>>

\* Mutant: the planner is not let go of.
BlockRefusedLeaking ==
    /\ block = "waiting" /\ access = "denied"
    /\ block' = "none" /\ copied' = <<>> /\ chosen' = Blank
    /\ UNCHANGED <<appVars, access, agenda>>

\* The block runs: without access it only prints.
BlockRefused ==
    /\ block = "waiting" /\ access = "denied"
    /\ BlockEnds
    /\ UNCHANGED agenda

BlockStarts ==
    /\ block = "waiting" /\ access = "granted"
    /\ block' = "reading"
    /\ UNCHANGED <<appVars, access, copied, chosen, agenda>>

\* Mutant: the block does not keep the planner, so that self is nil when it
\* has been popped.
ReadFieldWeakly ==
    /\ block = "reading" /\ Len(copied) < Fields
    /\ editing = exporting
    /\ copied' = Append(copied, heap[exporting].data)
    /\ UNCHANGED <<appVars, access, block, chosen, agenda>>

ReadField ==
    /\ block = "reading" /\ Len(copied) < Fields
    /\ copied' = Append(copied, heap[exporting].data)
    /\ UNCHANGED <<appVars, access, block, chosen, agenda>>

\* A calendar that cannot save the entry is only printed.
SaveEntry ==
    /\ block = "reading" /\ Len(copied) = Fields
    /\ BlockEnds
    /\ \/ agenda' = Append(agenda, [chosen |-> chosen, fields |-> copied])
       \/ "calendarError" \in Faults /\ UNCHANGED agenda

\* The app goes on, except that nothing below the question can be touched; the
\* block ends with the process.
AppGoesOn ==
    /\ Screens
    /\ Prompting /\ running' => alert' = alert
    /\ IF running' THEN UNCHANGED <<block, copied, chosen>>
                   ELSE block' = "none" /\ copied' = <<>> /\ chosen' = Blank
    /\ UNCHANGED <<access, agenda>>

CalendarNext ==
    \/ AppGoesOn
    \/ RequestAccess
    \/ UserAnswers
    \/ BlockRefused \/ BlockStarts \/ ReadField \/ SaveEntry

CalendarSpec == CalendarInit /\ [][CalendarNext]_exportVars

\* The question cannot be left without an answer, and the system runs the
\* blocks of an app that runs.
CalendarFairness ==
    /\ WF_exportVars(RunSetup /\ UNCHANGED calendarVars)
    /\ WF_exportVars(UserAnswers)
    /\ WF_exportVars(BlockRefused \/ BlockStarts \/ ReadField \/ SaveEntry)

FairCalendarSpec == CalendarSpec /\ CalendarFairness

-----------------------------------------------------------------------------
\* What the calendar gets is the event as it was when the user chose to export
\* it, in every field: although the block reads the event while the main thread
\* runs, no planner that is opened in between changes the object it reads, for
\* the list has loaded new ones before it can be touched.
EntryWasTheEvent ==
    WritesComplete =>
      \A i \in DOMAIN agenda, j \in 1..Fields :
        agenda[i].fields[j] = agenda[i].chosen

\* With access and a calendar that saves, the event is added unless the process
\* dies first, although the planner may have been left and its event deleted.
GrantedIsAdded ==
    \A n \in 0..MaxEntries :
      (block # "none" /\ access = "granted" /\ Len(agenda) = n)
        ~> (Len(agenda) > n \/ ~running)

\* "Event has been added to your calendar", says the alert: what it says is
\* true in the end.
AnnouncedIsAdded ==
    \A n \in 0..MaxEntries :
      (alert = "calendar" /\ block # "none" /\ Len(agenda) = n) ~> Len(agenda) > n
=============================================================================
