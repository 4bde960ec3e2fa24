--------------------------- MODULE StoresProofs ---------------------------
(***************************************************************************)
(* What the file and the documents hold, for every number of events,       *)
(* contents and pending writes.                                            *)
(*                                                                         *)
(* The two stores say the same of every event as long as nothing fails.    *)
(* Where the process may die at any point, but a write of the file is made *)
(* whole or not at all, the file is the book that EventBook specifies: for *)
(* any callers of EventController, and on the app's usual paths with the   *)
(* receipts that the app gives.                                            *)
(***************************************************************************)
EXTENDS FamilyNightProofs

\* Nothing fails; a calendar that refuses an entry touches neither store.
NoFaults == Faults \subseteq {"calendarError"}

Others(f, id) == {rec \in Range(f) : rec.id # id}

\* What the file says of an event of this install, the client's view of its
\* document says too.
Agree ==
    \A id \in usedIds \ Foreign :
      /\ \A rec \in Range(Saved) : rec.id = id => View(id) = rec.data
      /\ (\A rec \in Range(Saved) : rec.id # id) => View(id) = NoDoc

OwnIds ==
    /\ Foreign \subseteq usedIds
    /\ \A rec \in Range(Saved) : rec.id \notin Foreign

CloudInv == ~trapped /\ SentIsApplied /\ OwnIds /\ Agree

-----------------------------------------------------------------------------
(* The two halves of a save.                                               *)

\* A save that makes one call m, and changes in the file what m says, keeps the
\* stores in agreement.
LEMMA SaveIsSaid ==
  ASSUME FirestoreTypeOK, OwnIds, Agree,
         NEW m \in Mutation, Enqueue(<<m>>), m.id \notin Foreign,
         usedIds \subseteq usedIds', usedIds' \subseteq usedIds \cup {m.id},
         usedIds' \subseteq Id,
         Range(Saved)' = Others(Saved, m.id) \cup (IF m.data = NoDoc THEN {} ELSE {m})
  PROVE  OwnIds' /\ Agree'
<1>1. OwnIds'
  BY DEF OwnIds, Others
<1>2. ASSUME NEW id \in usedIds' \ Foreign
      PROVE  /\ \A rec \in Range(Saved)' : rec.id = id => View(id)' = rec.data
             /\ (\A rec \in Range(Saved)' : rec.id # id) => View(id)' = NoDoc
  <2>1. View(id)' = IF id = m.id THEN m.data ELSE View(id)
    BY EnqueueShows
  <2>2. CASE id = m.id
    BY <2>1, <2>2 DEF Others
  <2>3. CASE id # m.id
    <3>1. id \in usedIds \ Foreign
      BY <2>3
    <3>2. \A rec : rec.id = id => (rec \in Range(Saved)' <=> rec \in Range(Saved))
      BY <2>3 DEF Others
    <3> QED
      BY <2>1, <2>3, <3>1, <3>2 DEF Agree
  <2> QED
    BY <2>2, <2>3
<1>3. Agree'
  BY <1>2 DEF Agree
<1> QED
  BY <1>1, <1>3

\* Without faults a save leaves the list in the file and makes its call.
LEMMA SaveSucceeds ==
  ASSUME NoFaults, NEW es, NEW hp, NEW hs, NEW calls, NEW out \in Outcome,
         Values(hp, es) \in Seq(Rec), saveToPersistenceStore(es, hp, hs, calls, out)
  PROVE  Enqueue(calls) /\ Saved' = Values(hp, es) /\ events' = es /\ running' = running
<1>1. out = "ok"
  BY DEF Outcome, NoFaults, Deaths
<1>2. /\ file' = Values(hp, es) /\ Enqueue(calls) /\ events' = es
      /\ running' = running
  BY <1>1 DEF saveToPersistenceStore, Deaths, Written
<1> QED
  BY <1>2, SavedOfRecs DEF Saved

LEMMA RangeOfValues ==
  ASSUME NEW D, NEW hp \in [D -> Rec], NEW es \in Seq(Obj), Range(es) \subseteq D
  PROVE  /\ Values(hp, es) \in Seq(Rec)
         /\ Range(Values(hp, es)) = {hp[o] : o \in Range(es)}
<1>1. Values(hp, es) \in Seq(Rec)
  BY ValuesElements
<1>2. DOMAIN Values(hp, es) = DOMAIN es /\ \A i \in DOMAIN es : Values(hp, es)[i] = hp[es[i]]
  BY DEF Values
<1> QED
  BY <1>1, <1>2 DEF Range

LEMMA RangeOfList ==
  ASSUME IInv
  PROVE  Range(Values(heap, events)) = {heap[o] : o \in Range(events)}
<1>1. Range(events) \subseteq DOMAIN heap
  BY HeapFacts
<1> QED
  BY <1>1, HeapFacts, RangeOfValues

-----------------------------------------------------------------------------
(* The records that the three operations save.                             *)

LEMMA CreatedRecs ==
  ASSUME IInv, NEW rec \in Rec, rec.id \notin usedIds, NEW o \in Obj \ DOMAIN heap
  PROVE  LET hp == [x \in DOMAIN heap \cup {o} |-> IF x = o THEN rec ELSE heap[x]]
             es == Append(events, o)
         IN /\ Values(hp, es) \in Seq(Rec)
            /\ Range(Values(hp, es)) = Others(Values(heap, events), rec.id) \cup {rec}
<1> DEFINE D == DOMAIN heap \cup {o}
           hp == [x \in DOMAIN heap \cup {o} |-> IF x = o THEN rec ELSE heap[x]]
           es == Append(events, o)
<1>1. hp \in [D -> Rec]
  BY HeapFacts
<1>2. es \in Seq(Obj) /\ Range(es) = Range(events) \cup {o}
  BY HeapFacts, RangeOfAppend
<1>3. Range(events) \subseteq DOMAIN heap
  BY HeapFacts
<1>4. /\ hp[o] = rec /\ \A x \in Range(events) : hp[x] = heap[x]
  BY <1>3
<1> HIDE DEF hp, es
<1>5. Values(hp, es) \in Seq(Rec) /\ Range(Values(hp, es)) = {hp[x] : x \in Range(es)}
  BY <1>1, <1>2, <1>3, RangeOfValues
<1>6. \A x \in Range(events) : heap[x].id # rec.id
  BY <1>3, HeapFacts
<1>7. Range(Values(hp, es)) = {heap[x] : x \in Range(events)} \cup {rec}
  BY <1>2, <1>4, <1>5
<1>8. Others(Values(heap, events), rec.id) = {heap[x] : x \in Range(events)}
  BY <1>6, RangeOfList DEF Others
<1> QED
  BY <1>5, <1>7, <1>8 DEF hp, es

LEMMA UpdatedRecs ==
  ASSUME IInv, NEW o \in Range(events), NEW rec \in Rec, rec.id = heap[o].id
  PROVE  LET hp == [heap EXCEPT ![o] = rec]
         IN /\ Values(hp, events) \in Seq(Rec)
            /\ Range(Values(hp, events)) = Others(Values(heap, events), rec.id) \cup {rec}
<1> DEFINE hp == [heap EXCEPT ![o] = rec]
<1>1. /\ Range(events) \subseteq DOMAIN heap /\ heap \in [DOMAIN heap -> Rec]
      /\ events \in Seq(Obj)
  BY HeapFacts
<1>2. /\ hp \in [DOMAIN heap -> Rec] /\ hp[o] = rec
      /\ \A p \in Range(events) : p # o => hp[p] = heap[p]
  BY <1>1
<1> HIDE DEF hp
<1>3. Values(hp, events) \in Seq(Rec) /\ Range(Values(hp, events)) = {hp[p] : p \in Range(events)}
  BY <1>1, <1>2, RangeOfValues
<1>4. ASSUME NEW p \in Range(events), p # o PROVE heap[p].id # rec.id
  <2>1. PICK i \in DOMAIN events, j \in DOMAIN events : events[i] = o /\ events[j] = p
    BY DEF Range
  <2> QED
    BY <1>4, <2>1, OnePlace
<1>5. ASSUME NEW r
      PROVE  r \in Range(Values(hp, events))
               <=> r = rec \/ r \in Others(Values(heap, events), rec.id)
  <2>1. r \in Range(Values(hp, events))
          <=> r = rec \/ \E p \in Range(events) : p # o /\ r = heap[p]
    BY <1>2, <1>3
  <2>2. r \in Others(Values(heap, events), rec.id)
          <=> \E p \in Range(events) : r = heap[p] /\ r.id # rec.id
    BY RangeOfList DEF Others
  <2> QED
    BY <1>4, <2>1, <2>2
<1> QED
  BY <1>3, <1>5 DEF hp

\* The event of a row is in the list once.
LEMMA DeletedRecs ==
  ASSUME IInv, NEW n \in DOMAIN events
  PROVE  /\ IndicesOf(events[n]) = {n} /\ Min(IndicesOf(events[n])) = n
         /\ Len(RemoveAt(events, n)) = Len(events) - 1
         /\ Values(heap, RemoveAt(events, n)) \in Seq(Rec)
         /\ Range(Values(heap, RemoveAt(events, n)))
              = Others(Values(heap, events), heap[events[n]].id)
<1> DEFINE es == RemoveAt(events, n)
           id == heap[events[n]].id
<1>1. /\ Range(events) \subseteq DOMAIN heap /\ heap \in [DOMAIN heap -> Rec]
      /\ events \in Seq(Obj) /\ DOMAIN events = 1..Len(events)
  BY HeapFacts
<1>2. IndicesOf(events[n]) = {n}
  BY OnePlace DEF IndicesOf
<1>3. Min(IndicesOf(events[n])) = n
  <2>1. {n} \subseteq Nat
    BY <1>1
  <2> QED
    BY <1>2, <2>1, MinIsLeast
<1>4. /\ es \in Seq(Obj) /\ Len(es) = Len(events) - 1
      /\ \A i \in 1..Len(events) - 1 : es[i] = events[IF i < n THEN i ELSE i + 1]
  BY <1>1, RemoveAtElements
<1> HIDE DEF es
<1>5. Range(es) = {events[i] : i \in DOMAIN events \ {n}}
  <2>1. DOMAIN es = 1..Len(events) - 1 /\ Len(events) \in Nat /\ n \in 1..Len(events)
    BY <1>1, <1>4
  <2>2. ASSUME NEW i \in DOMAIN es
        PROVE  \E j \in DOMAIN events \ {n} : es[i] = events[j]
    <3> DEFINE j == IF i < n THEN i ELSE i + 1
    <3>1. j \in 1..Len(events) /\ j # n /\ es[i] = events[j]
      BY <1>4, <2>1
    <3> QED
      BY <1>1, <3>1
  <2>3. ASSUME NEW j \in DOMAIN events \ {n}
        PROVE  \E i \in DOMAIN es : es[i] = events[j]
    <3> DEFINE i == IF j < n THEN j ELSE j - 1
    <3>1. i \in 1..Len(events) - 1 /\ (IF i < n THEN i ELSE i + 1) = j
      BY <1>1, <2>1
    <3> QED
      BY <1>4, <2>1, <3>1
  <2> QED
    BY <2>2, <2>3 DEF Range
<1>6. Range(es) \subseteq DOMAIN heap
  BY <1>1, <1>5 DEF Range
<1>7. Values(heap, es) \in Seq(Rec) /\ Range(Values(heap, es)) = {heap[p] : p \in Range(es)}
  BY <1>1, <1>4, <1>6, RangeOfValues
<1>8. ASSUME NEW r
      PROVE  r \in Range(Values(heap, es)) <=> r \in Others(Values(heap, events), id)
  <2>1. r \in Range(Values(heap, es)) <=> \E j \in DOMAIN events \ {n} : r = heap[events[j]]
    BY <1>5, <1>7
  <2>2. r \in Others(Values(heap, events), id)
          <=> \E j \in DOMAIN events : r = heap[events[j]] /\ r.id # id
    BY RangeOfList DEF Others, Range
  <2>3. \A j \in DOMAIN events : j # n => heap[events[j]].id # id
    BY OnePlace
  <2> QED
    BY <2>1, <2>2, <2>3
<1> QED
  BY <1>2, <1>3, <1>4, <1>7, <1>8 DEF es

-----------------------------------------------------------------------------
(* The three operations that save, where nothing fails.                    *)

\* While the app runs and nothing fails, the file is the list.
LEMMA FileIsList ==
  ASSUME NoFaults, IInv, running
  PROVE  Saved = Values(heap, events)
BY DEF IInv, Mirror, WritesComplete, NoFaults

LEMMA CreateAgrees ==
  ASSUME NoFaults, IInv, OwnIds, Agree, NEW c \in Content, NEW out \in Outcome,
         createEvent(c, out)
  PROVE  OwnIds' /\ Agree' /\ running' /\ [FirestoreNext]_firestoreVars
<1>1. PICK id \in Id \ usedIds, new \in NewObjects(1, DOMAIN heap) :
        LET rec == [id |-> id, data |-> c]
            o == new[1]
        IN /\ usedIds' = usedIds \cup {id}
           /\ saveToPersistenceStore(
                Append(events, o),
                [x \in DOMAIN heap \cup {o} |-> IF x = o THEN rec ELSE heap[x]],
                held \cup {o}, createEventInFirebase(rec), out)
  BY DEF createEvent
<1> DEFINE rec == [id |-> id, data |-> c]
           o == new[1]
           hp == [x \in DOMAIN heap \cup {o} |-> IF x = o THEN rec ELSE heap[x]]
           es == Append(events, o)
           calls == createEventInFirebase(rec)
<1>2. o \in Obj \ DOMAIN heap /\ running /\ Room
  BY NewObjectsArePlaced DEF createEvent
<1>3. rec \in Rec /\ rec \in Mutation /\ calls = <<rec>> /\ rec.data # NoDoc
  BY NoDocAssumption DEF Rec, Mutation, Doc, createEventInFirebase, SetData
<1>4. saveToPersistenceStore(es, hp, held \cup {o}, calls, out) /\ usedIds' = usedIds \cup {rec.id}
  BY <1>1
<1>5. rec.id \notin usedIds
  OBVIOUS
<1> HIDE DEF calls, rec, o
<1>6. /\ Values(hp, es) \in Seq(Rec)
      /\ Range(Values(hp, es)) = Others(Values(heap, events), rec.id) \cup {rec}
  BY <1>2, <1>3, <1>5, CreatedRecs
<1> HIDE DEF hp, es
<1>7. Enqueue(<<rec>>) /\ Saved' = Values(hp, es) /\ running' = running
  BY <1>3, <1>4, <1>6, SaveSucceeds
<1>8. Range(Saved)' = Others(Saved, rec.id) \cup (IF rec.data = NoDoc THEN {} ELSE {rec})
  BY <1>2, <1>3, <1>6, <1>7, FileIsList DEF Range
<1>9. rec.id \notin Foreign /\ usedIds' \subseteq Id
  BY <1>3, <1>4, <1>5, HeapFacts DEF OwnIds, Rec
<1>10. FirestoreTypeOK
  BY DEF IInv, TypeOK
<1>11. OwnIds' /\ Agree'
  BY <1>3, <1>4, <1>7, <1>8, <1>9, <1>10, SaveIsSaid
<1> QED
  BY <1>2, <1>3, <1>7, <1>11 DEF FirestoreNext

LEMMA UpdateAgrees ==
  ASSUME NoFaults, IInv, OwnIds, Agree, NEW o \in Range(events), NEW c \in Content,
         NEW out \in Outcome, updateEvent(o, c, out)
  PROVE  OwnIds' /\ Agree' /\ running' /\ [FirestoreNext]_firestoreVars
<1> DEFINE rec == [heap[o] EXCEPT !.data = c]
           hp == [heap EXCEPT ![o] = rec]
           calls == updateEventInFirebase(rec)
<1>1. /\ running /\ Room /\ UNCHANGED usedIds
      /\ saveToPersistenceStore(events, hp, held, calls, out)
  BY DEF updateEvent
<1>2. heap[o] \in Rec /\ heap[o].id \in usedIds /\ usedIds \subseteq Id
  BY HeapFacts
<1>3. /\ rec \in Rec /\ rec.id = heap[o].id /\ rec \in Mutation
      /\ calls = <<rec>> /\ rec.data # NoDoc
  BY <1>2, NoDocAssumption DEF Rec, Mutation, Doc, updateEventInFirebase, SetData
<1> HIDE DEF calls, rec
<1>4. /\ Values(hp, events) \in Seq(Rec)
      /\ Range(Values(hp, events)) = Others(Values(heap, events), rec.id) \cup {rec}
  BY <1>3, UpdatedRecs
<1> HIDE DEF hp
<1>5. Enqueue(<<rec>>) /\ Saved' = Values(hp, events) /\ running' = running
  BY <1>1, <1>3, <1>4, SaveSucceeds
<1>6. Range(Saved)' = Others(Saved, rec.id) \cup (IF rec.data = NoDoc THEN {} ELSE {rec})
  BY <1>1, <1>3, <1>4, <1>5, FileIsList DEF Range
<1>7. rec.id \notin Foreign
  BY <1>1, <1>3, FileIsList, RangeOfList DEF OwnIds
<1>8. FirestoreTypeOK
  BY DEF IInv, TypeOK
<1>9. OwnIds' /\ Agree'
  BY <1>1, <1>2, <1>3, <1>5, <1>6, <1>7, <1>8, SaveIsSaid
<1> QED
  BY <1>1, <1>3, <1>5, <1>9 DEF FirestoreNext

LEMMA DeleteAgrees ==
  ASSUME NoFaults, IInv, OwnIds, Agree, NEW n \in DOMAIN events, NEW out \in Outcome,
         delete(events[n], out)
  PROVE  /\ OwnIds' /\ Agree' /\ running' /\ [FirestoreNext]_firestoreVars
         /\ Len(events') = Len(events) - 1
<1> DEFINE m == DeleteDocument(heap[events[n]].id)
           es == RemoveAt(events, n)
<1>1. heap[events[n]] \in Rec /\ heap[events[n]].id \in usedIds /\ usedIds \subseteq Id
  BY HeapFacts
<1>2. /\ IndicesOf(events[n]) = {n} /\ Min(IndicesOf(events[n])) = n
      /\ Len(es) = Len(events) - 1 /\ Values(heap, es) \in Seq(Rec)
      /\ Range(Values(heap, es)) = Others(Values(heap, events), heap[events[n]].id)
  BY DeletedRecs
<1>3. /\ running /\ Room /\ UNCHANGED usedIds
      /\ saveToPersistenceStore(es, heap, held, <<m>>, out)
  BY <1>2 DEF delete
<1>4. m \in Mutation /\ m.id = heap[events[n]].id /\ m.data = NoDoc
  BY <1>1 DEF DeleteDocument, Mutation, Doc
<1> HIDE DEF m, es
<1>5. Enqueue(<<m>>) /\ Saved' = Values(heap, es) /\ running' = running /\ events' = es
  BY <1>2, <1>3, SaveSucceeds
<1>6. Range(Saved)' = Others(Saved, m.id) \cup (IF m.data = NoDoc THEN {} ELSE {m})
  BY <1>2, <1>3, <1>4, <1>5, FileIsList DEF Range
<1>7. m.id \notin Foreign
  BY <1>3, <1>4, FileIsList, RangeOfList DEF OwnIds, Range
<1>8. FirestoreTypeOK
  BY DEF IInv, TypeOK
<1>9. OwnIds' /\ Agree'
  BY <1>1, <1>3, <1>4, <1>5, <1>6, <1>7, <1>8, SaveIsSaid
<1> QED
  BY <1>2, <1>3, <1>4, <1>5, <1>9 DEF FirestoreNext

-----------------------------------------------------------------------------
(* The other steps.                                                        *)

\* A step that leaves the file and the calls alone, or is the client's own work.
LEMMA QuietAgrees ==
  ASSUME FirestoreTypeOK, SentIsApplied, OwnIds, Agree, UNCHANGED <<file, usedIds>>,
         usedIds \subseteq Id, UNCHANGED firestoreVars \/ Background
  PROVE  OwnIds' /\ Agree' /\ [FirestoreNext]_firestoreVars
<1>1. Range(Saved)' = Range(Saved)
  BY DEF Saved, Range
<1>2. [FirestoreNext]_firestoreVars
  BY DEF FirestoreNext
<1>3. \A id \in Id : View(id)' = View(id)
  <2>1. CASE UNCHANGED firestoreVars
    BY <2>1 DEF View, PendingOf, Pending, firestoreVars
  <2>2. CASE Background
    <3>1. CASE StreamRestart
      BY <3>1 DEF StreamRestart, View, PendingOf, Pending
    <3> QED
      BY <2>2, <3>1, WriteLocallyKeepsView, ServerCommitKeepsView, AcknowledgeKeepsView
      DEF Background
  <2> QED
    BY <2>1, <2>2
<1>4. OwnIds'
  BY <1>1 DEF OwnIds
<1>5. Agree'
  BY <1>1, <1>3 DEF Agree
<1> QED
  BY <1>2, <1>4, <1>5

LEMMA ReleaseIsQuiet ==
  ASSUME NEW o, Release(o)
  PROVE  UNCHANGED <<file, usedIds, firestoreVars>>
BY DEF Release

\* A step of the app that leaves both stores alone, but for the client's own work.
Quiet == /\ UNCHANGED <<file, usedIds, trapped>>
         /\ UNCHANGED firestoreVars \/ Background

\* Every step but a save, a deletion and a death is one of these.
LEMMA QuietSteps ==
  ASSUME NoFaults, UITypeOK,
         \/ AppLaunch \/ RunSetup \/ TapPlan \/ OpenHelp \/ DismissAlert \/ Back
         \/ CalendarOK \/ SwipeBackCancelled \/ handleIncomingDynamicLink
         \/ LinkAnswered \/ AppNetwork \/ ChooseCalendar \/ ExportEnds
         \/ UNCHANGED appVars
         \/ \E i \in DOMAIN events : TapRow(i)
         \/ \E c \in Content : EditForm(c)
  PROVE  Quiet
<1>1. CASE AppLaunch \/ RunSetup
  BY <1>1 DEF AppLaunch, Launch, RunSetup, reload, Quiet
<1>2. CASE \/ TapPlan \/ OpenHelp \/ DismissAlert \/ SwipeBackCancelled
           \/ ChooseCalendar \/ UNCHANGED appVars \/ \E c \in Content : EditForm(c)
  BY <1>2 DEF TapPlan, OpenHelp, DismissAlert, SwipeBackCancelled, ChooseCalendar, EditForm,
              Present, appVars, vars, controllerVars, ui, Quiet
<1>3. CASE Back \/ CalendarOK
  <2>1. Pop
    BY <1>3 DEF Back, CalendarOK
  <2> QED
    BY <2>1, ReleaseIsQuiet DEF Pop, vars, controllerVars, Quiet
<1>4. CASE handleIncomingDynamicLink \/ LinkAnswered
  BY <1>4 DEF handleIncomingDynamicLink, fetchEventWith, LinkAnswered, fetchReturns,
              fetchFails, vars, controllerVars, ui, Quiet
<1>5. CASE AppNetwork
  BY <1>5 DEF AppNetwork, Network, RejectBatch, NoFaults, controllerVars, ui, Quiet
<1>6. CASE ExportEnds
  BY <1>6, ReleaseIsQuiet DEF ExportEnds, vars, controllerVars, Quiet
<1>7. CASE \E i \in DOMAIN events : TapRow(i)
  BY <1>7 DEF TapRow, Take, vars, controllerVars, Quiet
<1> QED
  BY <1>1, <1>2, <1>3, <1>4, <1>5, <1>6, <1>7

-----------------------------------------------------------------------------
LEMMA CloudInvInductive ==
  ASSUME NoFaults, AppInv, EditsTheList, CloudInv, [AppNext]_appVars
  PROVE  CloudInv'
<1> USE DEF AppInv
<1>1. FirestoreTypeOK /\ usedIds \subseteq Id
  BY DEF IInv, TypeOK
<1>2. SUFFICES ~trapped' /\ OwnIds' /\ Agree' /\ [FirestoreNext]_firestoreVars
  BY <1>1, NextIsStreamStep, SentIsAppliedInductive DEF CloudInv
<1>3. CASE Quiet
  BY <1>1, <1>3, QuietAgrees DEF Quiet, CloudInv
<1>4. CASE \E i \in DOMAIN events, out \in Outcome : DeleteRow(i, out)
  <2>1. PICK i \in DOMAIN events, out \in Outcome : DeleteRow(i, out)
    BY <1>4
  <2>2. /\ OwnIds' /\ Agree' /\ running' /\ [FirestoreNext]_firestoreVars
        /\ Len(events') = Len(events) - 1
    BY <2>1, DeleteAgrees DEF DeleteRow, CloudInv
  <2>3. rows = Len(events)
    BY <2>1 DEF DeleteRow, TableInv, TableMatchesList, WritesComplete, NoFaults
  <2>4. trapped' = trapped
    BY <2>1, <2>2, <2>3 DEF DeleteRow
  <2> QED
    BY <2>2, <2>4 DEF CloudInv
<1>5. CASE \E out \in Outcome : saveButtonTapped(out) \/ createButtonTapped(out)
  <2>1. PICK out \in Outcome :
          \/ UNCHANGED <<vars, trapped>>
          \/ saveEvent(out) /\ (running' => trapped' = trapped)
    BY <1>5 DEF saveButtonTapped, createButtonTapped, Present
  <2>2. CASE UNCHANGED <<vars, trapped>>
    BY <1>3, <2>2 DEF Quiet, vars, controllerVars
  <2>3. CASE editing # None /\ updateEvent(editing, form, out)
    <3>1. editing \in Range(events) /\ form \in Content
      BY <2>3 DEF EditsTheList, UITypeOK
    <3>2. OwnIds' /\ Agree' /\ running' /\ [FirestoreNext]_firestoreVars
      BY <2>3, <3>1, UpdateAgrees DEF CloudInv
    <3> QED
      BY <2>1, <3>2 DEF CloudInv, vars
  <2>4. CASE createEvent(form, out)
    <3>1. form \in Content
      BY DEF UITypeOK
    <3>2. OwnIds' /\ Agree' /\ running' /\ [FirestoreNext]_firestoreVars
      BY <2>4, <3>1, CreateAgrees DEF CloudInv
    <3> QED
      BY <2>1, <3>2 DEF CloudInv, vars
  <2> QED
    BY <2>1, <2>2, <2>3, <2>4 DEF saveEvent
<1>6. CASE AppDies \/ Crash
  BY <1>6 DEF AppDies, Kill, Crash, NoFaults, CloudInv
<1> QED
  BY <1>3, <1>4, <1>5, <1>6, QuietSteps DEF AppNext, Screens

LEMMA CloudInitInv == AppInit => CloudInv
<1> SUFFICES ASSUME AppInit PROVE CloudInv
  OBVIOUS
<1>1. Saved = <<>> /\ usedIds = Foreign /\ ~trapped /\ sent = 0
  BY DEF AppInit, Init, FirestoreInit, Saved
<1>2. Range(Saved) = {}
  BY <1>1 DEF Range
<1> QED
  BY <1>1, <1>2 DEF CloudInv, SentIsApplied, OwnIds, Agree

\* On the usual paths, while nothing fails, the file and the documents agree.
THEOREM CloudInvAlways ==
  ASSUME NoFaults, UsualPaths
  PROVE  AppSpec => [](AppInv /\ EditsTheList /\ CloudInv)
<1>1. AppInit => CloudInv
  BY CloudInitInv
<1>2. AppInv /\ EditsTheList /\ CloudInv /\ [AppNext]_appVars => CloudInv'
  BY CloudInvInductive
<1> QED
  BY <1>1, <1>2, EditsTheListAlways, PTL DEF AppSpec

-----------------------------------------------------------------------------
LEMMA RangeIds ==
  ASSUME NEW f
  PROVE  \A id : id \in IdsOf(f) <=> \E rec \in Range(f) : rec.id = id
BY DEF IdsOf, Range

\* On the usual paths, while nothing fails, the client's view of every event's
\* document is what the file says of the event, and deleted events have none.
THEOREM CloudMatchesListAlways ==
  ASSUME NoFaults, UsualPaths
  PROVE  AppSpec => []CloudMatchesList
<1>1. AppInv /\ EditsTheList /\ CloudInv => CloudMatchesList
  <2> SUFFICES ASSUME CloudInv, NEW id \in usedIds \ Foreign
               PROVE  View(id) = DocOf(Saved, id)
    BY DEF CloudMatchesList, Split
  <2>1. CASE id \in IdsOf(Saved)
    <3>1. \A i \in DOMAIN Saved : Saved[i].id = id => View(id) = Saved[i].data
      BY DEF CloudInv, Agree, Range
    <3>2. ContentOf(Saved, id) = {View(id)}
      BY <2>1, <3>1 DEF ContentOf, IdsOf
    <3> QED
      BY <3>2 DEF DocOf
  <2>2. CASE id \notin IdsOf(Saved)
    <3>1. ContentOf(Saved, id) = {}
      BY <2>2 DEF ContentOf, IdsOf
    <3> QED
      BY <2>2, <3>1, RangeIds DEF CloudInv, Agree, DocOf
  <2> QED
    BY <2>1, <2>2
<1> QED
  BY <1>1, CloudInvAlways, PTL

-----------------------------------------------------------------------------
(* The file as a book.                                                     *)

WholeWrites == WritesComplete /\ "tornKill" \notin Faults

-----------------------------------------------------------------------------
(* Files and books.                                                        *)

EnteredIn(book, id, c) == [i \in DOMAIN book \cup {id} |-> IF i = id THEN c ELSE book[i]]
RemovedFrom(book, id) == [i \in DOMAIN book \ {id} |-> book[i]]
BookOf(f) == [id \in IdsOf(f) |-> CHOOSE c \in ContentOf(f, id) : TRUE]

LEMMA BookHasContents ==
  ASSUME NEW f, DistinctIds(f), NEW rec \in Range(f)
  PROVE  rec.id \in IdsOf(f) /\ BookOf(f)[rec.id] = rec.data
<1>1. PICK i \in DOMAIN f : f[i] = rec
  BY DEF Range
<1>2. {j \in DOMAIN f : f[j].id = rec.id} = {i}
  BY <1>1 DEF DistinctIds
<1>3. ContentOf(f, rec.id) = {rec.data}
  BY <1>1, <1>2 DEF ContentOf
<1>4. rec.id \in IdsOf(f)
  BY <1>1 DEF IdsOf
<1> QED
  BY <1>3, <1>4 DEF BookOf

LEMMA IdsOfRange ==
  ASSUME NEW f
  PROVE  IdsOf(f) = {rec.id : rec \in Range(f)}
BY DEF IdsOf, Range

\* Files that agree in what they have for an id are books that do.
LEMMA SameRecords ==
  ASSUME NEW f, NEW g, DistinctIds(f), DistinctIds(g),
         NEW id, id \in IdsOf(f),
         \A rec : rec.id = id => (rec \in Range(f) <=> rec \in Range(g))
  PROVE  id \in IdsOf(g) /\ BookOf(g)[id] = BookOf(f)[id]
<1>1. PICK rec \in Range(f) : rec.id = id
  BY IdsOfRange
<1>2. rec \in Range(g)
  BY <1>1
<1> QED
  BY <1>1, <1>2, BookHasContents

LEMMA EntryWritten ==
  ASSUME NEW f, NEW g, DistinctIds(f), DistinctIds(g), NEW rec,
         Range(g) = Others(f, rec.id) \cup {rec}
  PROVE  BookOf(g) = EnteredIn(BookOf(f), rec.id, rec.data)
<1>1. IdsOf(g) = IdsOf(f) \cup {rec.id}
  BY IdsOfRange DEF Others
<1>2. BookOf(g)[rec.id] = rec.data
  BY BookHasContents
<1>3. ASSUME NEW i \in IdsOf(f), i # rec.id
      PROVE  BookOf(g)[i] = BookOf(f)[i]
  <2>1. \A r : r.id = i => (r \in Range(f) <=> r \in Range(g))
    BY <1>3 DEF Others
  <2> QED
    BY <1>3, <2>1, SameRecords
<1>4. DOMAIN BookOf(g) = IdsOf(g) /\ DOMAIN BookOf(f) = IdsOf(f)
  BY DEF BookOf
<1>5. BookOf(g) = [i \in DOMAIN BookOf(g) |-> BookOf(g)[i]]
  BY DEF BookOf
<1> QED
  BY <1>1, <1>2, <1>3, <1>4, <1>5 DEF EnteredIn

LEMMA EntryRemoved ==
  ASSUME NEW f, NEW g, DistinctIds(f), DistinctIds(g), NEW id,
         Range(g) = Others(f, id)
  PROVE  BookOf(g) = RemovedFrom(BookOf(f), id)
<1>1. IdsOf(g) = IdsOf(f) \ {id}
  BY IdsOfRange DEF Others
<1>2. ASSUME NEW i \in IdsOf(f), i # id
      PROVE  BookOf(g)[i] = BookOf(f)[i]
  <2>1. \A r : r.id = i => (r \in Range(f) <=> r \in Range(g))
    BY <1>2 DEF Others
  <2> QED
    BY <1>2, <2>1, SameRecords
<1>3. DOMAIN BookOf(g) = IdsOf(g) /\ DOMAIN BookOf(f) = IdsOf(f)
  BY DEF BookOf
<1>4. BookOf(g) = [i \in DOMAIN BookOf(g) |-> BookOf(g)[i]]
  BY DEF BookOf
<1> QED
  BY <1>1, <1>2, <1>3, <1>4 DEF RemovedFrom

-----------------------------------------------------------------------------
(* A save keeps what it is given, or nothing and the process is gone.      *)

LEMMA SaveIsKept ==
  ASSUME WholeWrites, NEW es, NEW hp, NEW hs, NEW calls, NEW out \in Outcome,
         Values(hp, es) \in Seq(Rec), saveToPersistenceStore(es, hp, hs, calls, out)
  PROVE  Saved' = Values(hp, es) \/ (Saved' = Saved /\ running' = FALSE)
<1>1. out \in {"ok", "earlyKill", "lateKill"}
  BY DEF Outcome, Deaths, WholeWrites, WritesComplete
<1>2. CASE out \in {"ok", "lateKill"}
  <2>1. file' = Values(hp, es)
    BY <1>2 DEF saveToPersistenceStore, Written
  <2> QED
    BY <2>1, SavedOfRecs DEF Saved
<1>3. CASE out = "earlyKill"
  BY <1>3 DEF saveToPersistenceStore, Written, Deaths, ProcessDies, Saved
<1> QED
  BY <1>1, <1>2, <1>3

LEMMA ListIsFile ==
  ASSUME WholeWrites, IInv, running
  PROVE  Saved = Values(heap, events) /\ DistinctIds(Saved)
BY DEF IInv, Mirror, WholeWrites, UniqueIds

\* What saveEvent writes: the form, under the id of the planner's event.
LEMMA SaveEventIsKept ==
  ASSUME WholeWrites, IInv, EditsTheList, form \in Content, NEW out \in Outcome,
         saveEvent(out)
  PROVE  \E id \in Id :
           LET rec == [id |-> id, data |-> form]
               kept == Range(Saved') = Others(Saved, id) \cup {rec}
               lost == Saved' = Saved /\ running' = FALSE
           IN /\ \/ id \notin usedIds /\ usedIds' = usedIds \cup {id}
                 \/ id \in IdsOf(Saved) /\ usedIds' = usedIds
              /\ kept \/ lost
              /\ running' => heap'[editing'].id = id
<1>1. CASE editing # None /\ updateEvent(editing, form, out)
  <2> DEFINE rec == [heap[editing] EXCEPT !.data = form]
             hp == [heap EXCEPT ![editing] = rec]
             calls == updateEventInFirebase(rec)
  <2>1. /\ running /\ usedIds' = usedIds
        /\ saveToPersistenceStore(events, hp, held, calls, out)
    BY <1>1 DEF updateEvent
  <2>2. editing \in Range(events) /\ editing \in DOMAIN heap /\ heap[editing] \in Rec
    BY <1>1, HeapFacts DEF EditsTheList
  <2>3. rec \in Rec /\ rec.id = heap[editing].id /\ rec = [id |-> rec.id, data |-> form]
    BY <2>2 DEF Rec
  <2>4. DOMAIN hp = DOMAIN heap /\ hp[editing] = rec
    BY <2>2
  <2> HIDE DEF calls, rec
  <2>5. /\ Values(hp, events) \in Seq(Rec)
        /\ Range(Values(hp, events)) = Others(Values(heap, events), rec.id) \cup {rec}
    BY <2>2, <2>3, UpdatedRecs
  <2> HIDE DEF hp
  <2>6. Saved' = Values(hp, events) \/ (Saved' = Saved /\ running' = FALSE)
    BY <2>1, <2>5, SaveIsKept
  <2>7. running' => heap'[editing'].id = rec.id
    BY <1>1, <2>1, <2>2, <2>4, SaveLeaves DEF saveEvent
  <2>8. rec.id \in IdsOf(Saved)
    BY <2>1, <2>2, <2>3, ListIsFile, RangeOfList, IdsOfRange
  <2>9. Saved = Values(heap, events)
    BY <2>1, ListIsFile
  <2>10. rec.id \in Id
    BY <2>3 DEF Rec
  <2> QED
    BY <2>1, <2>3, <2>5, <2>6, <2>7, <2>8, <2>9, <2>10
<1>2. CASE editing = None /\ createEvent(form, out)
  <2>1. PICK id \in Id \ usedIds, new \in NewObjects(1, DOMAIN heap) :
          LET rec == [id |-> id, data |-> form]
              o == new[1]
          IN /\ usedIds' = usedIds \cup {id}
             /\ saveToPersistenceStore(
                  Append(events, o),
                  [x \in DOMAIN heap \cup {o} |-> IF x = o THEN rec ELSE heap[x]],
                  held \cup {o}, createEventInFirebase(rec), out)
    BY <1>2 DEF createEvent
  <2> DEFINE rec == [id |-> id, data |-> form]
             o == new[1]
             hp == [x \in DOMAIN heap \cup {o} |-> IF x = o THEN rec ELSE heap[x]]
             es == Append(events, o)
             calls == createEventInFirebase(rec)
  <2>2. o \in Obj \ DOMAIN heap /\ running
    BY <1>2, NewObjectsArePlaced DEF createEvent
  <2>3. rec \in Rec /\ rec.id = id /\ rec.id \notin usedIds
    BY DEF Rec
  <2>4. saveToPersistenceStore(es, hp, held \cup {o}, calls, out) /\ usedIds' = usedIds \cup {id}
    BY <2>1
  <2>5. hp[o] = rec /\ o \in DOMAIN hp
    OBVIOUS
  <2>6. o \in (Range(es) \cup (held \cup {o})) \cap DOMAIN hp
    BY <2>5
  <2> HIDE DEF calls, o
  <2>7. /\ Values(hp, es) \in Seq(Rec)
        /\ Range(Values(hp, es)) = Others(Values(heap, events), rec.id) \cup {rec}
    BY <2>2, <2>3, CreatedRecs
  <2> HIDE DEF hp, es
  <2>8. Saved' = Values(hp, es) \/ (Saved' = Saved /\ running' = FALSE)
    BY <2>4, <2>7, SaveIsKept
  <2>9. running' => heap'[editing'].id = id
    <3>1. running' => held' = held \cup {o} /\ heap'[o] = hp[o]
      BY <2>4, <2>6, SaveLeaves, Zenon
    <3>2. running' => editing' = o
      BY <1>2, <3>1 DEF saveEvent
    <3> QED
      BY <2>3, <2>5, <3>1, <3>2
  <2>10. Saved = Values(heap, events)
    BY <2>2, ListIsFile
  <2> QED
    BY <2>3, <2>4, <2>7, <2>8, <2>9, <2>10
<1> QED
  BY <1>1, <1>2 DEF saveEvent

-----------------------------------------------------------------------------
(* Steps of the app and steps of the book.                                 *)

\* The receipt is the same one, or gone.
SameReceipt ==
    alert' = "saved" =>
      alert = "saved" /\ heap'[editing'].id = heap[editing].id /\ form' = form

BookStep == [BookOfApp!BookNext]_<<usedIds, BookOfFile, ReceiptOfAlert>>

LEMMA NothingWritten ==
  ASSUME Saved' = Saved, usedIds' = usedIds, SameReceipt
  PROVE  BookStep
<1>1. BookOfFile' = BookOfFile
  BY DEF BookOfFile, IdsOf, ContentOf
<1>2. CASE alert' = "saved"
  <2>1. ReceiptOfAlert' = ReceiptOfAlert
    BY <1>2 DEF ReceiptOfAlert, SameReceipt
  <2> QED
    BY <1>1, <2>1 DEF BookStep
<1>3. CASE alert' # "saved"
  <2>1. ReceiptOfAlert' = None
    BY <1>3 DEF ReceiptOfAlert
  <2> QED
    BY <1>1, <2>1 DEF BookStep, BookOfApp!BookNext, BookOfApp!PutAway
<1> QED
  BY <1>2, <1>3

\* While the planner stays, what it edits stays.
LEMMA ReleaseKeepsEvent ==
  ASSUME IInv, EditsTheList, editing # None, NEW o, Release(o)
  PROVE  heap'[editing] = heap[editing]
<1>1. heap' = Alive(heap, events, held')
  BY DEF Release
<1>2. editing \in Range(events) /\ editing \in DOMAIN heap
  BY HeapFacts DEF EditsTheList
<1> QED
  BY <1>1, <1>2 DEF Alive, Restrict

LEMMA UnsavingSteps ==
  ASSUME UITypeOK, IInv, EditsTheList,
         \/ AppLaunch \/ RunSetup \/ TapPlan \/ OpenHelp \/ DismissAlert \/ Back
         \/ CalendarOK \/ SwipeBackCancelled \/ handleIncomingDynamicLink
         \/ LinkAnswered \/ AppNetwork \/ ChooseCalendar \/ ExportEnds
         \/ AppDies \/ Crash \/ UNCHANGED appVars
         \/ \E i \in DOMAIN events : TapRow(i)
         \/ \E c \in Content : EditForm(c)
  PROVE  UNCHANGED <<file, usedIds>> /\ SameReceipt
<1>1. CASE AppLaunch \/ RunSetup
  BY <1>1 DEF AppLaunch, Launch, RunSetup, reload, SameReceipt, UITypeOK, EditsTheList
<1>2. CASE \/ TapPlan \/ OpenHelp \/ DismissAlert \/ SwipeBackCancelled
           \/ ChooseCalendar \/ UNCHANGED appVars \/ \E c \in Content : EditForm(c)
  BY <1>2 DEF TapPlan, OpenHelp, DismissAlert, SwipeBackCancelled, ChooseCalendar, EditForm,
              Present, Interactive, appVars, vars, controllerVars, memory, ui, SameReceipt
<1>3. CASE Back \/ CalendarOK
  <2>1. Pop
    BY <1>3 DEF Back, CalendarOK
  <2> QED
    BY <2>1, ReleaseIsQuiet DEF Pop, vars, controllerVars, SameReceipt
<1>4. CASE handleIncomingDynamicLink
  BY <1>4 DEF handleIncomingDynamicLink, EditsTheList
<1>5. CASE LinkAnswered \/ AppNetwork
  BY <1>5 DEF LinkAnswered, fetchReturns, fetchFails, AppNetwork, Network, controllerVars,
              memory, ui, SameReceipt
<1>6. CASE ExportEnds
  <2>1. UNCHANGED <<file, usedIds, editing, alert, form>>
    BY <1>6, ReleaseIsQuiet DEF ExportEnds, vars, controllerVars
  <2>2. alert = "saved" => heap'[editing] = heap[editing]
    BY <1>6, ReleaseKeepsEvent DEF ExportEnds, UITypeOK, vars, controllerVars, memory
  <2> QED
    BY <2>1, <2>2 DEF SameReceipt
<1>7. CASE AppDies \/ Crash
  BY <1>7 DEF AppDies, Kill, Crash, ViewsDie, SameReceipt
<1>8. CASE \E i \in DOMAIN events : TapRow(i)
  BY <1>8 DEF TapRow, Take, Interactive, vars, controllerVars, SameReceipt
<1> QED
  BY <1>1, <1>2, <1>3, <1>4, <1>5, <1>6, <1>7, <1>8

\* A save adds or amends an entry, or loses a new one with the process.
LEMMA SaveIsBookStep ==
  ASSUME WholeWrites, AppInv, AppInv', EditsTheList, NEW out \in Outcome, saveEvent(out),
         running, NEW a \in {"saved", "share"},
         IF running' THEN Present(a) ELSE ViewsDie
  PROVE  BookStep
<1>1. PICK id \in Id :
        LET rec == [id |-> id, data |-> form]
        IN /\ \/ id \notin usedIds /\ usedIds' = usedIds \cup {id}
              \/ id \in IdsOf(Saved) /\ usedIds' = usedIds
           /\ \/ Range(Saved') = Others(Saved, id) \cup {rec}
              \/ Saved' = Saved /\ running' = FALSE
           /\ running' => heap'[editing'].id = id
  BY SaveEventIsKept DEF AppInv, UITypeOK
<1> DEFINE rec == [id |-> id, data |-> form]
<1>2. ReceiptOfAlert' \in {None, rec} /\ (~running' => ReceiptOfAlert' = None)
  <2>1. CASE running'
    BY <1>1, <2>1 DEF Present, ReceiptOfAlert
  <2>2. CASE ~running'
    BY <2>2 DEF ViewsDie, ReceiptOfAlert
  <2> QED
    BY <2>1, <2>2
<1>3. DistinctIds(Saved) /\ DistinctIds(Saved')
  BY DEF AppInv, IInv, UniqueIds, DistinctIds
<1>4. form \in Content
  BY DEF AppInv, UITypeOK
<1>5. CASE Range(Saved') = Others(Saved, id) \cup {rec}
  <2>1. rec.id = id /\ rec.data = form
    OBVIOUS
  <2> HIDE DEF rec
  <2>2. BookOf(Saved') = [i \in DOMAIN BookOf(Saved) \cup {id} |->
                            IF i = id THEN form ELSE BookOf(Saved)[i]]
    <3>1. Range(Saved') = Others(Saved, rec.id) \cup {rec}
      BY <1>5, <2>1
    <3>2. BookOf(Saved') = EnteredIn(BookOf(Saved), rec.id, rec.data)
      BY <1>3, <3>1, EntryWritten
    <3> QED
      BY <2>1, <3>2 DEF EnteredIn
  <2>3. BookOfFile' = BookOfApp!Entered(id, form)
    BY <2>2 DEF BookOfApp!Entered, BookOfFile, BookOf, IdsOf, ContentOf
  <2>4. BookOfApp!Told(id, form)
    BY <1>2 DEF BookOfApp!Told, rec
  <2>5. DOMAIN BookOfFile = IdsOf(Saved)
    BY DEF BookOfFile
  <2> QED
    BY <1>1, <1>4, <2>3, <2>4, <2>5
    DEF BookStep, BookOfApp!BookNext, BookOfApp!Add, BookOfApp!Amend
<1>6. CASE Saved' = Saved /\ running' = FALSE
  <2>1. BookOfFile' = BookOfFile
    BY <1>6 DEF BookOfFile, IdsOf, ContentOf
  <2>2. ReceiptOfAlert' = None
    BY <1>2, <1>6
  <2> QED
    BY <1>1, <2>1, <2>2
    DEF BookStep, BookOfApp!BookNext, BookOfApp!Lose, BookOfApp!PutAway
<1> QED
  BY <1>1, <1>5, <1>6

LEMMA DeleteIsBookStep ==
  ASSUME WholeWrites, AppInv, AppInv', NEW n \in DOMAIN events, NEW out \in Outcome,
         DeleteRow(n, out)
  PROVE  BookStep
<1> DEFINE id == heap[events[n]].id
           es == RemoveAt(events, n)
           call == <<DeleteDocument(id)>>
<1> USE DEF AppInv
<1>1. /\ IndicesOf(events[n]) = {n} /\ Min(IndicesOf(events[n])) = n
      /\ Values(heap, es) \in Seq(Rec)
      /\ Range(Values(heap, es)) = Others(Values(heap, events), id)
  BY DeletedRecs
<1>2. running /\ usedIds' = usedIds /\ saveToPersistenceStore(es, heap, held, call, out)
  BY <1>1 DEF DeleteRow, delete
<1>3. SameReceipt
  BY DEF DeleteRow, Interactive, ViewsDie, Raise, SameReceipt
<1>4. alert' # "saved"
  BY DEF DeleteRow, Interactive, ViewsDie, Raise
<1> HIDE DEF es, call
<1>5. Saved' = Values(heap, es) \/ Saved' = Saved
  BY <1>1, <1>2, SaveIsKept
<1>6. CASE Saved' = Saved
  BY <1>2, <1>3, <1>6, NothingWritten
<1>7. CASE Saved' = Values(heap, es)
  <2>1. DistinctIds(Saved) /\ DistinctIds(Saved') /\ Saved = Values(heap, events)
    <3>1. DistinctIds(Saved')
      BY DEF IInv, UniqueIds, DistinctIds
    <3> QED
      BY <1>2, <3>1, ListIsFile
  <2>2. BookOf(Saved') = [i \in DOMAIN BookOf(Saved) \ {id} |-> BookOf(Saved)[i]]
    <3>1. Range(Saved') = Others(Saved, id)
      BY <1>1, <1>7, <2>1
    <3>2. BookOf(Saved') = RemovedFrom(BookOf(Saved), id)
      BY <2>1, <3>1, EntryRemoved
    <3> QED
      BY <3>2 DEF RemovedFrom
  <2>3. BookOfFile' = [i \in DOMAIN BookOfFile \ {id} |-> BookOfFile[i]]
    BY <2>2 DEF BookOfFile, BookOf, IdsOf, ContentOf
  <2>4. id \in DOMAIN BookOfFile
    <3>1. heap[events[n]] \in Range(Saved)
      BY <2>1, RangeOfList DEF Range
    <3> QED
      BY <3>1, IdsOfRange DEF BookOfFile
  <2>5. id \in Id
    BY HeapFacts DEF Rec
  <2>6. ReceiptOfAlert' = None
    BY <1>4 DEF ReceiptOfAlert
  <2> QED
    BY <1>2, <2>3, <2>4, <2>5, <2>6 DEF BookStep, BookOfApp!BookNext, BookOfApp!Remove
<1> QED
  BY <1>5, <1>6, <1>7

LEMMA AppStepIsBookStep ==
  ASSUME WholeWrites, UsualPaths, AppInv, AppInv', EditsTheList, [AppNext]_appVars
  PROVE  BookStep
<1> USE DEF AppInv
<1>1. CASE UNCHANGED <<file, usedIds>> /\ SameReceipt
  BY <1>1, NothingWritten DEF Saved
<1>2. CASE \E n \in DOMAIN events, out \in Outcome : DeleteRow(n, out)
  BY <1>2, DeleteIsBookStep
<1>3. CASE \E out \in Outcome : saveButtonTapped(out) \/ createButtonTapped(out)
  <2>1. PICK out \in Outcome, a \in {"untitled", "saved", "share"} :
          \/ Present(a) /\ a # "saved" /\ UNCHANGED vars
          \/ /\ a # "untitled" /\ running /\ saveEvent(out)
             /\ IF running' THEN Present(a) ELSE ViewsDie
    BY <1>3 DEF saveButtonTapped, createButtonTapped, Interactive
  <2>2. CASE Present(a) /\ a # "saved" /\ UNCHANGED vars
    <3>1. UNCHANGED <<file, usedIds>> /\ SameReceipt
      BY <2>2 DEF Present, SameReceipt, vars, controllerVars
    <3> QED
      BY <1>1, <3>1
  <2> QED
    BY <2>1, <2>2, SaveIsBookStep
<1> QED
  BY <1>1, <1>2, <1>3, UnsavingSteps DEF AppNext, Screens

-----------------------------------------------------------------------------
\* On the usual paths, and through deaths of the process at any point of a save,
\* the app is the book: one handler changes one entry, an entry that was removed
\* never returns, and what the user is told is saved is in the book.
THEOREM AppIsBook ==
  ASSUME WholeWrites, UsualPaths
  PROVE  AppSpec => ImplementsBook
<1>1. AppInit => BookOfApp!BookInit
  <2> SUFFICES ASSUME AppInit PROVE BookOfApp!BookInit
    OBVIOUS
  <2>1. Saved = <<>> /\ usedIds = Foreign /\ alert # "saved"
    BY DEF AppInit, Init, Saved
  <2>2. IdsOf(Saved) = {}
    BY <2>1 DEF IdsOf
  <2> QED
    BY <2>1, <2>2, ForeignAssumption DEF BookOfApp!BookInit, BookOfFile, ReceiptOfAlert
<1>2. AppInv /\ AppInv' /\ EditsTheList /\ [AppNext]_appVars
        => [BookOfApp!BookNext]_BookOfApp!bookVars
  BY AppStepIsBookStep DEF BookStep, BookOfApp!bookVars
<1> QED
  BY <1>1, <1>2, EditsTheListAlways, PTL
  DEF AppSpec, ImplementsBook, BookOfApp!BookSpec

-----------------------------------------------------------------------------
(* Any callers of EventController, with any faults.                        *)

Listed == Values(heap, events)

\* The end of a save whose list has the records recs.
SavesRecs(recs) ==
    /\ Range(Saved') \in {recs, Range(Saved), {}}
    /\ Range(Listed') \in {recs, {}} /\ (running' => Range(Listed') = recs)
    /\ WholeWrites => Range(Saved') = recs \/ Saved' = Saved
    /\ file = Torn /\ file' # Torn => Range(Saved') = recs

LEMMA SaveEnding ==
  ASSUME NEW es, NEW hp, NEW hs, NEW calls, NEW out \in Outcome,
         Values(hp, es) \in Seq(Rec), saveToPersistenceStore(es, hp, hs, calls, out)
  PROVE  SavesRecs(Range(Values(hp, es)))
<1> DEFINE recs == Values(hp, es)
<1>1. file' = Written(recs, out) /\ Written(recs, out) \in {recs, file, Torn}
  BY WrittenCases DEF saveToPersistenceStore
<1>2. Saved' \in {recs, Saved, <<>>} /\ Range(<<>>) = {}
  BY <1>1 DEF Saved, Range
<1>3. Listed' \in {recs, <<>>} /\ (running' => Listed' = recs)
  <2>1. CASE out \in Deaths
    BY <2>1 DEF saveToPersistenceStore, ProcessDies, Listed, Values
  <2>2. CASE out \notin Deaths
    <3>1. events' = es /\ heap' = Alive(hp, es, hs)
      BY <2>2 DEF saveToPersistenceStore
    <3> QED
      BY <3>1, AliveKeepsValues DEF Listed
  <2> QED
    BY <2>1, <2>2
<1>4. WholeWrites => Saved' = recs \/ Saved' = Saved
  BY SaveIsKept
<1>5. file = Torn /\ file' # Torn => Saved' = recs
  BY <1>1, SavedOfRecs DEF Saved
<1> HIDE DEF recs
<1> QED
  BY <1>2, <1>3, <1>4, <1>5 DEF SavesRecs, recs

LEMMA CreateSavesRecs ==
  ASSUME IInv, NEW c \in Content, NEW out \in Outcome, createEvent(c, out)
  PROVE  \E rec \in Rec :
           /\ rec.id \notin usedIds /\ usedIds' = usedIds \cup {rec.id}
           /\ SavesRecs(Others(Listed, rec.id) \cup {rec})
<1>1. PICK id \in Id \ usedIds, new \in NewObjects(1, DOMAIN heap) :
        LET rec == [id |-> id, data |-> c]
            o == new[1]
        IN /\ usedIds' = usedIds \cup {id}
           /\ saveToPersistenceStore(
                Append(events, o),
                [x \in DOMAIN heap \cup {o} |-> IF x = o THEN rec ELSE heap[x]],
                held \cup {o}, createEventInFirebase(rec), out)
  BY DEF createEvent
<1> DEFINE rec == [id |-> id, data |-> c]
           o == new[1]
           hp == [x \in DOMAIN heap \cup {o} |-> IF x = o THEN rec ELSE heap[x]]
           es == Append(events, o)
           calls == createEventInFirebase(rec)
<1>2. o \in Obj \ DOMAIN heap
  BY NewObjectsArePlaced
<1>3. rec \in Rec /\ rec.id = id /\ rec.id \notin usedIds
  BY DEF Rec
<1>4. saveToPersistenceStore(es, hp, held \cup {o}, calls, out) /\ usedIds' = usedIds \cup {rec.id}
  BY <1>1
<1> HIDE DEF calls, o, rec
<1>5. /\ Values(hp, es) \in Seq(Rec)
      /\ Range(Values(hp, es)) = Others(Listed, rec.id) \cup {rec}
  BY <1>2, <1>3, CreatedRecs DEF Listed
<1> HIDE DEF hp, es
<1>6. SavesRecs(Others(Listed, rec.id) \cup {rec})
  BY <1>4, <1>5, SaveEnding
<1> QED
  BY <1>3, <1>4, <1>6

\* An object that the list does not have is changed in vain: the list is saved as
\* it was.
LEMMA UpdateSavesRecs ==
  ASSUME IInv, NEW o \in held, NEW c \in Content, NEW out \in Outcome,
         updateEvent(o, c, out)
  PROVE  /\ usedIds' = usedIds
         /\ \/ SavesRecs(Range(Listed))
            \/ \E rec \in Rec : /\ rec.id \in IdsOf(Listed)
                                /\ SavesRecs(Others(Listed, rec.id) \cup {rec})
<1> DEFINE rec == [heap[o] EXCEPT !.data = c]
           hp == [heap EXCEPT ![o] = rec]
           calls == updateEventInFirebase(rec)
<1>1. usedIds' = usedIds /\ saveToPersistenceStore(events, hp, held, calls, out)
  BY DEF updateEvent
<1>2. heap[o] \in Rec
  BY HeapFacts
<1>3. rec \in Rec /\ rec.id = heap[o].id
  BY <1>2 DEF Rec
<1> HIDE DEF rec, calls
<1>4. CASE o \in Range(events)
  <2>1. /\ Values(hp, events) \in Seq(Rec)
        /\ Range(Values(hp, events)) = Others(Listed, rec.id) \cup {rec}
    BY <1>3, <1>4, UpdatedRecs DEF Listed
  <2>2. rec.id \in IdsOf(Listed)
    BY <1>3, <1>4, RangeOfList, IdsOfRange DEF Listed
  <2> HIDE DEF hp
  <2>3. SavesRecs(Others(Listed, rec.id) \cup {rec})
    BY <1>1, <2>1, SaveEnding
  <2> QED
    BY <1>1, <1>3, <2>2, <2>3
<1>5. CASE o \notin Range(events)
  <2>1. Values(hp, events) = Listed
    BY <1>5 DEF Values, Listed, Range
  <2>2. Listed \in Seq(Rec)
    BY HeapFacts, RangeOfValues DEF Listed
  <2> HIDE DEF hp
  <2>3. SavesRecs(Range(Listed))
    BY <1>1, <2>1, <2>2, SaveEnding
  <2> QED
    BY <1>1, <2>3
<1> QED
  BY <1>4, <1>5

\* Whichever object is given, the one entry with its id goes, if there is one.
LEMMA DeleteSavesRecs ==
  ASSUME IInv, NEW o \in DOMAIN heap, NEW out \in Outcome, delete(o, out)
  PROVE  /\ usedIds' = usedIds
         /\ \/ UNCHANGED <<file, heap, events>>
            \/ \E id \in IdsOf(Listed) : SavesRecs(Others(Listed, id))
<1>1. CASE IndicesOf(o) = {}
  BY <1>1 DEF delete, memory
<1>2. CASE IndicesOf(o) # {}
  <2> DEFINE k == Min(IndicesOf(o))
             es == RemoveAt(events, k)
             call == <<DeleteDocument(heap[o].id)>>
  <2>1. usedIds' = usedIds /\ saveToPersistenceStore(es, heap, held, call, out)
    BY <1>2 DEF delete
  <2>2. IndicesOf(o) \subseteq DOMAIN events /\ DOMAIN events = 1..Len(events)
    BY HeapFacts DEF IndicesOf
  <2>3. k \in IndicesOf(o)
    <3>1. IndicesOf(o) \subseteq Nat
      BY <2>2
    <3> QED
      BY <1>2, <3>1, MinIsLeast
  <2>4. k \in DOMAIN events /\ heap[events[k]].id = heap[o].id
    BY <2>3 DEF IndicesOf
  <2> HIDE DEF k, call
  <2>5. /\ Values(heap, es) \in Seq(Rec)
        /\ Range(Values(heap, es)) = Others(Listed, heap[events[k]].id)
    BY <2>4, DeletedRecs DEF Listed
  <2>6. heap[events[k]].id \in IdsOf(Listed)
    BY <2>4, RangeOfList, IdsOfRange DEF Listed, Range
  <2> HIDE DEF es
  <2>7. SavesRecs(Others(Listed, heap[events[k]].id))
    BY <2>1, <2>5, SaveEnding
  <2> QED
    BY <2>1, <2>6, <2>7
<1> QED
  BY <1>1, <1>2

\* A load brings nothing that the file or the list does not have.
LEMMA LoadedRecs ==
  ASSUME IInv, NEW D, NEW hp \in [D -> Rec], NEW es, NEW hs \in SUBSET D,
         loadFromPersistenceStore(es, hp, hs)
  PROVE  Range(Listed') \subseteq Range(Values(hp, es)) \cup Range(Saved)
<1>1. CASE file \in {NoFile, Torn}
  <2>1. events' = es /\ heap' = Alive(hp, es, hs)
    BY <1>1 DEF loadFromPersistenceStore
  <2> QED
    BY <2>1, AliveKeepsValues DEF Listed
<1>2. CASE file \notin {NoFile, Torn}
  <2>1. file \in Seq(Rec)
    BY <1>2 DEF IInv, TypeOK
  <2>2. Listed' = file
    BY <2>1, LoadedValues DEF Listed
  <2> QED
    BY <1>2, <2>2 DEF Saved
<1> QED
  BY <1>1, <1>2

LEMMA NothingListedDead ==
  ASSUME events' = <<>>
  PROVE  Range(Listed') = {}
BY DEF Listed, Values, Range

\* A step that saves nothing.
SavesNothing ==
    /\ UNCHANGED <<file, usedIds>>
    /\ Range(Listed') \subseteq Range(Listed) \cup Range(Saved)
    /\ running /\ running' /\ file = Torn => Range(Listed') = Range(Listed)

LEMMA OtherSteps ==
  ASSUME IInv,
         \/ reload \/ Launch \/ Kill \/ Network \/ UNCHANGED vars
         \/ \E id \in Id : fetchEventWith(id) \/ fetchReturns(id) \/ fetchFails(id)
         \/ \E o \in Obj : Take(o) \/ Release(o)
  PROVE  SavesNothing
<1>1. CASE reload \/ \E id \in Id : fetchEventWith(id)
  <2>1. loadFromPersistenceStore(events, heap, held) /\ UNCHANGED <<file, usedIds>>
    BY <1>1 DEF reload, fetchEventWith
  <2>2. held \in SUBSET DOMAIN heap /\ heap \in [DOMAIN heap -> Rec]
    BY HeapFacts
  <2>3. file = Torn => Listed' = Listed
    BY <2>1, AliveKeepsValues DEF loadFromPersistenceStore, Listed
  <2> QED
    BY <2>1, <2>2, <2>3, LoadedRecs DEF Listed, SavesNothing
<1>2. CASE Launch
  <2>1. loadFromPersistenceStore(<<>>, <<>>, {}) /\ UNCHANGED <<file, usedIds>>
    BY <1>2 DEF Launch
  <2>2. <<>> \in [{} -> Rec] /\ {} \in SUBSET {} /\ Range(Values(<<>>, <<>>)) = {}
    BY DEF Values, Range
  <2>3. Range(Listed') \subseteq Range(Values(<<>>, <<>>)) \cup Range(Saved)
    BY <2>1, <2>2, LoadedRecs
  <2>4. ~running
    BY <1>2 DEF Launch
  <2> QED
    BY <2>1, <2>2, <2>3, <2>4 DEF SavesNothing
<1>3. CASE Kill
  BY <1>3, NothingListedDead DEF Kill, ProcessDies, SavesNothing
<1>4. CASE \E o \in Obj : Release(o)
  <2>1. UNCHANGED <<file, usedIds, events>> /\ heap' = Alive(heap, events, held')
    BY <1>4 DEF Release
  <2> QED
    BY <2>1, AliveKeepsValues DEF Listed, SavesNothing
<1>5. CASE \/ Network \/ UNCHANGED vars \/ \E o \in Obj : Take(o)
           \/ \E id \in Id : fetchReturns(id) \/ fetchFails(id)
  BY <1>5 DEF Network, fetchReturns, fetchFails, Take, vars, controllerVars, memory, Listed,
              SavesNothing
<1> QED
  BY <1>1, <1>2, <1>3, <1>4, <1>5

\* Every step of the controller as one of four cases.
LEMMA StepCases ==
  ASSUME IInv, [Next]_vars
  PROVE  \/ SavesNothing
         \/ running /\ usedIds' = usedIds /\ SavesRecs(Range(Listed))
         \/ \E rec \in Rec :
              /\ \/ rec.id \notin usedIds /\ usedIds' = usedIds \cup {rec.id}
                 \/ rec.id \in IdsOf(Listed) /\ usedIds' = usedIds
              /\ running /\ SavesRecs(Others(Listed, rec.id) \cup {rec})
         \/ \E id \in IdsOf(Listed) :
              running /\ usedIds' = usedIds /\ SavesRecs(Others(Listed, id))
<1>1. CASE \E c \in Content, out \in Outcome : createEvent(c, out)
  BY <1>1, CreateSavesRecs DEF createEvent
<1>2. CASE \E o \in held, c \in Content, out \in Outcome : updateEvent(o, c, out)
  BY <1>2, UpdateSavesRecs DEF updateEvent
<1>3. CASE \E o \in DOMAIN heap, out \in Outcome : delete(o, out)
  <2>1. PICK o \in DOMAIN heap, out \in Outcome : delete(o, out)
    BY <1>3
  <2>2. CASE UNCHANGED <<file, heap, events>>
    BY <2>1, <2>2, DeleteSavesRecs DEF Listed, SavesNothing
  <2> QED
    BY <2>1, <2>2, DeleteSavesRecs DEF delete
<1>4. CASE \/ reload \/ Launch \/ Kill \/ Network \/ UNCHANGED vars
           \/ \E id \in Id : fetchEventWith(id) \/ fetchReturns(id) \/ fetchFails(id)
           \/ \E o \in Obj : Take(o) \/ Release(o)
  BY <1>4, OtherSteps
<1> QED
  BY <1>1, <1>2, <1>3, <1>4 DEF Next, Operation

-----------------------------------------------------------------------------
(* Nothing comes back.                                                     *)

LEMMA KeptIdsAre ==
  /\ KeptIds = {rec.id : rec \in Range(Listed) \cup Range(Saved)}
  /\ KeptIds' = {rec.id : rec \in Range(Listed') \cup Range(Saved')}
<1>1. /\ KeptIds = IdsOf(Listed) \cup IdsOf(Saved)
      /\ KeptIds' = IdsOf(Listed') \cup IdsOf(Saved')
  BY DEF KeptIds, Listed
<1> QED
  BY <1>1, IdsOfRange

LEMMA StepNeverReturns ==
  ASSUME IInv, [Next]_vars
  PROVE  \A id \in usedIds \ KeptIds : id \notin KeptIds'
<1> SUFFICES ASSUME NEW id \in usedIds \ KeptIds,
                    NEW r \in Range(Listed') \cup Range(Saved'), r.id = id
             PROVE  FALSE
  BY KeptIdsAre
<1>1. r \notin Range(Listed) \cup Range(Saved)
  BY KeptIdsAre
<1>2. CASE SavesNothing
  BY <1>1, <1>2 DEF SavesNothing, Saved
<1>3. CASE SavesRecs(Range(Listed))
  BY <1>1, <1>3 DEF SavesRecs
<1>4. ASSUME NEW rec \in Rec,
             rec.id \notin usedIds \/ rec.id \in IdsOf(Listed),
             SavesRecs(Others(Listed, rec.id) \cup {rec})
      PROVE  FALSE
  <2>1. r = rec
    BY <1>1, <1>4 DEF SavesRecs, Others
  <2>2. rec.id \in IdsOf(Listed)
    BY <1>4, <2>1
  <2> QED
    BY <2>1, <2>2, IdsOfRange, KeptIdsAre
<1>5. CASE \E i \in IdsOf(Listed) : SavesRecs(Others(Listed, i))
  BY <1>1, <1>5 DEF SavesRecs, Others
<1> QED
  BY <1>2, <1>3, <1>4, <1>5, StepCases

\* An event that neither the list nor the file has any more is not brought back by
\* any caller, although it may still hold the event's object, whatever fails.
THEOREM NeverReturnsAlways == Spec => NeverReturns
<1>1. IInv /\ [Next]_vars => [\A id \in usedIds \ KeptIds : id \notin KeptIds']_vars
  BY StepNeverReturns
<1> QED
  BY <1>1, IInvAlways, PTL DEF Spec, NeverReturns

\* The same of the app, on all its paths, a crash included.
THEOREM AppNeverReturns == AppSpec => NeverReturns
<1>1. AppInv /\ [AppNext]_appVars
        => [\A id \in usedIds \ KeptIds : id \notin KeptIds']_vars
  <2> SUFFICES ASSUME AppInv, [AppNext]_appVars
               PROVE  \A id \in usedIds \ KeptIds : id \notin KeptIds'
    OBVIOUS
  <2>1. CASE [Next]_vars
    BY <2>1, StepNeverReturns DEF AppInv
  <2>2. CASE Crash
    <3>1. UNCHANGED <<file, usedIds>> /\ events' = <<>>
      BY <2>2 DEF Crash, ProcessDies
    <3>2. Range(Listed') = {} /\ Saved' = Saved
      BY <3>1, NothingListedDead DEF Saved
    <3> QED
      BY <3>2, KeptIdsAre
  <2> QED
    BY <2>1, <2>2, AppStepIsControllerStep DEF AppInv
<1> QED
  BY <1>1, AppInvAlways, PTL DEF AppSpec, NeverReturns

-----------------------------------------------------------------------------
(* A torn file.                                                            *)

LEMMA StepRepairs ==
  ASSUME IInv, [Next]_vars
  PROVE  OutlivesTear
<1> SUFFICES ASSUME running, file = Torn
             PROVE  /\ running' => AtMostOne(IdsOf(Listed) \ IdsOf(Listed'))
                    /\ file' # Torn => AtMostOne(IdsOf(Listed) \ IdsOf(Saved'))
  BY DEF OutlivesTear, Listed
<1>1. /\ IdsOf(Listed) = {rec.id : rec \in Range(Listed)}
      /\ IdsOf(Listed') = {rec.id : rec \in Range(Listed')}
      /\ IdsOf(Saved') = {rec.id : rec \in Range(Saved')}
  BY IdsOfRange
<1>2. ASSUME NEW recs, SavesRecs(recs)
      PROVE  /\ running' => IdsOf(Listed') = {rec.id : rec \in recs}
             /\ file' # Torn => IdsOf(Saved') = {rec.id : rec \in recs}
  BY <1>1, <1>2 DEF SavesRecs
<1>3. CASE SavesNothing
  BY <1>1, <1>3 DEF SavesNothing, AtMostOne
<1>4. CASE SavesRecs(Range(Listed))
  BY <1>1, <1>2, <1>4 DEF AtMostOne
<1>5. ASSUME NEW rec \in Rec, SavesRecs(Others(Listed, rec.id) \cup {rec})
      PROVE  /\ running' => AtMostOne(IdsOf(Listed) \ IdsOf(Listed'))
             /\ file' # Torn => AtMostOne(IdsOf(Listed) \ IdsOf(Saved'))
  <2>1. IdsOf(Listed) \subseteq {r.id : r \in Others(Listed, rec.id) \cup {rec}}
    BY <1>1 DEF Others
  <2> QED
    BY <1>2, <1>5, <2>1 DEF AtMostOne
<1>6. ASSUME NEW id \in IdsOf(Listed), SavesRecs(Others(Listed, id))
      PROVE  /\ running' => AtMostOne(IdsOf(Listed) \ IdsOf(Listed'))
             /\ file' # Torn => AtMostOne(IdsOf(Listed) \ IdsOf(Saved'))
  <2>1. IdsOf(Listed) \ {r.id : r \in Others(Listed, id)} \subseteq {id}
    BY <1>1 DEF Others
  <2> QED
    BY <1>2, <1>6, <2>1 DEF AtMostOne
<1> QED
  BY <1>3, <1>4, <1>5, <1>6, StepCases

\* While the process lives, a torn file takes no event from the list, and the first
\* write that succeeds holds all of it again, for any callers and any faults.
THEOREM TornIsRepairedAlways == Spec => TornIsRepaired
<1>1. IInv /\ [Next]_vars => [OutlivesTear]_vars
  BY StepRepairs
<1> QED
  BY <1>1, IInvAlways, PTL DEF Spec, TornIsRepaired

\* The same of the app, on all its paths.
THEOREM AppTornIsRepaired == AppSpec => TornIsRepaired
<1>1. AppInv /\ [AppNext]_appVars => [OutlivesTear]_vars
  <2> SUFFICES ASSUME AppInv, [AppNext]_appVars PROVE OutlivesTear
    OBVIOUS
  <2>1. CASE [Next]_vars
    BY <2>1, StepRepairs DEF AppInv
  <2>2. CASE Crash
    BY <2>2 DEF Crash, ProcessDies, OutlivesTear
  <2> QED
    BY <2>1, <2>2, AppStepIsControllerStep DEF AppInv
<1> QED
  BY <1>1, AppInvAlways, PTL DEF AppSpec, TornIsRepaired

-----------------------------------------------------------------------------
(* How the documents and the file part.                                    *)

LEMMA DocOfRange ==
  ASSUME NEW f, NEW g, NEW id,
         \A rec : rec.id = id => (rec \in Range(f) <=> rec \in Range(g))
  PROVE  DocOf(f, id) = DocOf(g, id)
<1>1. /\ ContentOf(f, id) = {rec.data : rec \in {r \in Range(f) : r.id = id}}
      /\ ContentOf(g, id) = {rec.data : rec \in {r \in Range(g) : r.id = id}}
  BY DEF ContentOf, Range
<1>2. {r \in Range(f) : r.id = id} = {r \in Range(g) : r.id = id}
  OBVIOUS
<1> QED
  BY <1>1, <1>2 DEF DocOf

\* A file that has a mutation's entry alone for its event shows what its document
\* will.
LEMMA DocOfEntry ==
  ASSUME NEW f, NEW m,
         \A rec : rec.id = m.id => (rec \in Range(f) <=> rec = m /\ m.data # NoDoc)
  PROVE  DocOf(f, m.id) = m.data
<1>1. ContentOf(f, m.id) = {rec.data : rec \in {r \in Range(f) : r.id = m.id}}
  BY DEF ContentOf, Range
<1>2. CASE m.data = NoDoc
  <2>1. ContentOf(f, m.id) = {}
    BY <1>1, <1>2
  <2> QED
    BY <1>2, <2>1 DEF DocOf
<1>3. CASE m.data # NoDoc
  <2>1. {r \in Range(f) : r.id = m.id} = {m}
    BY <1>3
  <2>2. ContentOf(f, m.id) = {m.data}
    BY <1>1, <2>1
  <2> QED
    BY <2>2 DEF DocOf
<1> QED
  BY <1>2, <1>3

\* An operation makes the call m and saves a file that has m's entry, or the file
\* as it was: because it dies, because the list has lost the object, or because
\* the file says already what m says.
SaysTwice(m) ==
    /\ running
    /\ \/ running' = running /\ Enqueue(<<m>>)
       \/ running' = FALSE /\ ClientDies(handoff \o <<m>>)
    /\ \/ Range(Saved') = Others(Saved, m.id) \cup (IF m.data = NoDoc THEN {} ELSE {m})
       \/ /\ Saved' = Saved
          /\ running' = FALSE \/ LostByList(m.id) \/ DocOf(Saved, m.id) = m.data

LEMMA SaysTwiceParts ==
  ASSUME FirestoreTypeOK, NEW m \in Mutation, SaysTwice(m)
  PROVE  PartsForCause
<1>1. ASSUME NEW id, id # m.id PROVE DocOf(Saved', id) = DocOf(Saved, id)
  <2>1. \A rec : rec.id = id => (rec \in Range(Saved') <=> rec \in Range(Saved))
    BY <1>1 DEF SaysTwice, Others
  <2> QED
    BY <2>1, DocOfRange
<1>2. CASE running' = running /\ Enqueue(<<m>>)
  <2>1. \A id \in Id : View(id)' = IF id = m.id THEN m.data ELSE View(id)
    BY <1>2, EnqueueShows
  <2>2. DocOf(Saved', m.id) = m.data \/ LostByList(m.id)
    <3>1. CASE Range(Saved') = Others(Saved, m.id) \cup (IF m.data = NoDoc THEN {} ELSE {m})
      <4>1. \A rec : rec.id = m.id => (rec \in Range(Saved') <=> rec = m /\ m.data # NoDoc)
        BY <3>1 DEF Others
      <4> QED
        BY <4>1, DocOfEntry
    <3>2. CASE Saved' = Saved
      BY <1>2, <3>1, <3>2 DEF SaysTwice
    <3> QED
      BY <3>1, <3>2 DEF SaysTwice
  <2>3. ASSUME NEW id \in Id, Splits(id) PROVE LostByList(id)
    <3>1. View(id) = DocOf(Saved, id) /\ View(id)' # DocOf(Saved', id)
      BY <2>3 DEF Splits, Split
    <3>2. id = m.id
      BY <1>1, <2>1, <3>1
    <3> QED
      BY <2>1, <2>2, <3>1, <3>2
  <2> QED
    BY <2>3 DEF PartsForCause
<1>3. CASE running' = FALSE /\ ClientDies(handoff \o <<m>>)
  <2>1. ASSUME NEW id \in Id, Splits(id) PROVE id = m.id \/ Waiting(id)
    <3>1. View(id) = DocOf(Saved, id) /\ View(id)' # DocOf(Saved', id)
      BY <2>1 DEF Splits, Split
    <3>2. SUFFICES ASSUME id # m.id, ~Waiting(id) PROVE FALSE
      OBVIOUS
    <3>3. <<m>> \in Seq(Mutation) /\ \A i \in DOMAIN <<m>> : <<m>>[i].id # id
      BY <3>2
    <3>4. View(id)' = View(id)
      BY <1>3, <3>2, <3>3, DeathKeepsOthers DEF Waiting
    <3> QED
      BY <1>1, <3>1, <3>2, <3>4
  <2> QED
    BY <1>3, <2>1 DEF SaysTwice, PartsForCause
<1> QED
  BY <1>2, <1>3 DEF SaysTwice

LEMMA SaveSaysTwice ==
  ASSUME NEW es, NEW hp, NEW hs, NEW m, NEW out \in Outcome, running,
         WritesComplete, file' # Torn, Values(hp, es) \in Seq(Rec),
         saveToPersistenceStore(es, hp, hs, <<m>>, out)
  PROVE  \/ running' = running /\ Enqueue(<<m>>) /\ Saved' = Values(hp, es)
         \/ /\ running' = FALSE /\ ClientDies(handoff \o <<m>>)
            /\ Saved' = Saved \/ Saved' = Values(hp, es)
<1>1. file' = Written(Values(hp, es), out)
  BY DEF saveToPersistenceStore
<1>2. CASE out \notin Deaths
  <2>1. Enqueue(<<m>>) /\ running' = running
    BY <1>2 DEF saveToPersistenceStore
  <2>2. file' = Values(hp, es)
    BY <1>1, <1>2, WrittenCases
  <2> QED
    BY <2>1, <2>2, SavedOfRecs DEF Saved
<1>3. CASE out \in Deaths
  <2>1. running' = FALSE /\ ClientDies(handoff \o <<m>>)
    BY <1>3 DEF saveToPersistenceStore, ProcessDies
  <2>2. file' = Values(hp, es) \/ file' = file
    BY <1>1, WrittenCases
  <2> QED
    BY <2>1, <2>2, SavedOfRecs DEF Saved
<1> QED
  BY <1>2, <1>3

LEMMA CreateParts ==
  ASSUME IInv, WritesComplete, file' # Torn, NEW c \in Content, NEW out \in Outcome,
         createEvent(c, out)
  PROVE  PartsForCause
<1>1. PICK id \in Id \ usedIds, new \in NewObjects(1, DOMAIN heap) :
        LET rec == [id |-> id, data |-> c]
            o == new[1]
        IN /\ usedIds' = usedIds \cup {id}
           /\ saveToPersistenceStore(
                Append(events, o),
                [x \in DOMAIN heap \cup {o} |-> IF x = o THEN rec ELSE heap[x]],
                held \cup {o}, createEventInFirebase(rec), out)
  BY DEF createEvent
<1> DEFINE rec == [id |-> id, data |-> c]
           o == new[1]
           hp == [x \in DOMAIN heap \cup {o} |-> IF x = o THEN rec ELSE heap[x]]
           es == Append(events, o)
<1>2. o \in Obj \ DOMAIN heap /\ running
  BY NewObjectsArePlaced DEF createEvent
<1>3. /\ rec \in Rec /\ rec \in Mutation /\ rec.data # NoDoc /\ rec.id \notin usedIds
      /\ createEventInFirebase(rec) = <<rec>>
  BY NoDocAssumption DEF Rec, Mutation, Doc, createEventInFirebase, SetData
<1>4. saveToPersistenceStore(es, hp, held \cup {o}, <<rec>>, out)
  BY <1>1, <1>3
<1> HIDE DEF rec, o
<1>5. /\ Values(hp, es) \in Seq(Rec)
      /\ Range(Values(hp, es)) = Others(Values(heap, events), rec.id) \cup {rec}
  BY <1>2, <1>3, CreatedRecs
<1> HIDE DEF hp, es
<1>6. Saved = Values(heap, events)
  BY <1>2 DEF IInv, Mirror
<1>7. SaysTwice(rec)
  BY <1>2, <1>3, <1>4, <1>5, <1>6, SaveSaysTwice DEF SaysTwice
<1> QED
  BY <1>3, <1>7, SaysTwiceParts DEF IInv, TypeOK

LEMMA UpdateParts ==
  ASSUME IInv, WritesComplete, file' # Torn, NEW o \in held, NEW c \in Content,
         NEW out \in Outcome, updateEvent(o, c, out)
  PROVE  PartsForCause
<1> DEFINE rec == [heap[o] EXCEPT !.data = c]
           hp == [heap EXCEPT ![o] = rec]
<1>1. running /\ saveToPersistenceStore(events, hp, held, updateEventInFirebase(rec), out)
  BY DEF updateEvent
<1>2. heap[o] \in Rec
  BY HeapFacts
<1>3. /\ rec \in Rec /\ rec.id = heap[o].id /\ rec \in Mutation /\ rec.data # NoDoc
      /\ updateEventInFirebase(rec) = <<rec>>
  BY <1>2, NoDocAssumption DEF Rec, Mutation, Doc, updateEventInFirebase, SetData
<1> HIDE DEF rec
<1>4. Saved = Values(heap, events)
  BY <1>1 DEF IInv, Mirror
<1>5. ASSUME o \in Range(events) PROVE SaysTwice(rec)
  <2>1. /\ Values(hp, events) \in Seq(Rec)
        /\ Range(Values(hp, events)) = Others(Values(heap, events), rec.id) \cup {rec}
    BY <1>3, <1>5, UpdatedRecs
  <2> HIDE DEF hp
  <2>2. \/ running' = running /\ Enqueue(<<rec>>) /\ Saved' = Values(hp, events)
        \/ /\ running' = FALSE /\ ClientDies(handoff \o <<rec>>)
           /\ Saved' = Saved \/ Saved' = Values(hp, events)
    BY <1>1, <1>3, <2>1, SaveSaysTwice
  <2> QED
    BY <1>1, <1>3, <1>4, <2>1, <2>2 DEF SaysTwice
<1>6. ASSUME o \notin Range(events) PROVE SaysTwice(rec)
  <2>1. Values(hp, events) = Values(heap, events)
    BY <1>6 DEF Values, Range
  <2>2. Values(heap, events) \in Seq(Rec)
    BY HeapFacts, RangeOfValues
  <2>3. LostByList(rec.id)
    BY <1>3, <1>6 DEF LostByList
  <2> HIDE DEF hp
  <2> QED
    BY <1>1, <1>3, <1>4, <2>1, <2>2, <2>3, SaveSaysTwice DEF SaysTwice
<1>7. SaysTwice(rec)
  BY <1>5, <1>6
<1> QED
  BY <1>3, <1>7, SaysTwiceParts DEF IInv, TypeOK

LEMMA DeleteParts ==
  ASSUME IInv, WritesComplete, file' # Torn, NEW o \in DOMAIN heap,
         NEW out \in Outcome, delete(o, out)
  PROVE  PartsForCause
<1> DEFINE m == DeleteDocument(heap[o].id)
<1>1. running /\ heap[o] \in Rec
  BY HeapFacts DEF delete
<1>2. m \in Mutation /\ m.id = heap[o].id /\ m.data = NoDoc
  BY <1>1 DEF DeleteDocument, Mutation, Doc, Rec
<1>3. Saved = Listed
  BY <1>1 DEF IInv, Mirror, Listed
<1>4. ASSUME IndicesOf(o) = {} PROVE SaysTwice(m)
  <2>1. Enqueue(<<m>>) /\ running' = running /\ Saved' = Saved
    BY <1>4 DEF delete, memory, Saved
  <2>2. \A i \in DOMAIN Listed : Listed[i].id # m.id
    BY <1>2, <1>4 DEF IndicesOf, Listed, Values
  <2>3. DocOf(Saved, m.id) = m.data
    BY <1>2, <1>3, <2>2 DEF DocOf, ContentOf
  <2> HIDE DEF m
  <2> QED
    BY <1>1, <2>1, <2>3 DEF SaysTwice
<1>5. ASSUME IndicesOf(o) # {} PROVE SaysTwice(m)
  <2> DEFINE k == Min(IndicesOf(o))
             es == RemoveAt(events, k)
  <2>1. saveToPersistenceStore(es, heap, held, <<m>>, out)
    BY <1>5 DEF delete
  <2>2. IndicesOf(o) \subseteq DOMAIN events /\ DOMAIN events = 1..Len(events)
    BY HeapFacts DEF IndicesOf
  <2>3. k \in IndicesOf(o)
    <3>1. IndicesOf(o) \subseteq Nat
      BY <2>2
    <3> QED
      BY <1>5, <3>1, MinIsLeast
  <2>4. k \in DOMAIN events /\ heap[events[k]].id = m.id
    BY <1>2, <2>3 DEF IndicesOf
  <2> HIDE DEF k, m
  <2>5. Values(heap, es) \in Seq(Rec) /\ Range(Values(heap, es)) = Others(Listed, m.id)
    BY <2>4, DeletedRecs DEF Listed
  <2> HIDE DEF es
  <2>6. \/ running' = running /\ Enqueue(<<m>>) /\ Saved' = Values(heap, es)
        \/ /\ running' = FALSE /\ ClientDies(handoff \o <<m>>)
           /\ Saved' = Saved \/ Saved' = Values(heap, es)
    BY <1>1, <2>1, <2>5, SaveSaysTwice
  <2> QED
    BY <1>1, <1>2, <1>3, <2>5, <2>6 DEF SaysTwice
<1> QED
  BY <1>2, <1>4, <1>5, SaysTwiceParts DEF IInv, TypeOK

\* A death between operations parts the stores for the calls that waited.
LEMMA DeathParts ==
  ASSUME FirestoreTypeOK, running, ProcessDies(<<>>), UNCHANGED file
  PROVE  PartsForCause
<1>1. Saved' = Saved /\ running' = FALSE /\ ClientDies(handoff \o <<>>)
  BY DEF Saved, ProcessDies
<1>2. ASSUME NEW id \in Id, Splits(id) PROVE Waiting(id)
  <2>1. View(id)' # View(id)
    BY <1>1, <1>2 DEF Splits, Split
  <2>2. SUFFICES ASSUME ~Waiting(id) PROVE FALSE
    OBVIOUS
  <2>3. <<>> \in Seq(Mutation) /\ \A i \in DOMAIN <<>> : <<>>[i].id # id
    OBVIOUS
  <2> QED
    BY <1>1, <2>1, <2>2, <2>3, DeathKeepsOthers DEF Waiting
<1> QED
  BY <1>1, <1>2 DEF PartsForCause

LEMMA QuietParts ==
  ASSUME FirestoreTypeOK, SentIsApplied, UNCHANGED file,
         UNCHANGED firestoreVars \/ Background \/ RejectBatch
  PROVE  PartsForCause
<1>1. Saved' = Saved
  BY DEF Saved
<1>2. ASSUME NEW id \in Id, Splits(id) PROVE Refused(id)
  <2>1. View(id)' # View(id)
    BY <1>1, <1>2 DEF Splits, Split
  <2>2. CASE UNCHANGED firestoreVars
    BY <2>1, <2>2 DEF View, PendingOf, Pending, firestoreVars
  <2>3. CASE Background
    <3>1. CASE StreamRestart
      BY <2>1, <3>1 DEF StreamRestart, View, PendingOf, Pending
    <3> QED
      BY <2>1, <2>3, <3>1, WriteLocallyKeepsView, ServerCommitKeepsView,
         AcknowledgeKeepsView DEF Background
  <2>4. CASE RejectBatch
    BY <2>1, <2>4, RejectKeepsOthers DEF RejectBatch, Refused
  <2> QED
    BY <2>2, <2>3, <2>4
<1> QED
  BY <1>2 DEF PartsForCause

LEMMA StepParts ==
  ASSUME IInv, SentIsApplied, [Next]_vars
  PROVE  PartsForCause
<1> SUFFICES ASSUME WritesComplete, file' # Torn PROVE PartsForCause
  BY DEF PartsForCause
<1>1. FirestoreTypeOK
  BY DEF IInv, TypeOK
<1>2. CASE \E c \in Content, out \in Outcome : createEvent(c, out)
  BY <1>2, CreateParts
<1>3. CASE \E o \in held, c \in Content, out \in Outcome : updateEvent(o, c, out)
  BY <1>3, UpdateParts
<1>4. CASE \E o \in DOMAIN heap, out \in Outcome : delete(o, out)
  BY <1>4, DeleteParts
<1>5. CASE Kill
  BY <1>1, <1>5, DeathParts DEF Kill
<1>6. CASE \/ reload \/ Launch \/ Network \/ UNCHANGED vars
           \/ \E id \in Id : fetchEventWith(id) \/ fetchReturns(id) \/ fetchFails(id)
           \/ \E o \in Obj : Take(o) \/ Release(o)
  <2>1. UNCHANGED file /\ (UNCHANGED firestoreVars \/ Background \/ RejectBatch)
    BY <1>6 DEF reload, Launch, Network, fetchEventWith, fetchReturns, fetchFails, Take,
                Release, vars, controllerVars
  <2> QED
    BY <1>1, <2>1, QuietParts
<1> QED
  BY <1>2, <1>3, <1>4, <1>5, <1>6 DEF Next, Operation

\* For any callers, and for any number of waiting calls, the document and the file's
\* entry of an event part for one of three causes only: the death of the process
\* with this event's call in hand or waiting, the refusal of a write of this event,
\* and a save of an object of it that the list has lost.
THEOREM SplitsOneAlways == Spec => SplitsOneEvent
<1>1. IInv /\ SentIsApplied /\ [Next]_vars => [PartsForCause]_vars
  BY StepParts
<1> QED
  BY <1>1, IInvAlways, ControllerClient, PTL DEF Spec, SplitsOneEvent

\* The same of the app, on all its paths, a crash included.
THEOREM AppSplitsOne == AppSpec => SplitsOneEvent
<1>1. AppInv /\ SentIsApplied /\ [AppNext]_appVars => [PartsForCause]_vars
  <2> SUFFICES ASSUME AppInv, SentIsApplied, [AppNext]_appVars PROVE PartsForCause
    OBVIOUS
  <2>1. CASE [Next]_vars
    BY <2>1, StepParts DEF AppInv
  <2>2. CASE Crash
    BY <2>2, DeathParts DEF Crash, AppInv, UITypeOK, IInv, TypeOK
  <2> QED
    BY <2>1, <2>2, AppStepIsControllerStep DEF AppInv
<1> QED
  BY <1>1, AppInvAlways, AppClient, PTL DEF AppSpec, SplitsOneEvent

-----------------------------------------------------------------------------
(* The file is a book, for any callers.                                    *)

LEMMA SameRange ==
  ASSUME NEW f, NEW g, DistinctIds(f), DistinctIds(g), Range(f) = Range(g)
  PROVE  BookOf(f) = BookOf(g)
<1>1. IdsOf(f) = IdsOf(g)
  BY IdsOfRange
<1>2. \A id \in IdsOf(f) : BookOf(f)[id] = BookOf(g)[id]
  BY SameRecords
<1>3. /\ BookOf(f) = [id \in IdsOf(f) |-> BookOf(f)[id]]
      /\ BookOf(g) = [id \in IdsOf(g) |-> BookOf(g)[id]]
  BY DEF BookOf
<1> QED
  BY <1>1, <1>2, <1>3

BookAloneStep == [BookAlone!BookNext]_<<usedIds, BookOfFile, None>>

LEMMA SameFileSameBook ==
  ASSUME UNCHANGED <<file, usedIds>>
  PROVE  BookAloneStep
BY DEF BookAloneStep, BookOfFile, IdsOf, ContentOf, Saved

LEMMA StepKeepsTheBook ==
  ASSUME WholeWrites, IInv, IInv', [Next]_vars
  PROVE  BookAloneStep
<1> DEFINE book == BookOf(Saved)
<1>1. BookOfFile = book /\ BookOfFile' = BookOf(Saved') /\ DOMAIN book = IdsOf(Saved)
  BY DEF BookOfFile, BookOf, IdsOf, ContentOf
<1>2. DistinctIds(Saved) /\ DistinctIds(Saved')
  BY DEF IInv, UniqueIds, DistinctIds
<1>3. running => Saved = Listed
  BY ListIsFile DEF Listed
<1>4. ASSUME Saved' = Saved PROVE BookOfFile' = BookOfFile
  BY <1>1, <1>4
<1>5. CASE SavesNothing
  BY <1>5, SameFileSameBook DEF SavesNothing
<1>6. CASE running /\ usedIds' = usedIds /\ SavesRecs(Range(Listed))
  <2>1. BookOfFile' = BookOfFile
    <3>1. Range(Saved') = Range(Saved) \/ Saved' = Saved
      BY <1>3, <1>6 DEF SavesRecs
    <3> QED
      BY <1>1, <1>2, <1>4, <3>1, SameRange
  <2> QED
    BY <1>6, <2>1 DEF BookAloneStep
<1>7. ASSUME NEW rec \in Rec, running,
             \/ rec.id \notin usedIds /\ usedIds' = usedIds \cup {rec.id}
             \/ rec.id \in IdsOf(Listed) /\ usedIds' = usedIds,
             SavesRecs(Others(Listed, rec.id) \cup {rec})
      PROVE  BookAloneStep
  <2>1. rec.id \in Id /\ rec.data \in Content
    BY DEF Rec
  <2>2. CASE Range(Saved') = Others(Saved, rec.id) \cup {rec}
    <3>1. BookOf(Saved') = EnteredIn(book, rec.id, rec.data)
      BY <1>2, <2>2, EntryWritten
    <3>2. BookOfFile' = BookAlone!Entered(rec.id, rec.data)
      BY <1>1, <3>1 DEF EnteredIn, BookAlone!Entered
    <3>3. BookAlone!Told(rec.id, rec.data)
      BY DEF BookAlone!Told
    <3>4. BookAlone!Add(rec.id, rec.data) \/ BookAlone!Amend(rec.id, rec.data)
      BY <1>1, <1>3, <1>7, <3>2, <3>3 DEF BookAlone!Add, BookAlone!Amend
    <3> QED
      BY <2>1, <3>4 DEF BookAloneStep, BookAlone!BookNext
  <2>3. CASE Saved' = Saved
    <3>1. BookAlone!Lose(rec.id) \/ UNCHANGED <<usedIds, BookOfFile, None>>
      BY <1>4, <1>7, <2>3 DEF BookAlone!Lose
    <3> QED
      BY <2>1, <3>1 DEF BookAloneStep, BookAlone!BookNext
  <2> QED
    BY <1>3, <1>7, <2>2, <2>3 DEF SavesRecs
<1>8. ASSUME NEW id \in IdsOf(Listed), running, usedIds' = usedIds,
             SavesRecs(Others(Listed, id))
      PROVE  BookAloneStep
  <2>1. CASE Range(Saved') = Others(Saved, id)
    <3>1. BookOf(Saved') = RemovedFrom(book, id)
      BY <1>2, <2>1, EntryRemoved
    <3>2. id \in Id
      BY HeapFacts, RangeOfList, IdsOfRange DEF Listed, Rec
    <3>3. BookAlone!Remove(id)
      BY <1>1, <1>3, <1>8, <3>1 DEF RemovedFrom, BookAlone!Remove
    <3> QED
      BY <3>2, <3>3 DEF BookAloneStep, BookAlone!BookNext
  <2>2. CASE Saved' = Saved
    BY <1>4, <1>8, <2>2 DEF BookAloneStep
  <2> QED
    BY <1>3, <1>8, <2>1, <2>2 DEF SavesRecs
<1> QED
  BY <1>5, <1>6, <1>7, <1>8, StepCases

LEMMA InitIsEmptyBook == Init => BookAlone!BookInit
<1> SUFFICES ASSUME Init PROVE BookAlone!BookInit
  OBVIOUS
<1>1. Saved = <<>> /\ usedIds = Foreign
  BY DEF Init, Saved
<1>2. IdsOf(Saved) = {}
  BY <1>1 DEF IdsOf
<1> QED
  BY <1>1, <1>2, ForeignAssumption DEF BookAlone!BookInit, BookOfFile

\* Where a write of the file is whole or not made, the file is a book for any
\* callers of EventController, whichever objects they hold on to.
THEOREM ControllerKeepsTheBook ==
  ASSUME WholeWrites
  PROVE  Spec => KeepsTheBook
<1>1. IInv /\ IInv' /\ [Next]_vars => [BookAlone!BookNext]_BookAlone!bookVars
  BY StepKeepsTheBook DEF BookAloneStep, BookAlone!bookVars
<1> QED
  BY <1>1, InitIsEmptyBook, IInvAlways, PTL DEF Spec, KeepsTheBook, BookAlone!BookSpec

\* On every path of the app, a swipe that is given up and a link that loads the
\* list behind the planner included, the file stays a book.
THEOREM AppKeepsTheBook ==
  ASSUME WholeWrites
  PROVE  AppSpec => KeepsTheBook
<1>1. AppInit => BookAlone!BookInit
  BY InitIsEmptyBook DEF AppInit
<1>2. AppInv /\ AppInv' /\ [AppNext]_appVars => [BookAlone!BookNext]_BookAlone!bookVars
  <2> SUFFICES ASSUME AppInv, AppInv', [AppNext]_appVars PROVE BookAloneStep
    BY DEF BookAloneStep, BookAlone!bookVars
  <2>1. CASE [Next]_vars
    BY <2>1, StepKeepsTheBook DEF AppInv
  <2>2. CASE Crash
    BY <2>2, SameFileSameBook DEF Crash
  <2> QED
    BY <2>1, <2>2, AppStepIsControllerStep DEF AppInv
<1> QED
  BY <1>1, <1>2, AppInvAlways, PTL DEF AppSpec, KeepsTheBook, BookAlone!BookSpec
=============================================================================
