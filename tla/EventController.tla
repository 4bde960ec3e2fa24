-------------------------- MODULE EventController --------------------------
(***************************************************************************)
(* EventController.shared: the list of events, the JSON file it is saved   *)
(* to and loaded from, and its calls to Firestore.                         *)
(*                                                                         *)
(* An Event is a class, so the list holds references.  An object lives     *)
(* while the list or a caller (a view controller) refers to it; loading    *)
(* the file puts NEW objects in the list, and a caller that still holds an *)
(* old one then changes an object the list no longer knows.                *)
(*                                                                         *)
(* Every operation is called on the main thread and runs to its end before *)
(* the next starts, so one operation is one action; what can come between  *)
(* its calls is the death of the process, which the parameter out places.  *)
(***************************************************************************)
EXTENDS FirestoreClient, SequencesExt, Functions

CONSTANTS Obj,        \* the pool of Event objects (a bound)
          Foreign,    \* ids of the events other installs have published
          NoFile,     \* FamilyNight.json does not exist
          Torn,       \* FamilyNight.json holds part of an encoding
          None,       \* nil
          MaxFetches  \* bound: link queries waiting for the server

Rec == [id : Id, data : Content]

ASSUME ForeignAssumption == Foreign \subseteq Id
ASSUME FileAssumption == NoFile \notin Seq(Rec) /\ Torn \notin Seq(Rec)
ASSUME NoneAssumption == None \notin Rec /\ None \notin Obj

VARIABLES running,          \* the process is alive
          heap,             \* live Event objects and what they hold
          events,           \* EventController.events
          held,             \* objects that view controllers refer to
          file,             \* FamilyNight.json
          usedIds,          \* the ids given to an event so far
          fetching,         \* ids that getDocuments was called with
          eventDynamicLink, \* EventController.eventDynamicLink
          answer            \* the last call of a fetch's completion block

memory == <<running, heap, events, held, fetching, eventDynamicLink, answer>>
controllerVars == <<memory, file, usedIds>>
vars == <<controllerVars, firestoreVars>>

Readable(f) == f \in Seq(Rec)
Saved == IF file \in {NoFile, Torn} THEN <<>> ELSE file
Values(hp, es) == [i \in DOMAIN es |-> hp[es[i]]]
IdsOf(recs) == {recs[i].id : i \in DOMAIN recs}

TypeOK ==
    /\ FirestoreTypeOK
    /\ running \in BOOLEAN
    /\ events \in Seq(Obj)
    /\ held \subseteq Obj
    /\ heap \in [Range(events) \cup held -> Rec]
    /\ file \in Seq(Rec) \cup {NoFile, Torn}
    /\ usedIds \subseteq Id
    /\ fetching \subseteq Id
    /\ eventDynamicLink \in Rec \cup {None}
    /\ answer \in [id : Id, success : BOOLEAN] \cup {None}

\* No file yet; the server knows the other installs' events only.
Init ==
    /\ running = FALSE
    /\ heap = <<>> /\ events = <<>> /\ held = {}
    /\ file = NoFile
    /\ usedIds = Foreign
    /\ fetching = {} /\ eventDynamicLink = None /\ answer = None
    /\ FirestoreInit
    /\ \A id \in Id : collection[id] = NoDoc <=> id \notin Foreign

-----------------------------------------------------------------------------
(* How the parts of an operation end.                                      *)

\* The objects es and hs refer to; the others are freed.
Alive(hp, es, hs) == Restrict(hp, Range(es) \cup hs)

\* The process ends.  calls are the Firestore calls of the operation it is in.
ProcessDies(calls) ==
    /\ ClientDies(handoff \o calls)
    /\ running' = FALSE
    /\ heap' = <<>> /\ events' = <<>> /\ held' = {}
    /\ fetching' = {} /\ eventDynamicLink' = None /\ answer' = None

\* How an operation that saves can end: the write is complete, fails before it
\* or in its middle (data.write(to:) is not atomic, and the catch block only
\* prints), or the process dies before, during or after it.
Deaths == {"earlyKill", "tornKill", "lateKill"}
Outcome == {"ok"} \cup (Faults \cap (Deaths \cup {"ioError", "tornError"}))
Written(recs, out) == CASE out \in {"ok", "lateKill"} -> recs
                        [] out \in {"ioError", "earlyKill"} -> file
                        [] OTHER -> Torn

\* The operation's last call.  es, hp and hs are the list, the heap and the
\* callers' references it leaves, calls its Firestore calls.
saveToPersistenceStore(es, hp, hs, calls, out) ==
    /\ file' = Written(Values(hp, es), out)
    /\ \/ /\ out \in Deaths
          /\ ProcessDies(calls)
       \/ /\ out \notin Deaths
          /\ Enqueue(calls)
          /\ events' = es /\ held' = hs /\ heap' = Alive(hp, es, hs)
          /\ UNCHANGED <<running, fetching, eventDynamicLink, answer>>

\* One way to place n new objects that differ from every object of hs, if the
\* pool has room: which objects they are makes no difference.
NewObjects(n, hs) ==
    LET places == Injection(1..n, Obj \ hs)
    IN IF places = {} THEN {} ELSE {CHOOSE p \in places : TRUE}

\* Mutant: what is decoded is appended to the list.
loadAppending(es, hp, hs) ==
    IF file \in {NoFile, Torn}
    THEN events' = es /\ heap' = Alive(hp, es, hs)
    ELSE \E new \in NewObjects(Len(file), Range(es) \cup hs) :
            /\ events' = es \o new
            /\ heap' = [o \in Range(es \o new) \cup hs |->
                          IF o \in Range(es) \cup hs THEN hp[o]
                          ELSE file[CHOOSE i \in DOMAIN new : new[i] = o]]

\* Mutant: the planner's object does not survive the load.
loadFreeingHeld(es, hp, hs) ==
    IF file \in {NoFile, Torn}
    THEN events' = es /\ heap' = Alive(hp, es, {})
    ELSE \E new \in NewObjects(Len(file), {}) :
            /\ events' = new
            /\ heap' = [o \in Range(new) |->
                          file[CHOOSE i \in DOMAIN new : new[i] = o]]

\* Mutant: a file that cannot be decoded empties the list.
loadClearing(es, hp, hs) ==
    IF file \in {NoFile, Torn}
    THEN events' = <<>> /\ heap' = Alive(hp, <<>>, hs)
    ELSE \E new \in NewObjects(Len(file), hs) :
            /\ events' = new
            /\ heap' = [o \in Range(new) \cup hs |->
                          IF o \in hs THEN hp[o]
                          ELSE file[CHOOSE i \in DOMAIN new : new[i] = o]]

\* Decoding makes new objects; a file that is missing or torn leaves the list.
loadFromPersistenceStore(es, hp, hs) ==
    IF file \in {NoFile, Torn}
    THEN events' = es /\ heap' = Alive(hp, es, hs)
    ELSE \E new \in NewObjects(Len(file), hs) :
            /\ events' = new
            /\ heap' = [o \in Range(new) \cup hs |->
                          IF o \in hs THEN hp[o]
                          ELSE file[CHOOSE i \in DOMAIN new : new[i] = o]]

-----------------------------------------------------------------------------
(* The calls to Firestore.  Neither set call writes a field "id".          *)

DocFields == {"title", "description", "startDate", "endDate", "location"}
nothingInFirebase(rec) == <<>> \* mutant: the call is forgotten
createEventInFirebase(rec) == <<SetData(rec.id, rec.data)>>
updateEventInFirebase(rec) == <<SetData(rec.id, rec.data)>>

-----------------------------------------------------------------------------
(* The operations.                                                         *)

\* Mutant: the list becomes the new event alone.
createOnly(c, out) ==
    /\ running /\ Room
    /\ \E id \in Id \ usedIds, new \in NewObjects(1, DOMAIN heap) :
         /\ usedIds' = usedIds \cup {id}
         /\ saveToPersistenceStore(
              new,
              [x \in DOMAIN heap \cup {new[1]} |->
                 IF x = new[1] THEN [id |-> id, data |-> c] ELSE heap[x]],
              held \cup {new[1]}, <<SetData(id, c)>>, out)

\* Mutant: an id is free again when no event of the list has it.
createReusingIds(c, out) ==
    /\ running /\ Room
    /\ \E id \in Id \ (Foreign \cup IdsOf(Values(heap, events))),
         new \in NewObjects(1, DOMAIN heap) :
         /\ usedIds' = usedIds \cup {id}
         /\ saveToPersistenceStore(
              Append(events, new[1]),
              [x \in DOMAIN heap \cup {new[1]} |->
                 IF x = new[1] THEN [id |-> id, data |-> c] ELSE heap[x]],
              held \cup {new[1]}, <<SetData(id, c)>>, out)

\* A new Event, published and then added to the list.  The caller keeps it.
createEvent(c, out) ==
    /\ running /\ Room
    /\ \E id \in Id \ usedIds, new \in NewObjects(1, DOMAIN heap) :
         LET rec == [id |-> id, data |-> c]
             o == new[1]
         IN /\ usedIds' = usedIds \cup {id}
            /\ saveToPersistenceStore(
                 Append(events, o),
                 [x \in DOMAIN heap \cup {o} |-> IF x = o THEN rec ELSE heap[x]],
                 held \cup {o}, createEventInFirebase(rec), out)

\* Mutant: the list is saved before the object is changed.
updateAfterSave(o, c, out) ==
    /\ running /\ Room
    /\ LET call == <<SetData(heap[o].id, c)>>
       IN /\ file' = Written(Values(heap, events), out)
          /\ \/ out \in Deaths /\ ProcessDies(call)
             \/ /\ out \notin Deaths
                /\ Enqueue(call)
                /\ heap' = [heap EXCEPT ![o].data = c]
                /\ UNCHANGED <<running, events, held, fetching,
                               eventDynamicLink, answer>>
    /\ UNCHANGED usedIds

\* Mutant: an object that the list does not have is put into it.
updateReinserting(o, c, out) ==
    /\ running /\ Room
    /\ LET rec == [heap[o] EXCEPT !.data = c]
           es == IF o \in Range(events) THEN events ELSE Append(events, o)
       IN saveToPersistenceStore(es, [heap EXCEPT ![o] = rec], held,
                                 updateEventInFirebase(rec), out)
    /\ UNCHANGED usedIds

\* The object gets new content, which is published; the LIST is saved.
updateEvent(o, c, out) ==
    /\ running /\ Room
    /\ LET rec == [heap[o] EXCEPT !.data = c]
       IN saveToPersistenceStore(events, [heap EXCEPT ![o] = rec], held,
                                 updateEventInFirebase(rec), out)
    /\ UNCHANGED usedIds

\* Events are equal when their ids are.
IndicesOf(o) == {i \in DOMAIN events : heap[events[i]].id = heap[o].id}

\* Mutant: the list is saved before the event is removed from it.
deleteAfterSave(o, out) ==
    /\ running /\ Room /\ IndicesOf(o) # {}
    /\ file' = Written(Values(heap, events), out)
    /\ LET call == <<DeleteDocument(heap[o].id)>>
           rest == RemoveAt(events, Min(IndicesOf(o)))
       IN \/ out \in Deaths /\ ProcessDies(call)
          \/ /\ out \notin Deaths
             /\ Enqueue(call)
             /\ events' = rest /\ heap' = Alive(heap, rest, held)
             /\ UNCHANGED <<running, held, fetching, eventDynamicLink, answer>>
    /\ UNCHANGED usedIds

delete(o, out) ==
    /\ running /\ Room
    /\ LET call == <<DeleteDocument(heap[o].id)>>
       IN \/ /\ IndicesOf(o) = {}
             /\ Enqueue(call)
             /\ UNCHANGED <<memory, file>>
          \/ /\ IndicesOf(o) # {}
             /\ saveToPersistenceStore(RemoveAt(events, Min(IndicesOf(o))),
                                       heap, held, call, out)
    /\ UNCHANGED usedIds

reload ==
    /\ running
    /\ loadFromPersistenceStore(events, heap, held)
    /\ UNCHANGED <<firestoreVars, running, held, file, usedIds, fetching,
                   eventDynamicLink, answer>>

\* The query is started and, without waiting for it, the file is loaded.
fetchEventWith(id) ==
    /\ running
    /\ Cardinality(fetching \cup {id}) <= MaxFetches
    /\ fetching' = fetching \cup {id}
    /\ loadFromPersistenceStore(events, heap, held)
    /\ UNCHANGED <<firestoreVars, running, held, file, usedIds,
                   eventDynamicLink, answer>>

\* The documents whose field "id" equals id.
Matching(id) == {d \in {id} : "id" \in DocFields /\ View(d) # NoDoc}

\* The completion block runs with true however many documents there were.
fetchReturns(id) ==
    /\ running /\ id \in fetching
    /\ fetching' = fetching \ {id}
    /\ eventDynamicLink' = IF Matching(id) = {} THEN eventDynamicLink
                           ELSE [id |-> id, data |-> View(id)]
    /\ answer' = [id |-> id, success |-> TRUE]
    /\ UNCHANGED <<firestoreVars, running, heap, events, held, file, usedIds>>

fetchFails(id) ==
    /\ running /\ id \in fetching
    /\ fetching' = fetching \ {id}
    /\ answer' = [id |-> id, success |-> FALSE]
    /\ UNCHANGED <<firestoreVars, running, heap, events, held, file, usedIds,
                   eventDynamicLink>>
-----------------------------------------------------------------------------
(* The callers and the system.                                             *)

\* A view controller keeps a reference it read from the list, or drops one.
Take(o) ==
    /\ running /\ o \in Range(events) \ held
    /\ held' = held \cup {o}
    /\ UNCHANGED <<firestoreVars, running, heap, events, file, usedIds,
                   fetching, eventDynamicLink, answer>>

Release(o) ==
    /\ running /\ o \in held
    /\ held' = held \ {o}
    /\ heap' = Alive(heap, events, held')
    /\ UNCHANGED <<firestoreVars, running, events, file, usedIds, fetching,
                   eventDynamicLink, answer>>

\* The process starts; the first view controller loads the file.
Launch ==
    /\ ~running
    /\ running' = TRUE
    /\ loadFromPersistenceStore(<<>>, <<>>, {})
    /\ UNCHANGED <<firestoreVars, held, file, usedIds, fetching,
                   eventDynamicLink, answer>>

Kill ==
    /\ running /\ "kill" \in Faults
    /\ ProcessDies(<<>>)
    /\ UNCHANGED <<file, usedIds>>

Network ==
    /\ running
    /\ Background \/ RejectBatch
    /\ UNCHANGED controllerVars

Operation ==
    \/ \E c \in Content, out \in Outcome : createEvent(c, out)
    \/ \E o \in held, c \in Content, out \in Outcome : updateEvent(o, c, out)
    \/ \E o \in DOMAIN heap, out \in Outcome : delete(o, out)
    \/ reload
    \/ \E id \in Id : fetchEventWith(id)
    \/ \E id \in Id : fetchReturns(id)
    \/ \E id \in Id : fetchFails(id)

Next ==
    \/ Operation
    \/ \E o \in Obj : Take(o) \/ Release(o)
    \/ Launch
    \/ Kill
    \/ Network

Spec == Init /\ [][Next]_vars

-----------------------------------------------------------------------------
(* What the component promises.                                            *)

\* No two events of the list, and no two entries of the file, have the same
\* id: firstIndex(of:) in delete finds the event meant, whatever loads,
\* deaths and detached objects came before.
DistinctIds(recs) ==
    \A i, j \in DOMAIN recs : recs[i].id = recs[j].id => i = j
UniqueIds == DistinctIds(Values(heap, events)) /\ DistinctIds(Saved)

\* An event that neither the list nor the file has any more never comes back to
\* either, whatever fails: a caller that still holds the object of a deleted
\* event may change and save it, or delete it again, before and after loads and
\* deaths.  The events of other installs never come in at all.
KeptIds == IdsOf(Values(heap, events)) \cup IdsOf(Saved)
NeverReturns == [][\A id \in usedIds \ KeptIds : id \notin KeptIds']_vars

\* Every operation that changes the list saves it and every load replaces it
\* by what was saved: while the app runs, the list is what the file says, in
\* the same order, as long as no write of the file fails.
WritesComplete == Faults \cap {"ioError", "tornError"} = {}
Mirror == running /\ WritesComplete => Values(heap, events) = Saved

\* One operation saves the whole list, but what it changes in the file is the
\* entry of one event at most: no update or delete ever takes another event's
\* content with it, unless the write was torn.
ContentOf(recs, id) == {recs[i].data : i \in {j \in DOMAIN recs : recs[j].id = id}}
SameEntry(f, g, id) == ContentOf(f, id) = ContentOf(g, id)
SavesOneEvent ==
    [][WritesComplete /\ Torn \notin {file, file'} /\ file' # file =>
         \E id \in Id : \A other \in Id \ {id} : SameEntry(Saved, Saved', other)]_vars

\* A torn file costs nothing as long as the process lives: no load takes more from
\* the list than the one event that is being deleted, whatever the user does and
\* whatever else fails, and the first write that succeeds brings all of it back.
\* Only a death with the file torn loses the list.
AtMostOne(S) == \A i, j \in S : i = j
OutlivesTear ==
    running /\ file = Torn =>
      LET listed == IdsOf(Values(heap, events))
      IN /\ running' => AtMostOne(listed \ IdsOf(Values(heap, events))')
         /\ file' # Torn => AtMostOne(listed \ IdsOf(Saved)')
TornIsRepaired == [][OutlivesTear]_vars

\* An operation writes the documents first and the file second, and nothing ever
\* compares them.  Where no write of the file fails, that they part for an event has
\* one of three causes: the process dies, which parts them for the event in hand and
\* for those whose calls still waited for the worker queue, and for no other; the
\* server refuses a write of that very event; or a caller holds an object of it that
\* the list has lost, and saves it.
DocOf(recs, id) == IF ContentOf(recs, id) = {} THEN NoDoc
                   ELSE CHOOSE c \in ContentOf(recs, id) : TRUE
Split(id) == View(id) # DocOf(Saved, id)
Splits(id) == ~Split(id) /\ Split(id)'
Waiting(id) == \E i \in DOMAIN handoff : handoff[i].id = id
Refused(id) == batches # <<>> /\ Head(batches).id = id /\ batches' = Tail(batches)
LostByList(id) == \E o \in held \ Range(events) : heap[o].id = id
PartsForCause ==
    WritesComplete /\ file' # Torn =>
      \A id \in Id : Splits(id) =>
        \/ running /\ ~running' /\ (\A other \in Id : Splits(other) =>
                                     other = id \/ Waiting(id) \/ Waiting(other))
        \/ Refused(id)
        \/ LostByList(id)
SplitsOneEvent == [][PartsForCause]_vars

\* As long as the file is written whole or not at all, it is a book: whatever the
\* callers do with objects that the list has lost, through loads and deaths at
\* any point, one call adds, amends or removes one entry.  What a caller is told
\* is another matter (receipt; see BookOfApp in FamilyNight).
BookOfFile == [id \in IdsOf(Saved) |-> CHOOSE c \in ContentOf(Saved, id) : TRUE]
BookAlone == INSTANCE EventBook
               WITH used <- usedIds, book <- BookOfFile, receipt <- None
KeepsTheBook == BookAlone!BookSpec
=============================================================================
