----------------------- MODULE EventControllerProofs -----------------------
(***************************************************************************)
(* What holds of EventController for every number of events, objects,      *)
(* contents, waiting writes and queries, and for every set of faults.      *)
(*                                                                         *)
(* UniqueIds and Mirror are not inductive: a new event must get an id that *)
(* neither the list, nor the file, nor an object that a caller still holds *)
(* has (IdsUsed), and a process that starts must start with nothing (Off). *)
(***************************************************************************)
EXTENDS EventController, FirestoreClientProofs

Off == ~running => heap = <<>> /\ events = <<>> /\ held = {}

IdsUsed ==
    /\ \A o \in DOMAIN heap : heap[o].id \in usedIds
    /\ IdsOf(Saved) \subseteq usedIds

IInv == TypeOK /\ Off /\ IdsUsed /\ UniqueIds /\ Mirror

-----------------------------------------------------------------------------
(* The operators the operations are made of.                               *)

LEMMA ValuesElements ==
  ASSUME NEW D, NEW hp \in [D -> Rec], NEW es \in Seq(Obj), Range(es) \subseteq D
  PROVE  /\ Values(hp, es) \in Seq(Rec)
         /\ Len(Values(hp, es)) = Len(es)
         /\ DOMAIN Values(hp, es) = 1..Len(es)
         /\ \A i \in 1..Len(es) : es[i] \in D /\ Values(hp, es)[i] = hp[es[i]]
<1>1. DOMAIN es = 1..Len(es) /\ Len(es) \in Nat
  OBVIOUS
<1>2. \A i \in 1..Len(es) : es[i] \in D
  BY <1>1 DEF Range
<1>3. Values(hp, es) = [i \in 1..Len(es) |-> hp[es[i]]]
  BY <1>1 DEF Values
<1>4. \A i \in 1..Len(es) : hp[es[i]] \in Rec
  BY <1>2
<1> QED
  BY <1>1, <1>2, <1>3, <1>4

\* Freeing what nobody refers to leaves the values of the list.
LEMMA AliveKeepsValues ==
  ASSUME NEW hp, NEW es, NEW hs
  PROVE  Values(Alive(hp, es, hs), es) = Values(hp, es)
<1>1. \A i \in DOMAIN es : Alive(hp, es, hs)[es[i]] = hp[es[i]]
  BY DEF Alive, Restrict, Range
<1> QED
  BY <1>1 DEF Values

LEMMA AliveTyped ==
  ASSUME NEW D, NEW hp \in [D -> Rec], NEW es, NEW hs,
         Range(es) \cup hs \subseteq D
  PROVE  /\ Alive(hp, es, hs) \in [Range(es) \cup hs -> Rec]
         /\ \A o \in Range(es) \cup hs : Alive(hp, es, hs)[o] = hp[o]
BY DEF Alive, Restrict

\* What a save leaves in the file, if it ends with out.
LEMMA WrittenCases ==
  ASSUME NEW recs, NEW out \in Outcome
  PROVE  /\ Written(recs, out) \in {recs, file, Torn}
         /\ out \notin Deaths /\ WritesComplete => Written(recs, out) = recs
BY DEF Written, Outcome, Deaths, WritesComplete

LEMMA SavedOfRecs ==
  ASSUME NEW f, f \in Seq(Rec)
  PROVE  f \notin {NoFile, Torn}
BY FileAssumption

-----------------------------------------------------------------------------
(* The invariant through the end of every operation.                       *)

\* Init: nothing is there.
LEMMA InitIInv == Init => IInv
<1> SUFFICES ASSUME Init PROVE IInv
  OBVIOUS
<1>1. FirestoreTypeOK
  BY DEF Init, FirestoreInit, FirestoreTypeOK
<1>2. Range(events) \cup held = {} /\ heap \in [{} -> Rec] /\ DOMAIN heap = {}
  BY DEF Init, Range
<1>3. Saved = <<>> /\ Values(heap, events) = <<>>
  BY DEF Init, Saved, Values
<1>4. TypeOK
  <2>1. heap \in [Range(events) \cup held -> Rec]
    BY <1>2, Zenon
  <2>2. events \in Seq(Obj) /\ held \subseteq Obj
    BY DEF Init
  <2> QED
    BY <1>1, <2>1, <2>2, ForeignAssumption DEF Init, TypeOK
<1>5. IdsUsed
  BY <1>2, <1>3 DEF IdsUsed, IdsOf
<1>6. UniqueIds
  BY <1>3 DEF UniqueIds, DistinctIds
<1>7. Off /\ Mirror
  BY DEF Init, Off, Mirror
<1> QED
  BY <1>4, <1>5, <1>6, <1>7 DEF IInv

\* The end of the process, with a file that holds distinct ids in use.
LEMMA DeathKeepsIInv ==
  ASSUME IInv, NEW calls \in Seq(Mutation), ProcessDies(calls),
         usedIds \subseteq usedIds', usedIds' \subseteq Id,
         file' \in Seq(Rec) \cup {NoFile, Torn},
         IdsOf(Saved') \subseteq usedIds', DistinctIds(Saved')
  PROVE  IInv'
<1>1. FirestoreTypeOK'
  <2>1. handoff \o calls \in Seq(Mutation)
    BY DEF IInv, TypeOK, FirestoreTypeOK
  <2> QED
    BY <2>1, ClientDiesTyped DEF IInv, TypeOK, ProcessDies
<1>2. /\ events' = <<>> /\ heap' = <<>> /\ held' = {} /\ running' = FALSE
      /\ fetching' = {} /\ eventDynamicLink' = None /\ answer' = None
  BY DEF ProcessDies
<1>3. Range(events') \cup held' = {} /\ heap' \in [{} -> Rec] /\ DOMAIN heap' = {}
  BY <1>2 DEF Range
<1>4. Values(heap', events') = <<>>
  BY <1>2 DEF Values
<1>5. TypeOK'
  <2>1. heap' \in [Range(events') \cup held' -> Rec]
    BY <1>3, Zenon
  <2>2. events' \in Seq(Obj) /\ held' \subseteq Obj
    BY <1>2
  <2> QED
    BY <1>1, <1>2, <2>1, <2>2 DEF TypeOK
<1>6. IdsUsed'
  BY <1>3 DEF IdsUsed
<1>7. UniqueIds'
  BY <1>4 DEF UniqueIds, DistinctIds
<1>8. Off' /\ Mirror'
  BY <1>2 DEF Off, Mirror
<1> QED
  BY <1>5, <1>6, <1>7, <1>8 DEF IInv

\* An operation that saves, if the list it leaves has distinct ids in use.
LEMMA SaveKeepsIInv ==
  ASSUME IInv, running,
         NEW D, NEW hp \in [D -> Rec], NEW es \in Seq(Obj), NEW hs \in SUBSET Obj,
         Range(es) \cup hs \subseteq D,
         NEW calls \in Seq(Mutation), NEW out \in Outcome,
         saveToPersistenceStore(es, hp, hs, calls, out),
         usedIds \subseteq usedIds', usedIds' \subseteq Id,
         \A o \in D : hp[o].id \in usedIds',
         DistinctIds(Values(hp, es))
  PROVE  IInv'
<1> DEFINE recs == Values(hp, es)
<1>1. recs \in Seq(Rec) /\ IdsOf(recs) \subseteq usedIds'
  BY ValuesElements DEF IdsOf
<1>2. /\ Written(recs, out) \in {recs, file, Torn}
      /\ out \notin Deaths /\ WritesComplete => Written(recs, out) = recs
  BY WrittenCases
<1>3. file' = Written(recs, out)
  BY DEF saveToPersistenceStore
<1> HIDE DEF recs
<1>4. file' \in Seq(Rec) \cup {NoFile, Torn}
  BY <1>1, <1>2, <1>3 DEF IInv, TypeOK
<1>5. Saved' \in {<<>>, recs, Saved}
  BY <1>2, <1>3 DEF Saved
<1>6. IdsOf(Saved') \subseteq usedIds' /\ DistinctIds(Saved')
  <2>1. CASE Saved' = <<>>
    BY <2>1 DEF IdsOf, DistinctIds
  <2>2. CASE Saved' = recs
    BY <1>1, <2>2 DEF recs
  <2>3. CASE Saved' = Saved
    BY <2>3 DEF IInv, IdsUsed, UniqueIds
  <2> QED
    BY <1>5, <2>1, <2>2, <2>3
<1>7. CASE out \in Deaths
  <2>1. ProcessDies(calls)
    BY <1>7 DEF saveToPersistenceStore
  <2> QED
    BY <1>4, <1>6, <2>1, DeathKeepsIInv
<1>8. CASE out \notin Deaths
  <2>1. /\ Enqueue(calls)
        /\ events' = es /\ held' = hs /\ heap' = Alive(hp, es, hs)
        /\ UNCHANGED <<running, fetching, eventDynamicLink, answer>>
    BY <1>8 DEF saveToPersistenceStore
  <2>2. FirestoreTypeOK'
    BY <2>1, EnqueueTyped DEF IInv, TypeOK
  <2>3. /\ heap' \in [Range(es) \cup hs -> Rec]
        /\ \A o \in Range(es) \cup hs : heap'[o] = hp[o]
        /\ Values(heap', events') = recs
    <3>1. /\ Alive(hp, es, hs) \in [Range(es) \cup hs -> Rec]
          /\ \A o \in Range(es) \cup hs : Alive(hp, es, hs)[o] = hp[o]
      BY DEF Alive, Restrict
    <3>1a. Values(Alive(hp, es, hs), es) = Values(hp, es)
      BY AliveKeepsValues, Zenon
    <3>2. Values(heap', events') = Values(Alive(hp, es, hs), es)
      BY <2>1
    <3> QED
      BY <2>1, <3>1, <3>1a, <3>2 DEF recs
  <2>4. TypeOK'
    BY <1>4, <2>1, <2>2, <2>3 DEF IInv, TypeOK
  <2>5. IdsUsed'
    BY <1>6, <2>3 DEF IdsUsed
  <2>6. UniqueIds'
    BY <1>6, <2>3 DEF UniqueIds, recs
  <2>7. Mirror'
    <3>1. SUFFICES ASSUME WritesComplete PROVE recs = Saved'
      BY <2>3 DEF Mirror, WritesComplete
    <3>2. file' = recs
      BY <1>2, <1>3, <1>8, <3>1
    <3> QED
      BY <1>1, <3>2, SavedOfRecs DEF Saved
  <2>8. Off'
    BY <2>1 DEF Off
  <2> QED
    BY <2>4, <2>5, <2>6, <2>7, <2>8 DEF IInv
<1> QED
  BY <1>7, <1>8

\* NewObjects places different objects, none of which a caller refers to.
LEMMA NewObjectsArePlaced ==
  ASSUME NEW n \in Nat, NEW hs, NEW new \in NewObjects(n, hs)
  PROVE  /\ new \in Seq(Obj) /\ Len(new) = n
         /\ new \in [1..n -> Obj \ hs]
         /\ \A i, j \in 1..n : new[i] = new[j] => i = j
<1>1. new \in Injection(1..n, Obj \ hs)
  BY DEF NewObjects
<1>2. new \in [1..n -> Obj \ hs] /\ IsInjective(new)
  BY <1>1 DEF Injection
<1>3. new \in Seq(Obj) /\ Len(new) = n
  BY <1>2
<1> QED
  BY <1>2, <1>3 DEF IsInjective

\* What a load of a readable file leaves: the file's entries, in new objects.
LEMMA LoadedValues ==
  ASSUME NEW D, NEW hp \in [D -> Rec], NEW es, NEW hs \in SUBSET D,
         file \in Seq(Rec), loadFromPersistenceStore(es, hp, hs)
  PROVE  /\ events' \in Seq(Obj)
         /\ heap' \in [Range(events') \cup hs -> Rec]
         /\ \A o \in hs : heap'[o] = hp[o]
         /\ Values(heap', events') = file
         /\ \A o \in Range(events') : \E i \in DOMAIN file : heap'[o] = file[i]
<1>1. file \notin {NoFile, Torn}
  BY SavedOfRecs
<1>2. PICK new \in NewObjects(Len(file), hs) :
        /\ events' = new
        /\ heap' = [o \in Range(new) \cup hs |->
                      IF o \in hs THEN hp[o]
                      ELSE file[CHOOSE i \in DOMAIN new : new[i] = o]]
  BY <1>1 DEF loadFromPersistenceStore
<1> DEFINE n == Len(file)
<1>3. /\ new \in Seq(Obj) /\ Len(new) = n
      /\ new \in [1..n -> Obj \ hs]
      /\ \A i, j \in 1..n : new[i] = new[j] => i = j
  BY NewObjectsArePlaced
<1>4. DOMAIN new = 1..n /\ DOMAIN file = 1..n /\ n \in Nat
  BY <1>3
<1>5. ASSUME NEW i \in 1..n PROVE new[i] \in Range(new) /\ heap'[new[i]] = file[i]
  <2>1. new[i] \in Range(new) /\ new[i] \notin hs
    BY <1>3, <1>4 DEF Range
  <2>2. (CHOOSE j \in DOMAIN new : new[j] = new[i]) = i
    BY <1>3, <1>4
  <2> QED
    BY <1>2, <2>1, <2>2
<1>6. ASSUME NEW o \in Range(new)
      PROVE  /\ \E i \in DOMAIN file : heap'[o] = file[i]
             /\ heap'[o] \in Rec
  <2>1. PICK i \in 1..n : o = new[i]
    BY <1>4 DEF Range
  <2> QED
    BY <1>4, <1>5, <2>1
<1>7. \A o \in hs : heap'[o] = hp[o] /\ heap'[o] \in Rec
  BY <1>2
<1>8. heap' \in [Range(events') \cup hs -> Rec]
  <2>1. /\ DOMAIN heap' = Range(new) \cup hs
        /\ heap' = [o \in Range(new) \cup hs |-> heap'[o]]
    BY <1>2
  <2> QED
    BY <1>2, <1>6, <1>7, <2>1
<1>9. Values(heap', events') = file
  <2>1. Values(heap', events') = [i \in 1..n |-> heap'[new[i]]]
    BY <1>2, <1>4 DEF Values
  <2>2. file = [i \in 1..n |-> file[i]]
    BY <1>4
  <2> QED
    BY <1>5, <2>1, <2>2
<1> QED
  BY <1>2, <1>3, <1>6, <1>7, <1>8, <1>9

\* Every load, whether the list starts empty or is replaced.
LEMMA LoadKeepsIInv ==
  ASSUME IInv,
         NEW D, NEW hp \in [D -> Rec], NEW es \in Seq(Obj), NEW hs \in SUBSET Obj,
         Range(es) \cup hs \subseteq D,
         \A o \in D : hp[o].id \in usedIds,
         DistinctIds(Values(hp, es)),
         WritesComplete /\ file \in {NoFile, Torn} => Values(hp, es) = <<>>,
         loadFromPersistenceStore(es, hp, hs),
         held' = hs, running', running' \in BOOLEAN,
         UNCHANGED <<firestoreVars, file, usedIds, eventDynamicLink, answer>>,
         fetching' \subseteq Id
  PROVE  IInv'
<1>1. FirestoreTypeOK'
  BY DEF IInv, TypeOK, FirestoreTypeOK, firestoreVars
<1>2. /\ Saved' = Saved /\ IdsOf(Saved) \subseteq usedIds /\ DistinctIds(Saved)
  BY DEF IInv, IdsUsed, UniqueIds, Saved
<1>3. /\ events' \in Seq(Obj)
      /\ heap' \in [Range(events') \cup hs -> Rec]
      /\ \A o \in DOMAIN heap' : heap'[o].id \in usedIds
      /\ DistinctIds(Values(heap', events'))
      /\ WritesComplete => Values(heap', events') = Saved
  <2>1. CASE file \in {NoFile, Torn}
    <3>1. events' = es /\ heap' = Alive(hp, es, hs)
      BY <2>1 DEF loadFromPersistenceStore
    <3>2. /\ Alive(hp, es, hs) \in [Range(es) \cup hs -> Rec]
          /\ \A o \in Range(es) \cup hs : Alive(hp, es, hs)[o] = hp[o]
      BY DEF Alive, Restrict
    <3>2a. Values(Alive(hp, es, hs), es) = Values(hp, es)
      BY AliveKeepsValues, Zenon
    <3>3. Saved = <<>>
      BY <2>1 DEF Saved
    <3> QED
      BY <2>1, <3>1, <3>2, <3>2a, <3>3
  <2>2. CASE file \notin {NoFile, Torn}
    <3>1. file \in Seq(Rec) /\ Saved = file
      BY <2>2 DEF IInv, TypeOK, Saved
    <3>2. /\ events' \in Seq(Obj)
          /\ heap' \in [Range(events') \cup hs -> Rec]
          /\ \A o \in hs : heap'[o] = hp[o]
          /\ Values(heap', events') = file
          /\ \A o \in Range(events') : \E i \in DOMAIN file : heap'[o] = file[i]
      BY <3>1, LoadedValues
    <3>3. \A i \in DOMAIN file : file[i].id \in usedIds
      BY <1>2, <3>1 DEF IdsOf
    <3>4. \A o \in Range(events') \cup hs : heap'[o].id \in usedIds
      BY <3>2, <3>3
    <3> QED
      BY <1>2, <3>1, <3>2, <3>4
  <2> QED
    BY <2>1, <2>2
<1>4. TypeOK'
  BY <1>1, <1>3 DEF IInv, TypeOK
<1>5. IdsUsed'
  BY <1>2, <1>3 DEF IdsUsed
<1>6. UniqueIds'
  BY <1>2, <1>3 DEF UniqueIds
<1>7. Mirror'
  BY <1>2, <1>3 DEF Mirror, WritesComplete
<1>8. Off'
  BY DEF Off
<1> QED
  BY <1>4, <1>5, <1>6, <1>7, <1>8 DEF IInv

-----------------------------------------------------------------------------
(* The invariant through each operation.                                   *)

\* What IInv says of the heap and the list, in the form the operations use.
LEMMA HeapFacts ==
  ASSUME IInv
  PROVE  /\ heap \in [DOMAIN heap -> Rec]
         /\ DOMAIN heap = Range(events) \cup held
         /\ events \in Seq(Obj) /\ held \in SUBSET Obj
         /\ \A o \in DOMAIN heap : heap[o].id \in usedIds
         /\ DistinctIds(Values(heap, events))
         /\ \A i \in 1..Len(events) : events[i] \in DOMAIN heap
         /\ usedIds \subseteq Id
<1>1. /\ heap \in [Range(events) \cup held -> Rec]
      /\ events \in Seq(Obj) /\ held \in SUBSET Obj /\ usedIds \subseteq Id
  BY DEF IInv, TypeOK
<1>2. DOMAIN heap = Range(events) \cup held
  BY <1>1
<1>3. \A i \in 1..Len(events) : events[i] \in DOMAIN heap
  BY <1>1, <1>2 DEF Range
<1> QED
  BY <1>1, <1>2, <1>3 DEF IInv, IdsUsed, UniqueIds

\* A new event has an id that no event of the list has.
LEMMA CreateKeepsIInv ==
  ASSUME IInv, NEW c \in Content, NEW out \in Outcome, createEvent(c, out)
  PROVE  IInv'
<1>1. PICK id \in Id \ usedIds, new \in NewObjects(1, DOMAIN heap) :
        LET rec == [id |-> id, data |-> c]
            o == new[1]
        IN /\ usedIds' = usedIds \cup {id}
           /\ saveToPersistenceStore(
                Append(events, o),
                [x \in DOMAIN heap \cup {o} |-> IF x = o THEN rec ELSE heap[x]],
                held \cup {o}, createEventInFirebase(rec), out)
  BY DEF createEvent
<1> DEFINE rec == [id |-> id, data |-> c]
           o == new[1]
           D == DOMAIN heap \cup {o}
           hp == [x \in D |-> IF x = o THEN rec ELSE heap[x]]
           es == Append(events, o)
           hs == held \cup {o}
           calls == createEventInFirebase(rec)
<1>2. o \in Obj /\ o \notin DOMAIN heap
  BY NewObjectsArePlaced
<1>3. rec \in Rec /\ rec.id = id
  BY DEF Rec
<1>4. calls \in Seq(Mutation)
  <2>1. SetData(id, c) \in Mutation
    BY DEF SetData, Mutation, Doc
  <2> QED
    BY <2>1 DEF createEventInFirebase
<1>5. hp \in [D -> Rec] /\ hp[o] = rec /\ \A x \in DOMAIN heap : hp[x] = heap[x]
  BY <1>2, <1>3, HeapFacts
<1>6. /\ es \in Seq(Obj) /\ hs \in SUBSET Obj /\ Range(es) \cup hs \subseteq D
  BY <1>2, RangeOfAppend, HeapFacts
<1>7. usedIds' = usedIds \cup {id}
  BY <1>1
<1>8. saveToPersistenceStore(es, hp, hs, calls, out)
  BY <1>1
<1> HIDE DEF rec, hp, calls
<1>9. \A x \in D : hp[x].id \in usedIds'
  BY <1>3, <1>5, <1>7, HeapFacts
<1>10. DistinctIds(Values(hp, es))
  <2>1. /\ Len(es) = Len(events) + 1 /\ es[Len(events) + 1] = o
        /\ \A i \in 1..Len(events) : es[i] = events[i]
    BY <1>2, AppendProperties, HeapFacts
  <2>0. /\ DOMAIN Values(hp, es) = 1..Len(events) + 1
        /\ \A i \in 1..Len(events) + 1 : Values(hp, es)[i] = hp[es[i]]
    <3>1. hp \in [D -> Rec] /\ es \in Seq(Obj) /\ Range(es) \subseteq D
      BY <1>5, <1>6
    <3> HIDE DEF D, es
    <3> QED
      BY <2>1, <3>1, ValuesElements
  <2>2. \A i \in 1..Len(events) + 1 :
          Values(hp, es)[i].id = IF i = Len(events) + 1 THEN id
                                 ELSE Values(heap, events)[i].id
    <3>2. \A i \in 1..Len(events) : Values(heap, events)[i] = heap[events[i]]
      BY HeapFacts, ValuesElements
    <3> QED
      BY <1>3, <1>5, <2>0, <2>1, <3>2, HeapFacts
  <2>3. \A i \in 1..Len(events) : Values(heap, events)[i].id \in usedIds
    BY HeapFacts, ValuesElements
  <2>4. DOMAIN Values(heap, events) = 1..Len(events) /\ Len(events) \in Nat
    BY HeapFacts, ValuesElements
  <2>6. \A i, j \in 1..Len(events) :
          Values(heap, events)[i].id = Values(heap, events)[j].id => i = j
    BY <2>4, HeapFacts DEF DistinctIds
  <2> QED
    BY <2>0, <2>2, <2>3, <2>4, <2>6 DEF DistinctIds
<1>11. usedIds \subseteq usedIds' /\ usedIds' \subseteq Id
  BY <1>7, HeapFacts
<1>12. running
  BY DEF createEvent
<1> HIDE DEF D, es, hs, o
<1> QED
  BY <1>4, <1>5, <1>6, <1>8, <1>9, <1>10, <1>11, <1>12, SaveKeepsIInv

\* An update leaves every id where it is.
LEMMA UpdateKeepsIInv ==
  ASSUME IInv, NEW o \in held, NEW c \in Content, NEW out \in Outcome,
         updateEvent(o, c, out)
  PROVE  IInv'
<1> DEFINE rec == [heap[o] EXCEPT !.data = c]
           hp == [heap EXCEPT ![o] = rec]
           calls == updateEventInFirebase(rec)
<1>1. /\ running /\ usedIds' = usedIds
      /\ saveToPersistenceStore(events, hp, held, calls, out)
  BY DEF updateEvent
<1>2. o \in DOMAIN heap /\ heap[o] \in Rec
  BY HeapFacts
<1>3. rec \in Rec /\ rec.id = heap[o].id /\ rec.data = c
  BY <1>2 DEF Rec
<1>4. calls \in Seq(Mutation)
  <2>1. SetData(rec.id, rec.data) \in Mutation
    BY <1>3 DEF SetData, Mutation, Doc, Rec
  <2> QED
    BY <2>1 DEF updateEventInFirebase
<1> HIDE DEF rec, calls
<1>5. /\ hp \in [DOMAIN heap -> Rec]
      /\ \A x \in DOMAIN heap : hp[x].id = heap[x].id
  BY <1>2, <1>3, HeapFacts
<1> HIDE DEF hp
<1>6. DistinctIds(Values(hp, events))
  <2>1. \A i \in 1..Len(events) :
          Values(hp, events)[i].id = Values(heap, events)[i].id
    BY <1>5, HeapFacts, ValuesElements
  <2>2. /\ DOMAIN Values(hp, events) = 1..Len(events)
        /\ DOMAIN Values(heap, events) = 1..Len(events)
    BY <1>5, HeapFacts, ValuesElements
  <2> QED
    BY <2>1, <2>2, HeapFacts DEF DistinctIds
<1>7. \A x \in DOMAIN heap : hp[x].id \in usedIds'
  BY <1>1, <1>5, HeapFacts
<1> QED
  BY <1>1, <1>4, <1>5, <1>6, <1>7, HeapFacts, SaveKeepsIInv

\* A delete leaves the other events in their order.
LEMMA DeleteKeepsIInv ==
  ASSUME IInv, NEW o \in DOMAIN heap, NEW out \in Outcome, delete(o, out)
  PROVE  IInv'
<1> DEFINE calls == <<DeleteDocument(heap[o].id)>>
           k == Min(IndicesOf(o))
           es == RemoveAt(events, k)
<1>1. calls \in Seq(Mutation)
  <2>1. DeleteDocument(heap[o].id) \in Mutation
    BY HeapFacts DEF DeleteDocument, Mutation, Doc, Rec
  <2> QED
    BY <2>1
<1>2. running /\ usedIds' = usedIds
  BY DEF delete
<1>3. CASE IndicesOf(o) = {}
  <2>1. Enqueue(calls) /\ UNCHANGED <<memory, file>>
    BY <1>3 DEF delete
  <2>2. FirestoreTypeOK'
    BY <1>1, <2>1, EnqueueTyped DEF IInv, TypeOK
  <2>3. UNCHANGED <<running, heap, events, held, fetching, eventDynamicLink,
                    answer, file, usedIds>>
    BY <1>2, <2>1 DEF memory
  <2> QED
    BY <2>2, <2>3 DEF IInv, TypeOK, Off, IdsUsed, UniqueIds, Mirror, Saved, Values
<1>4. CASE IndicesOf(o) # {}
  <2>1. saveToPersistenceStore(es, heap, held, calls, out)
    BY <1>4 DEF delete
  <2>2. IndicesOf(o) \subseteq 1..Len(events) /\ Len(events) \in Nat
    BY HeapFacts DEF IndicesOf
  <2>3. k \in 1..Len(events)
    BY <1>4, <2>2, MinIsLeast
  <2> HIDE DEF calls, k
  <2>4. /\ es \in Seq(Obj) /\ Len(es) = Len(events) - 1
        /\ \A i \in 1..Len(events) - 1 :
             es[i] = events[IF i < k THEN i ELSE i + 1]
    BY <2>3, HeapFacts, RemoveAtElements
  <2> HIDE DEF es
  <2>5. \A i \in 1..Len(events) - 1 : es[i] \in Range(events)
    BY <2>2, <2>3, <2>4 DEF Range
  <2>6. Range(es) \subseteq DOMAIN heap /\ held \subseteq DOMAIN heap
    BY <2>4, <2>5, HeapFacts DEF Range
  <2>7. DistinctIds(Values(heap, es))
    <3>1. /\ DOMAIN Values(heap, es) = 1..Len(events) - 1
          /\ \A i \in 1..Len(events) - 1 : Values(heap, es)[i] = heap[es[i]]
      BY <2>4, <2>6, HeapFacts, ValuesElements
    <3>2. /\ DOMAIN Values(heap, events) = 1..Len(events)
          /\ \A i \in 1..Len(events) : Values(heap, events)[i] = heap[events[i]]
      BY HeapFacts, ValuesElements
    <3>3. \A i, j \in 1..Len(events) :
            heap[events[i]].id = heap[events[j]].id => i = j
      BY <3>2, HeapFacts DEF DistinctIds
    <3>4. SUFFICES ASSUME NEW i \in 1..Len(events) - 1, NEW j \in 1..Len(events) - 1,
                          heap[es[i]].id = heap[es[j]].id
                   PROVE  i = j
      BY <3>1 DEF DistinctIds
    <3> DEFINE At(m) == IF m < k THEN m ELSE m + 1
    <3>5. At(i) \in 1..Len(events) /\ At(j) \in 1..Len(events)
      BY <2>2
    <3>6. At(i) = At(j)
      BY <2>4, <3>3, <3>4, <3>5
    <3> QED
      BY <2>3, <3>6
  <2> QED
    BY <1>1, <1>2, <2>1, <2>4, <2>6, <2>7, HeapFacts, SaveKeepsIInv
<1> QED
  BY <1>3, <1>4

\* Loading the file while the app runs: the list was what the file says.
LEMMA ReloadKeepsIInv ==
  ASSUME IInv, running, loadFromPersistenceStore(events, heap, held),
         UNCHANGED <<firestoreVars, running, held, file, usedIds,
                     eventDynamicLink, answer>>,
         fetching' \subseteq Id
  PROVE  IInv'
<1>1. WritesComplete /\ file \in {NoFile, Torn} => Values(heap, events) = <<>>
  BY DEF IInv, Mirror, Saved
<1>2. Range(events) \cup held \subseteq DOMAIN heap
  BY HeapFacts
<1> QED
  BY <1>1, <1>2, HeapFacts, LoadKeepsIInv

\* Loading the file when the process starts.
LEMMA LaunchKeepsIInv ==
  ASSUME IInv, Launch
  PROVE  IInv'
<1>1. held = {} /\ UNCHANGED <<firestoreVars, held, file, usedIds, fetching,
                               eventDynamicLink, answer>>
  BY DEF IInv, Off, Launch
<1>2. <<>> \in [{} -> Rec] /\ <<>> \in Seq(Obj) /\ Range(<<>>) = {}
  BY DEF Range
<1>3. Values(<<>>, <<>>) = <<>>
  BY DEF Values
<1>4. DistinctIds(<<>>)
  BY DEF DistinctIds
<1>5. loadFromPersistenceStore(<<>>, <<>>, {}) /\ running'
  BY DEF Launch
<1>6. fetching' \subseteq Id
  BY <1>1 DEF IInv, TypeOK
<1> QED
  BY <1>1, <1>2, <1>3, <1>4, <1>5, <1>6, LoadKeepsIInv

\* The steps that leave the list, the heap and the file as they are.
LEMMA FetchEndsKeepsIInv ==
  ASSUME IInv, NEW id \in Id, fetchReturns(id) \/ fetchFails(id)
  PROVE  IInv'
<1>1. UNCHANGED <<firestoreVars, running, heap, events, held, file, usedIds>>
  BY DEF fetchReturns, fetchFails
<1>2. FirestoreTypeOK'
  BY <1>1 DEF IInv, TypeOK, FirestoreTypeOK, firestoreVars
<1>3. fetching' \subseteq Id /\ answer' \in [id : Id, success : BOOLEAN] \cup {None}
  <2>1. fetching' \subseteq Id
    BY DEF IInv, TypeOK, fetchReturns, fetchFails
  <2>2. \E b \in BOOLEAN : answer' = [id |-> id, success |-> b]
    BY Zenon DEF fetchReturns, fetchFails
  <2> QED
    BY <2>1, <2>2
<1>4. eventDynamicLink' \in Rec \cup {None}
  <2>1. CASE eventDynamicLink' = eventDynamicLink
    BY <2>1 DEF IInv, TypeOK
  <2>2. CASE eventDynamicLink' # eventDynamicLink
    <3>1. Matching(id) # {} /\ eventDynamicLink' = [id |-> id, data |-> View(id)]
      BY <2>2 DEF fetchReturns, fetchFails
    <3>2. View(id) \in Content
      BY <3>1, ViewTyped DEF Matching, IInv, TypeOK, Doc
    <3> QED
      BY <3>1, <3>2 DEF Rec
  <2> QED
    BY <2>1, <2>2
<1> QED
  BY <1>1, <1>2, <1>3, <1>4
  DEF IInv, TypeOK, Off, IdsUsed, UniqueIds, Mirror, Saved, Values

LEMMA TakeKeepsIInv ==
  ASSUME IInv, NEW o \in Obj, Take(o)
  PROVE  IInv'
<1>1. /\ o \in Range(events) /\ held' = held \cup {o} /\ running
      /\ UNCHANGED <<firestoreVars, running, heap, events, file, usedIds,
                     fetching, eventDynamicLink, answer>>
  BY DEF Take
<1>2. Range(events) \cup held' = Range(events) \cup held
  BY <1>1
<1>3. FirestoreTypeOK'
  BY <1>1 DEF IInv, TypeOK, FirestoreTypeOK, firestoreVars
<1>4. TypeOK'
  BY <1>1, <1>2, <1>3 DEF IInv, TypeOK
<1> QED
  BY <1>1, <1>4 DEF IInv, Off, IdsUsed, UniqueIds, Mirror, Saved, Values

\* An object that is in the list stays; one that is in neither is freed.
LEMMA ReleaseKeepsIInv ==
  ASSUME IInv, NEW o \in Obj, Release(o)
  PROVE  IInv'
<1> DEFINE hs == held \ {o}
<1>1. /\ running /\ held' = hs /\ heap' = Alive(heap, events, hs)
      /\ UNCHANGED <<firestoreVars, running, events, file, usedIds, fetching,
                     eventDynamicLink, answer>>
  BY DEF Release
<1>2. Range(events) \cup hs \subseteq DOMAIN heap
  BY HeapFacts
<1>3. /\ heap' \in [Range(events) \cup hs -> Rec]
      /\ \A x \in Range(events) \cup hs : heap'[x] = heap[x]
  BY <1>1, <1>2, HeapFacts DEF Alive, Restrict
<1>4. Values(heap', events') = Values(heap, events)
  <2>1. Values(Alive(heap, events, hs), events) = Values(heap, events)
    BY AliveKeepsValues, Zenon
  <2> QED
    BY <1>1, <2>1
<1>5. FirestoreTypeOK'
  BY <1>1 DEF IInv, TypeOK, FirestoreTypeOK, firestoreVars
<1>6. Saved' = Saved
  BY <1>1 DEF Saved
<1>7. TypeOK'
  BY <1>1, <1>3, <1>5, HeapFacts DEF IInv, TypeOK
<1>8. IdsUsed'
  BY <1>1, <1>2, <1>3, <1>6, HeapFacts DEF IInv, IdsUsed
<1> QED
  BY <1>1, <1>4, <1>6, <1>7, <1>8 DEF IInv, Off, UniqueIds, Mirror, WritesComplete

LEMMA KillKeepsIInv ==
  ASSUME IInv, Kill
  PROVE  IInv'
<1>1. ProcessDies(<<>>) /\ file' = file /\ usedIds' = usedIds /\ <<>> \in Seq(Mutation)
  BY DEF Kill
<1>2. Saved' = Saved
  BY <1>1 DEF Saved
<1> QED
  BY <1>1, <1>2, DeathKeepsIInv DEF IInv, TypeOK, IdsUsed, UniqueIds

\* The client and the server never touch the app's memory or its file.
LEMMA NetworkKeepsIInv ==
  ASSUME IInv, Network
  PROVE  IInv'
<1>1. FirestoreTypeOK'
  BY BackgroundTyped DEF IInv, TypeOK, Network
<1>2. UNCHANGED <<running, heap, events, held, fetching, eventDynamicLink,
                  answer, file, usedIds>>
  BY DEF Network, controllerVars, memory
<1> QED
  BY <1>1, <1>2 DEF IInv, TypeOK, Off, IdsUsed, UniqueIds, Mirror, Saved, Values

LEMMA NextKeepsIInv ==
  ASSUME IInv, [Next]_vars
  PROVE  IInv'
<1>1. CASE \E c \in Content, out \in Outcome : createEvent(c, out)
  BY <1>1, CreateKeepsIInv
<1>2. CASE \E o \in held, c \in Content, out \in Outcome : updateEvent(o, c, out)
  BY <1>2, UpdateKeepsIInv
<1>3. CASE \E o \in DOMAIN heap, out \in Outcome : delete(o, out)
  BY <1>3, DeleteKeepsIInv
<1>4. CASE reload
  BY <1>4, ReloadKeepsIInv DEF reload, IInv, TypeOK
<1>5. CASE \E id \in Id : fetchEventWith(id)
  BY <1>5, ReloadKeepsIInv DEF fetchEventWith, IInv, TypeOK
<1>6. CASE \E id \in Id : fetchReturns(id) \/ fetchFails(id)
  BY <1>6, FetchEndsKeepsIInv
<1>7. CASE \E o \in Obj : Take(o) \/ Release(o)
  BY <1>7, TakeKeepsIInv, ReleaseKeepsIInv
<1>8. CASE Launch
  BY <1>8, LaunchKeepsIInv
<1>9. CASE Kill
  BY <1>9, KillKeepsIInv
<1>10. CASE Network
  BY <1>10, NetworkKeepsIInv
<1>11. CASE UNCHANGED vars
  <2>1. UNCHANGED <<running, heap, events, held, fetching, eventDynamicLink,
                    answer, file, usedIds, firestoreVars>>
    BY <1>11 DEF vars, controllerVars, memory
  <2>2. FirestoreTypeOK'
    BY <2>1 DEF IInv, TypeOK, FirestoreTypeOK, firestoreVars
  <2> QED
    BY <2>1, <2>2
    DEF IInv, TypeOK, Off, IdsUsed, UniqueIds, Mirror, Saved, Values
<1> QED
  BY <1>1, <1>2, <1>3, <1>4, <1>5, <1>6, <1>7, <1>8, <1>9, <1>10, <1>11
  DEF Next, Operation

-----------------------------------------------------------------------------
\* The inductive invariant holds in every behaviour.
THEOREM IInvAlways == Spec => []IInv
<1>1. Init => IInv
  BY InitIInv
<1>2. IInv /\ [Next]_vars => IInv'
  BY NextKeepsIInv
<1> QED
  BY <1>1, <1>2, PTL DEF Spec

\* The references of the list and of the callers are to objects that live, and
\* every variable keeps its type, whatever faults occur.
THEOREM TypeCorrect == Spec => []TypeOK
<1>1. IInv => TypeOK
  BY DEF IInv
<1> QED
  BY <1>1, IInvAlways, PTL

\* No two events of EventController.events, and no two entries of
\* FamilyNight.json, ever have the same id: delete removes the event meant.
THEOREM UniqueIdsAlways == Spec => []UniqueIds
<1>1. IInv => UniqueIds
  BY DEF IInv
<1> QED
  BY <1>1, IInvAlways, PTL

\* Where no write of the file fails, the list of a running app is what the
\* next load of FamilyNight.json will make it.
THEOREM MirrorAlways == Spec => []Mirror
<1>1. IInv => Mirror
  BY DEF IInv
<1> QED
  BY <1>1, IInvAlways, PTL

-----------------------------------------------------------------------------
(* What one operation changes in the file.                                 *)

\* Two lists have the same entries of an event when each entry of the event in
\* one is somewhere in the other.
LEMMA SameEntryIf ==
  ASSUME NEW f, NEW g, NEW id,
         \A i \in DOMAIN f : f[i].id = id => \E j \in DOMAIN g : g[j] = f[i],
         \A i \in DOMAIN g : g[i].id = id => \E j \in DOMAIN f : f[j] = g[i]
  PROVE  SameEntry(f, g, id)
BY DEF SameEntry, ContentOf

\* A save that is not torn and changes the file makes it the list.
LEMMA SaveIsWhole ==
  ASSUME NEW es, NEW hp, NEW hs, NEW calls, NEW out \in Outcome,
         saveToPersistenceStore(es, hp, hs, calls, out),
         Values(hp, es) \in Seq(Rec), file' # file, file' # Torn
  PROVE  Saved' = Values(hp, es)
<1>1. file' = Written(Values(hp, es), out)
  BY DEF saveToPersistenceStore
<1>2. file' = Values(hp, es)
  BY <1>1, WrittenCases
<1> QED
  BY <1>2, SavedOfRecs DEF Saved

\* The file that is replaced holds the list, in the list's order.
LEMMA SavedIsTheList ==
  ASSUME IInv, running, WritesComplete
  PROVE  /\ DOMAIN Saved = 1..Len(events)
         /\ \A i \in 1..Len(events) : Saved[i] = heap[events[i]]
<1>1. Saved = Values(heap, events)
  BY DEF IInv, Mirror
<1> QED
  BY <1>1, HeapFacts, ValuesElements

LEMMA CreateSavesOne ==
  ASSUME IInv, NEW c \in Content, NEW out \in Outcome, createEvent(c, out),
         WritesComplete, file' # file, file' # Torn
  PROVE  \E id \in Id : \A other \in Id \ {id} : SameEntry(Saved, Saved', other)
<1>1. PICK id \in Id \ usedIds, new \in NewObjects(1, DOMAIN heap) :
        LET rec == [id |-> id, data |-> c]
            o == new[1]
        IN /\ usedIds' = usedIds \cup {id}
           /\ saveToPersistenceStore(
                Append(events, o),
                [x \in DOMAIN heap \cup {o} |-> IF x = o THEN rec ELSE heap[x]],
                held \cup {o}, createEventInFirebase(rec), out)
  BY DEF createEvent
<1> DEFINE rec == [id |-> id, data |-> c]
           o == new[1]
           D == DOMAIN heap \cup {o}
           hp == [x \in D |-> IF x = o THEN rec ELSE heap[x]]
           es == Append(events, o)
           hs == held \cup {o}
           calls == createEventInFirebase(rec)
<1>2. o \in Obj /\ o \notin DOMAIN heap
  BY NewObjectsArePlaced
<1>3. rec \in Rec /\ rec.id = id
  BY DEF Rec
<1>4. hp \in [D -> Rec] /\ hp[o] = rec /\ \A x \in DOMAIN heap : hp[x] = heap[x]
  BY <1>2, <1>3, HeapFacts
<1>5. es \in Seq(Obj) /\ Range(es) \subseteq D
  BY <1>2, RangeOfAppend, HeapFacts
<1>6. saveToPersistenceStore(es, hp, hs, calls, out)
  BY <1>1
<1>7. /\ Len(es) = Len(events) + 1 /\ es[Len(events) + 1] = o /\ Len(events) \in Nat
      /\ \A i \in 1..Len(events) : es[i] = events[i]
  BY <1>2, AppendProperties, HeapFacts
<1> HIDE DEF rec, hp, calls, D, es, hs, o
<1>8. /\ Saved' = Values(hp, es) /\ DOMAIN Saved' = 1..Len(events) + 1
      /\ \A i \in 1..Len(events) + 1 : Saved'[i] = hp[es[i]]
  BY <1>4, <1>5, <1>6, <1>7, ValuesElements, SaveIsWhole
<1>9. /\ DOMAIN Saved = 1..Len(events)
      /\ \A i \in 1..Len(events) : Saved[i] = heap[events[i]]
  BY SavedIsTheList DEF createEvent
<1>10. /\ \A i \in 1..Len(events) : Saved'[i] = Saved[i]
       /\ Saved'[Len(events) + 1].id = id
  BY <1>3, <1>4, <1>7, <1>8, <1>9, HeapFacts
<1>11. ASSUME NEW other \in Id \ {id} PROVE SameEntry(Saved, Saved', other)
  <2>1. \A i \in DOMAIN Saved : \E j \in DOMAIN Saved' : Saved'[j] = Saved[i]
    BY <1>7, <1>8, <1>9, <1>10
  <2>2. \A i \in DOMAIN Saved' :
          Saved'[i].id = other => \E j \in DOMAIN Saved : Saved[j] = Saved'[i]
    BY <1>7, <1>8, <1>9, <1>10
  <2> QED
    BY <2>1, <2>2, SameEntryIf
<1> QED
  BY <1>11

LEMMA UpdateSavesOne ==
  ASSUME IInv, NEW o \in held, NEW c \in Content, NEW out \in Outcome,
         updateEvent(o, c, out), WritesComplete, file' # file, file' # Torn
  PROVE  \E id \in Id : \A other \in Id \ {id} : SameEntry(Saved, Saved', other)
<1> DEFINE rec == [heap[o] EXCEPT !.data = c]
           hp == [heap EXCEPT ![o] = rec]
           calls == updateEventInFirebase(rec)
<1>1. running /\ saveToPersistenceStore(events, hp, held, calls, out)
  BY DEF updateEvent
<1>2. o \in DOMAIN heap /\ heap[o] \in Rec /\ heap[o].id \in Id
  BY HeapFacts DEF Rec
<1>3. rec \in Rec /\ rec.id = heap[o].id
  BY <1>2 DEF Rec
<1> HIDE DEF rec, calls
<1>4. /\ hp \in [DOMAIN heap -> Rec] /\ hp[o] = rec
      /\ \A x \in DOMAIN heap \ {o} : hp[x] = heap[x]
  BY <1>2, <1>3, HeapFacts
<1> HIDE DEF hp
<1>5. /\ DOMAIN Saved' = 1..Len(events)
      /\ \A i \in 1..Len(events) : Saved'[i] = hp[events[i]]
  BY <1>1, <1>4, HeapFacts, ValuesElements, SaveIsWhole
<1>6. /\ DOMAIN Saved = 1..Len(events)
      /\ \A i \in 1..Len(events) : Saved[i] = heap[events[i]]
  BY <1>1, SavedIsTheList
<1>7. \A i \in 1..Len(events) :
        \/ Saved'[i] = Saved[i]
        \/ Saved'[i].id = heap[o].id /\ Saved[i].id = heap[o].id
  BY <1>3, <1>4, <1>5, <1>6, HeapFacts
<1>8. ASSUME NEW other \in Id \ {heap[o].id} PROVE SameEntry(Saved, Saved', other)
  BY <1>5, <1>6, <1>7, SameEntryIf
<1> QED
  BY <1>2, <1>8

LEMMA DeleteSavesOne ==
  ASSUME IInv, NEW o \in DOMAIN heap, NEW out \in Outcome, delete(o, out),
         WritesComplete, file' # file, file' # Torn
  PROVE  \E id \in Id : \A other \in Id \ {id} : SameEntry(Saved, Saved', other)
<1> DEFINE calls == <<DeleteDocument(heap[o].id)>>
           k == Min(IndicesOf(o))
           es == RemoveAt(events, k)
           At(m) == IF m < k THEN m ELSE m + 1
<1>1. running /\ heap[o].id \in Id
  BY HeapFacts DEF delete, Rec
<1>2. IndicesOf(o) # {} /\ saveToPersistenceStore(es, heap, held, calls, out)
  BY DEF delete
<1>3. IndicesOf(o) \subseteq 1..Len(events) /\ Len(events) \in Nat
  BY HeapFacts DEF IndicesOf
<1>4. k \in IndicesOf(o)
  BY <1>2, <1>3, MinIsLeast
<1>5. k \in 1..Len(events) /\ heap[events[k]].id = heap[o].id
  BY <1>3, <1>4 DEF IndicesOf
<1> HIDE DEF calls, k
<1>6. /\ es \in Seq(Obj) /\ Len(es) = Len(events) - 1
      /\ \A i \in 1..Len(events) - 1 : es[i] = events[At(i)]
  BY <1>5, HeapFacts, RemoveAtElements
<1> HIDE DEF es
<1>7. ASSUME NEW i \in 1..Len(events) - 1 PROVE At(i) \in 1..Len(events)
  BY <1>3, <1>5
<1>8. Range(es) \subseteq DOMAIN heap
  <2>1. \A i \in 1..Len(events) - 1 : es[i] \in DOMAIN heap
    BY <1>6, <1>7, HeapFacts
  <2> QED
    BY <1>6, <2>1 DEF Range
<1>9. /\ DOMAIN Saved' = 1..Len(events) - 1
      /\ \A i \in 1..Len(events) - 1 : Saved'[i] = heap[es[i]]
  BY <1>2, <1>6, <1>8, HeapFacts, ValuesElements, SaveIsWhole
<1>10. /\ DOMAIN Saved = 1..Len(events)
       /\ \A i \in 1..Len(events) : Saved[i] = heap[events[i]]
  BY <1>1, SavedIsTheList
<1>11. \A i \in 1..Len(events) - 1 : Saved'[i] = Saved[At(i)]
  BY <1>6, <1>7, <1>9, <1>10
<1>12. ASSUME NEW other \in Id \ {heap[o].id} PROVE SameEntry(Saved, Saved', other)
  <2>1. ASSUME NEW i \in 1..Len(events), Saved[i].id = other
        PROVE  \E j \in DOMAIN Saved' : Saved'[j] = Saved[i]
    <3>1. i # k
      BY <1>5, <1>10, <1>12, <2>1
    <3>2. CASE i < k
      <4>1. i \in 1..Len(events) - 1 /\ At(i) = i
        BY <1>3, <1>5, <3>2
      <4> QED
        BY <1>9, <1>11, <4>1
    <3>3. CASE i > k
      <4>1. i - 1 \in 1..Len(events) - 1 /\ At(i - 1) = i
        BY <1>3, <1>5, <3>3
      <4> QED
        BY <1>9, <1>11, <4>1
    <3> QED
      BY <1>3, <1>5, <3>1, <3>2, <3>3
  <2>2. \A i \in DOMAIN Saved' : \E j \in DOMAIN Saved : Saved[j] = Saved'[i]
    BY <1>7, <1>9, <1>10, <1>11
  <2> QED
    BY <1>10, <2>1, <2>2, SameEntryIf
<1> QED
  BY <1>1, <1>12

\* Every save writes the whole list, but what it changes in FamilyNight.json is
\* the entry of one event at most.
THEOREM SavesOne == Spec => SavesOneEvent
<1>1. IInv /\ [Next]_vars
        => [WritesComplete /\ Torn \notin {file, file'} /\ file' # file =>
              \E id \in Id : \A other \in Id \ {id} : SameEntry(Saved, Saved', other)]_vars
  <2> SUFFICES ASSUME IInv, Next, WritesComplete, file' # Torn, file' # file
               PROVE  \E id \in Id : \A other \in Id \ {id} :
                         SameEntry(Saved, Saved', other)
    OBVIOUS
  <2>1. \/ \E c \in Content, out \in Outcome : createEvent(c, out)
        \/ \E o \in held, c \in Content, out \in Outcome : updateEvent(o, c, out)
        \/ \E o \in DOMAIN heap, out \in Outcome : delete(o, out)
    BY DEF Next, Operation, reload, fetchEventWith, fetchReturns, fetchFails, Take,
           Release, Launch, Kill, Network, controllerVars
  <2>2. held \subseteq DOMAIN heap
    BY HeapFacts
  <2> QED
    BY <2>1, <2>2, CreateSavesOne, UpdateSavesOne, DeleteSavesOne
<1> QED
  BY <1>1, IInvAlways, PTL DEF Spec, SavesOneEvent
-----------------------------------------------------------------------------
(* The client in the hands of the controller.                              *)

LEMMA DeathEndsStream ==
  ASSUME NEW calls, ProcessDies(calls)
  PROVE  StreamStep
BY DEF ProcessDies, ClientDies, StreamStep

\* Whatever the controller's step is, the stream sees what it sees of a client
\* on its own.
LEMMA StepIsStreamStep ==
  ASSUME [Next]_vars
  PROVE  StreamStep
<1>1. ASSUME NEW es, NEW hp, NEW hs, NEW calls, NEW out,
             saveToPersistenceStore(es, hp, hs, calls, out)
      PROVE  StreamStep
  <2>1. CASE ProcessDies(calls)
    BY <2>1, DeathEndsStream
  <2>2. CASE Enqueue(calls)
    BY <2>2 DEF Enqueue, StreamStep
  <2> QED
    BY <1>1, <2>1, <2>2 DEF saveToPersistenceStore
<1>2. CASE \E c \in Content, out \in Outcome : createEvent(c, out)
  BY <1>1, <1>2 DEF createEvent
<1>3. CASE \E o \in held, c \in Content, out \in Outcome : updateEvent(o, c, out)
  BY <1>1, <1>3 DEF updateEvent
<1>4. CASE \E o \in DOMAIN heap, out \in Outcome : delete(o, out)
  BY <1>1, <1>4 DEF delete, Enqueue, StreamStep
<1>5. CASE \/ reload \/ Launch \/ UNCHANGED vars
           \/ \E id \in Id : fetchEventWith(id) \/ fetchReturns(id) \/ fetchFails(id)
           \/ \E o \in Obj : Take(o) \/ Release(o)
  BY <1>5 DEF reload, Launch, fetchEventWith, fetchReturns, fetchFails, Take, Release,
              vars, firestoreVars, StreamStep
<1>6. CASE Kill
  BY <1>6, DeathEndsStream DEF Kill
<1>7. CASE Network
  BY <1>7 DEF Network, RejectBatch, StreamStep
<1> QED
  BY <1>2, <1>3, <1>4, <1>5, <1>6, <1>7 DEF Next, Operation

\* What the client promises it keeps under the controller's calls and its deaths
\* in the middle of an operation too: what is answered was applied, and nothing
\* but the app's own calls changes what the client shows of a document.
THEOREM ControllerClient == Spec => []SentIsApplied /\ ViewIsStable
<1>1. Init => SentIsApplied
  BY DEF Init, FirestoreInit, SentIsApplied
<1>2. TypeOK /\ SentIsApplied /\ [Next]_vars => SentIsApplied'
  BY StepIsStreamStep, SentIsAppliedInductive DEF TypeOK
<1>3. TypeOK /\ SentIsApplied
        => [Background => \A id \in Id : View(id)' = View(id)]_firestoreVars
  BY ViewStableStep DEF TypeOK
<1> QED
  BY <1>1, <1>2, <1>3, TypeCorrect, PTL DEF Spec, ViewIsStable
=============================================================================
