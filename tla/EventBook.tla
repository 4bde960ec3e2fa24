----------------------------- MODULE EventBook -----------------------------
(***************************************************************************)
(* What the app is to its user, whatever lists, objects and files it is    *)
(* made of: a book of events, and a receipt for each event that is saved.  *)
(* FamilyNight implements it (see BookOfApp there).                        *)
(***************************************************************************)
CONSTANTS Id, Content, None

VARIABLES used,    \* ids given out so far
          book,    \* the events kept: a function from ids to contents
          receipt  \* what the user has just been told is saved

bookVars == <<used, book, receipt>>

BookInit ==
    /\ used \subseteq Id
    /\ book = [id \in {} |-> None]
    /\ receipt = None

Entered(id, c) == [i \in DOMAIN book \cup {id} |-> IF i = id THEN c ELSE book[i]]

\* The user is told, or not: the app may die first.
Told(id, c) == receipt' \in {None, [id |-> id, data |-> c]}

\* A new event has an id that no event had before.
Add(id, c) ==
    /\ id \notin used
    /\ used' = used \cup {id}
    /\ book' = Entered(id, c) /\ Told(id, c)

\* An event that the app died over before it was kept.
Lose(id) ==
    /\ id \notin used
    /\ used' = used \cup {id}
    /\ receipt' = None
    /\ UNCHANGED book

Amend(id, c) ==
    /\ id \in DOMAIN book
    /\ book' = Entered(id, c) /\ Told(id, c)
    /\ UNCHANGED used

Remove(id) ==
    /\ id \in DOMAIN book
    /\ book' = [i \in DOMAIN book \ {id} |-> book[i]]
    /\ receipt' = None
    /\ UNCHANGED used

PutAway ==
    /\ receipt' = None
    /\ UNCHANGED <<used, book>>

BookNext ==
    \/ \E id \in Id, c \in Content : Add(id, c) \/ Amend(id, c)
    \/ \E id \in Id : Lose(id) \/ Remove(id)
    \/ PutAway

BookSpec == BookInit /\ [][BookNext]_bookVars
=============================================================================
