------------------------------- MODULE Ideas -------------------------------
(***************************************************************************)
(* The ideas of the planner: a global list that every draw makes shorter,  *)
(* and the alert that offers what was drawn, to use or to draw again.  The *)
(* list is full again only when the process is new.                        *)
(*                                                                         *)
(* runRandomAlert strips brackets, quotes and the word "title" from the    *)
(* title; no title of the list has any of them.                            *)
(***************************************************************************)
EXTENDS Naturals, Sequences, SequencesExt, FiniteSetsExt

CONSTANTS IdeaList, \* the titles the list starts with; one is there twice
          NoIdea    \* no alert; an empty description

ASSUME IdeaAssumption ==
    IdeaList \in Seq(Range(IdeaList)) /\ NoIdea \notin Range(IdeaList)

VARIABLES ideas,       \* what is left of the list
          offered,     \* titles offered since the process started, in order
          shown,       \* the title in the alert
          description, \* what the user has taken over
          trapped      \* remove(at:) was out of range

ideaVars == <<ideas, offered, shown, description, trapped>>

IdeaInit ==
    /\ ideas = IdeaList /\ offered = <<>>
    /\ shown = NoIdea /\ description = NoIdea
    /\ trapped = FALSE

\* Mutant: the bound of the index is the last one that may be drawn.
RandomIndexToCount == 0 .. Len(ideas)

\* arc4random_uniform(0) is 0.
RandomIndex == IF ideas = <<>> THEN {0} ELSE 0 .. Len(ideas) - 1

\* Mutant: the idea drawn stays in the list.
drawAndPutBack ==
    /\ UNCHANGED <<description, ideas>>
    /\ \E i \in RandomIndex :
         IF i < Len(ideas)
         THEN /\ shown' = ideas[i + 1]
              /\ offered' = Append(offered, ideas[i + 1])
              /\ UNCHANGED trapped
         ELSE trapped' = TRUE /\ UNCHANGED <<offered, shown>>

randomIdea ==
    /\ UNCHANGED description
    /\ \E i \in RandomIndex :
         IF i < Len(ideas)
         THEN /\ shown' = ideas[i + 1]
              /\ offered' = Append(offered, ideas[i + 1])
              /\ ideas' = RemoveAt(ideas, i + 1)
              /\ UNCHANGED trapped
         ELSE trapped' = TRUE /\ UNCHANGED <<ideas, offered, shown>>

IdeaButtonTapped == ~trapped /\ shown = NoIdea /\ randomIdea
NextTapped == ~trapped /\ shown # NoIdea /\ randomIdea

UseTapped ==
    /\ ~trapped /\ shown # NoIdea
    /\ description' = shown
    /\ shown' = NoIdea
    /\ UNCHANGED <<ideas, offered, trapped>>

\* The planner is left; the next one starts with an empty form, the list of
\* ideas stays as short as it is.
LeavePlanner ==
    /\ ~trapped /\ shown = NoIdea /\ description # NoIdea
    /\ description' = NoIdea
    /\ UNCHANGED <<ideas, offered, shown, trapped>>

\* The process ends, of a trap or otherwise, and is started again.
Restart ==
    /\ offered # <<>> \/ trapped
    /\ ideas' = IdeaList /\ offered' = <<>>
    /\ shown' = NoIdea /\ description' = NoIdea
    /\ trapped' = FALSE

IdeaNext ==
    \/ IdeaButtonTapped
    \/ NextTapped
    \/ UseTapped
    \/ LeavePlanner
    \/ Restart
IdeaSpec == IdeaInit /\ [][IdeaNext]_ideaVars

-----------------------------------------------------------------------------
Times(s, t) == Cardinality({i \in DOMAIN s : s[i] = t})

\* Whatever is drawn, used or refused: every entry of the list is either still
\* in it or was offered, once, so that Next never brings a refused idea back
\* more often than the list has it.
EachEntryOnce ==
    \A t \in Range(IdeaList) : Times(ideas, t) + Times(offered, t) = Times(IdeaList, t)

\* No draw is out of range before the list is out of ideas: when one traps,
\* every entry has been offered since the process started, as often as it was
\* in the list.
TrapsOnlyWhenOut ==
    trapped => \A t \in Range(IdeaList) : Times(offered, t) = Times(IdeaList, t)

\* "Tap Here for an Idea!", says the button: every tap is answered by an idea.
IdeaOnEveryTap == ~trapped
=============================================================================
