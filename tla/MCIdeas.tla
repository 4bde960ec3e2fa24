------------------------------ MODULE MCIdeas ------------------------------
(* Four entries instead of 42, the last one a repetition as in the source. *)
EXTENDS Ideas

CONSTANTS walk, zoo, kite

MCIdeaList == <<walk, zoo, kite, zoo>>
=============================================================================
