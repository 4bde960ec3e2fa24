--------------------------- MODULE MCFamilyNight ---------------------------
(* The app with two events of its own, one of another install, and forms   *)
(* that are empty or hold one of two contents.                             *)
EXTENDS FamilyNight

CONSTANTS a, b, f, x, y, blank

MCOwn == {a, b}
MCForeign == {f}
MCId == MCOwn \cup MCForeign
MCContent == {x, y, blank}
MCOneContent == {x, blank}
MCUntitled == {blank}
MCObj == 1..4

OwnSymmetry == Permutations(MCOwn)
Symmetry == Permutations(MCOwn) \cup Permutations({x, y})
=============================================================================
