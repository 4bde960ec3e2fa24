------------------------- MODULE MCEventController -------------------------
(* EventController on two events of its own and one of another install.   *)
EXTENDS EventController

CONSTANTS a, b, f, x, y

MCId == {a, b, f}
MCForeign == {f}
MCContent == {x, y}
MCObj == 1..3

Symmetry == Permutations({a, b}) \cup Permutations({x, y})
=============================================================================
