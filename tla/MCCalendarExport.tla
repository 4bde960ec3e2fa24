-------------------------- MODULE MCCalendarExport --------------------------
(* The app with events of its own only, and a block that reads two fields:  *)
(* the first and the last.                                                 *)
EXTENDS CalendarExport

CONSTANTS a, b, x, y, blank

MCOwn == {a, b}
MCContent == {x, y, blank}
MCUntitled == {blank}
MCObj == 1..4
=============================================================================
