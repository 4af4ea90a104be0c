------------------------- MODULE MCCoverageSnapshot -------------------------
(* Coverage sessions and the missions (maps) they are of.                   *)
EXTENDS CoverageSnapshot

\* A home with two floors: the robot cleans one, the other, and the first again.
FirstFloorAgain == <<"first floor", "second floor", "first floor">>
==============================================================================
