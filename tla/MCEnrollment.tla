---------------------------- MODULE MCEnrollment ----------------------------
(* Two pairings that race and a third run, which is a retry or an import.   *)
EXTENDS Enrollment, TLC

CONSTANTS p1, p2, p3

ThreePrograms == {p1, p2, p3}
OneImport == {p3}
Two == {p1, p2}
None == {}
==============================================================================
