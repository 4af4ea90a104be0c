--------------------------- MODULE MCH2Transport ---------------------------
(* Two concurrent unary calls, or one collection next to one unary call.    *)
EXTENDS H2Transport, TLC

CONSTANTS s1, s2

TwoStreams == {s1, s2}
OneStream == {s1}
None == {}
Symmetry == Permutations(TwoStreams)
=============================================================================
