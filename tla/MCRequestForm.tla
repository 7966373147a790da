--------------------------- MODULE MCRequestForm ---------------------------
(* Instances of RequestForm for TLC.  Polls are interchangeable, and so are  *)
(* intervals.                                                                *)
EXTENDS RequestForm, TLC

Symmetry == Permutations(Polls) \cup Permutations(Intervals)
=============================================================================
