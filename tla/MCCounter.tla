------------------------------ MODULE MCCounter ------------------------------
(* A small instance of Counter for TLC.                                      *)
EXTENDS Counter
CONSTANTS p1, p2, p3
ThreeProcs == {p1, p2, p3}
=============================================================================
