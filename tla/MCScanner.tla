------------------------------ MODULE MCScanner ------------------------------
(* Small instances of Scanner for TLC.                                       *)
EXTENDS Scanner
CONSTANTS b1, b2
TwoBeacons == {b1, b2}
OneBeacon == {b1}
=============================================================================
