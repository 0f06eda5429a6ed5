------------------------------ MODULE MCMonitor ------------------------------
(* Small instances of Monitor for TLC: every beacon has an owner of its own, *)
(* named after it, and beacons are otherwise alike.                          *)
EXTENDS Monitor, TLC
CONSTANTS b1, b2
TwoBeacons == {b1, b2}
DistinctOwners == [b \in Beacons |-> b]
BeaconsAlike == Permutations(Beacons)
=============================================================================
