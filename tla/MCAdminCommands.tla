--------------------------- MODULE MCAdminCommands ---------------------------
(* One command stamped with the time, one that lives by block height.        *)
EXTENDS AdminCommands
CONSTANTS c1, c2
TwoCommands == {c1, c2}
TimeCommand == {c1}
HeightCommand == {c2}
=============================================================================
