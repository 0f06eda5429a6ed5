---------------------------- MODULE MCSubscription ----------------------------
(* A small instance of Subscription for TLC.                                 *)
EXTENDS Subscription
CONSTANTS s1
OneSub == {s1}
TwoOrThreeDays == {2, 3}

X(amount, blocks, shift) == [amount |-> amount, blocks |-> blocks, shift |-> shift]

(* A full day; money only; time only; less of either; a moved start.         *)
AnyExtension ==
    {X(1, 2, 0), X(1, 0, 0), X(0, 2, 0), X(-1, 0, 0), X(0, -2, 0), X(0, 0, -2), X(1, 2, 2)}
=============================================================================
