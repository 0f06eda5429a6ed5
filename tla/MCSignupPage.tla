----------------------------- MODULE MCSignupPage -----------------------------
(* An instance of SignupPage: two wallets; four plans, one of them free and  *)
(* one in a legacy box; and other boxes at the server's address.  A day is 3 *)
(* blocks.                                                                   *)
EXTENDS SignupPage

CONSTANTS w1, w2

Free    == [id |-> 3, price |-> 0, interval |-> 3]
Daily   == [id |-> 1, price |-> 200, interval |-> 3]
Double  == [id |-> 2, price |-> 9000, interval |-> 6]
Legacy  == [id |-> 70, price |-> 1, interval |-> 3]
Written(p) == PlanBox(<<3, 97, 98, 99>>, p)
LegacyBox == Restrict(Written(Legacy), {"R4", "R5", "R6"})
OtherBox == [Written(Daily) EXCEPT !.R6 = [type |-> "Coll", bytes |-> <<1, 2>>]]
CoinBox == Restrict(Written(Daily), {"R4"})

AllPlans == {Free, Daily, Double, Legacy}
Answers == {<<>>, <<CoinBox, Written(Free)>>, <<OtherBox, Written(Double), LegacyBox>>,
            <<Written(Daily), CoinBox, Written(Double)>>}

ASSUME OnlyOperatorsPlans
=============================================================================
