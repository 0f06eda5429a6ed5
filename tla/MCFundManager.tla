--------------------------- MODULE MCFundManager ---------------------------
(* An instance of FundManager: unequal shares, one of them unclaimable.      *)
EXTENDS FundManager

MCRecipients ==
    <<[role |-> "dev", bps |-> 2], [role |-> "gone", bps |-> 1], [role |-> "broker", bps |-> 1]>>
=============================================================================
