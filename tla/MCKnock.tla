------------------------------- MODULE MCKnock -------------------------------
(* Small instances of Knock for TLC.                                         *)
EXTENDS Knock
CONSTANTS k1, alice, bob
OneKnock == {k1}
TwoLogins == {alice, bob}
AnyoneOrAlice == {Anywhere, alice}
SshAndWeb == <<22, 443>>
=============================================================================
