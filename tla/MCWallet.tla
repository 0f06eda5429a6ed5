------------------------------- MODULE MCWallet -------------------------------
(* Instances of Wallet for TLC: the engine mints two credentials, one after  *)
(* the other, while the operator runs a command on the same wallet.          *)
EXTENDS Wallet

CONSTANTS m1, m2, op

Coin(to, erg, tok) == [to |-> to, erg |-> erg, tok |-> tok, what |-> "coin"]
ThreeBoxes == (<<"genesis", 1>> :> Coin("server", 9, 0))
           @@ (<<"genesis", 2>> :> Coin("server", 12, 0))
           @@ (<<"genesis", 3>> :> Coin("hot", 7, 3))

Amount(whole, digits) == [whole |-> whole, digits |-> digits]
Nothing == Amount(0, <<>>)
Ask(cmd, from, to, amount, token, ratios) ==
    [cmd |-> cmd, from |-> from, to |-> to, amount |-> amount,
     token |-> token, ratios |-> ratios]
MintFor(owner) == {Ask("mint", "server", <<owner>>, Nothing, FALSE, <<>>)}
OperatorAsks ==
    {Ask("split", "server", <<"dev", "broker">>, Amount(0, <<7, 5>>), FALSE, <<60, 40>>),
     Ask("split", "hot", <<"dev", "admin">>, Amount(3, <<5>>), TRUE, <<50, 50>>),
     Ask("send", "hot", <<"admin">>, Amount(2, <<>>), TRUE, <<>>),
     Ask("send", "server", <<"admin">>, Amount(1, <<>>), FALSE, <<>>),
     Ask("sweep", "server", <<"admin">>, Nothing, FALSE, <<>>),
     Ask("sweep", "hot", <<"admin">>, Nothing, FALSE, <<>>),
     Ask("plan", "server", <<"server">>, Nothing, FALSE, <<>>),
     Ask("set", "server", <<"server">>, Nothing, FALSE, <<>>)}

EngineAndOperator ==
    (m1 :> MintFor("owner1")) @@ (m2 :> MintFor("owner2")) @@ (op :> OperatorAsks)
OneAfterTheOther == (m1 :> m1) @@ (m2 :> m1) @@ (op :> op)
=============================================================================
