------------------------------ MODULE Submission ------------------------------
(***************************************************************************)
(* Submission of transactions (ErgoProvider.submitTx in ergo/provider.ts).  *)
(* Every task of the engine and of the bw commands builds one transaction,  *)
(* has it signed, and offers it to a ladder of endpoints until one of them  *)
(* answers 200 (reported as sent) or 400 (reported as failed); an error, or *)
(* no answer within 60 seconds, moves on to the next endpoint.              *)
(*                                                                          *)
(* A transaction is named by its task.  The mempool is one set: what any    *)
(* endpoint that validates accepts is known to all of them.                 *)
(***************************************************************************)
EXTENDS Naturals, Sequences

CONSTANTS
    Tasks,
    HasSubmitUrl,     \* blockhost.submit_url is configured
    NoTx

ASSUME SubmissionConstants == HasSubmitUrl \in BOOLEAN

VARIABLES
    stage,            \* how far each task is, and how it ended
    tx,               \* its transaction, once built
    at,               \* the endpoint it is being offered to, while submitting
    doubt,            \* some endpoint was asked and gave no answer
    pool, confirmed   \* the tasks whose transaction is in the mempool, in a block

submission == <<stage, tx, at, doubt, pool, confirmed>>
chain == <<pool, confirmed>>

(* "relayed" is a success reported on the relay's word alone.                *)
Stages == {"idle", "signing", "submitting", "sent", "relayed", "failed"}
Reported == {"sent", "relayed", "failed"}
Ledger == pool \cup confirmed

(* Seeded bug: the relay is asked before the explorer.                       *)
Endpoints_RelayFirst ==
    (IF HasSubmitUrl THEN <<"submitUrl">> ELSE <<>>)
        \o <<"relay", "explorer", "node9053", "node9052">>

Endpoints ==
    (IF HasSubmitUrl THEN <<"submitUrl">> ELSE <<>>)
        \o <<"explorer", "relay", "node9053", "node9052">>

Asked(t) == Endpoints[at[t]]
Validates(endpoint) == endpoint # "relay"

(* A node's verdict: no input is spent already, on chain or in the mempool,  *)
(* and the outputs are large enough.                                         *)
Conflicts(t, others) == \E u \in others \ {t} : tx[u].inputs \cap tx[t].inputs # {}
Acceptable(t) == t \notin confirmed /\ ~Conflicts(t, Ledger) /\ tx[t].sound

Init ==
    /\ stage = [t \in Tasks |-> "idle"]
    /\ tx = [t \in Tasks |-> NoTx]
    /\ at = [t \in Tasks |-> 1]
    /\ doubt = [t \in Tasks |-> FALSE]
    /\ pool = {} /\ confirmed = {}

Offered(t) == stage[t] = "submitting" /\ at[t] \in DOMAIN Endpoints

Report(t, outcome) ==
    /\ stage' = [stage EXCEPT ![t] = outcome]
    /\ at' = [at EXCEPT ![t] = 1]

(* 200 from an endpoint that validates.  One that knows the transaction      *)
(* already may say 200 or 400.                                               *)
Accepted(t) ==
    /\ Offered(t) /\ Validates(Asked(t)) /\ Acceptable(t)
    /\ pool' = pool \cup {t}
    /\ Report(t, "sent")
    /\ UNCHANGED <<tx, doubt, confirmed>>

(* Seeded bug: a 400 moves on to the next endpoint like any other error.     *)
Rejected_TryNext(t) ==
    /\ Offered(t) /\ Validates(Asked(t)) /\ (~Acceptable(t) \/ t \in Ledger)
    /\ at' = [at EXCEPT ![t] = @ + 1]
    /\ UNCHANGED <<stage, tx, doubt, chain>>

(* 400: thrown at once, no other endpoint is asked.                          *)
Rejected(t) ==
    /\ Offered(t) /\ Validates(Asked(t)) /\ (~Acceptable(t) \/ t \in Ledger)
    /\ Report(t, "failed")
    /\ UNCHANGED <<tx, doubt, chain>>

(* The relay answers 200 once a peer has the transaction, which the peer     *)
(* drops in silence when it is not valid.                                    *)
Relayed(t) ==
    /\ Offered(t) /\ Asked(t) = "relay"
    /\ pool' = IF Acceptable(t) THEN pool \cup {t} ELSE pool
    /\ Report(t, "relayed")
    /\ UNCHANGED <<tx, doubt, confirmed>>

(* Seeded bug: the endpoint that did not answer is asked again.              *)
NoAnswer_AskAgain(t) ==
    /\ Offered(t)
    /\ pool' = pool \/ (Acceptable(t) /\ pool' = pool \cup {t})
    /\ doubt' = [doubt EXCEPT ![t] = TRUE]
    /\ UNCHANGED <<stage, tx, at, confirmed>>

(* Another status, an unreachable endpoint, or the abort after 60 seconds:   *)
(* the transaction may have been taken all the same.                         *)
NoAnswer(t) ==
    /\ Offered(t)
    /\ pool' = pool \/ (Acceptable(t) /\ pool' = pool \cup {t})
    /\ at' = [at EXCEPT ![t] = @ + 1]
    /\ doubt' = [doubt EXCEPT ![t] = TRUE]
    /\ UNCHANGED <<stage, tx, confirmed>>

(* "all endpoints unreachable"                                               *)
Unreachable(t) ==
    /\ stage[t] = "submitting" /\ at[t] \notin DOMAIN Endpoints
    /\ Report(t, "failed")
    /\ UNCHANGED <<tx, doubt, chain>>

(* A block takes a transaction from the mempool.                             *)
Mine(t) ==
    /\ t \in pool
    /\ pool' = pool \ {t}
    /\ confirmed' = confirmed \cup {t}
    /\ UNCHANGED <<stage, tx, at, doubt>>

Submit(t) == Accepted(t) \/ Rejected(t) \/ Relayed(t) \/ NoAnswer(t) \/ Unreachable(t)

-----------------------------------------------------------------------------
(* Properties.                                                               *)

(* What submitTx reports is true: a transaction an endpoint accepted is in   *)
(* the mempool or in a block, and unless some endpoint left it in doubt, one *)
(* reported as failed never gets there and one the relay took does.          *)
TruthfulReports ==
    \A t \in Tasks :
        /\ stage[t] = "sent" => t \in Ledger
        /\ ~doubt[t] => /\ stage[t] = "failed" => t \notin Ledger
                        /\ stage[t] = "relayed" => t \in Ledger
=============================================================================
