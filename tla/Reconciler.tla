------------------------------ MODULE Reconciler ------------------------------
(***************************************************************************)
(* The reconciler (src/src/reconcile/index.ts): passes over the VM database *)
(* that bring each VM's GECOS field, by which it authenticates its owner,   *)
(* in line with the holder of its NFT, and push network configuration that  *)
(* a VM has not confirmed.  The tail of the provisioning handler, which     *)
(* leaves it this work, is modelled with it (src/src/handlers/index.ts).    *)
(*                                                                          *)
(* Handler and passes never overlap (the poll loop awaits both); between    *)
(* their steps the NFT may change hands and the process may crash.  A VM    *)
(* row keeps the fields the two read and write.                             *)
(***************************************************************************)
EXTENDS Integers

CONSTANTS
    Vms, Wallets, NoWallet,
    Subscriber,        \* the wallet each VM is provisioned for
    MaxTransfers, MaxDbFaults, MaxCallFaults, MaxCrashes    \* bounds

ASSUME ReconcilerConstants ==
    /\ NoWallet \notin Wallets
    /\ Subscriber \in Wallets
    /\ {MaxTransfers, MaxDbFaults, MaxCallFaults, MaxCrashes} \subseteq Nat

VARIABLES
    holder,     \* per VM, who holds its NFT on chain (NoWallet: not minted)
    gecos,      \* the wallet in the VM's GECOS field
    network,    \* the network configuration is in the VM
    row,        \* the VM's database row
    setup,      \* where its provisioning handler is
    pc, vm,     \* where the pass is, and in which VM
    snapshot,   \* the rows listed at its start, of the VMs still to do
    target,     \* the wallet update-gecos is about to write
    transfers, dbFaults, callFaults, crashes

vars == <<holder, gecos, network, row, setup, pc, vm, snapshot, target,
          transfers, dbFaults, callFaults, crashes>>
world == <<holder, gecos, network>>
pass == <<pc, vm, snapshot, target>>
counters == <<transfers, dbFaults, callFaults, crashes>>

NoVm == "none"

(* gecos_synced defaults to true when the row lacks it, network_config_synced*)
(* to false.                                                                 *)
NewRow == [owner |-> Subscriber, token |-> FALSE, gecosSynced |-> TRUE,
           netSynced |-> FALSE]

Init ==
    /\ holder = [v \in Vms |-> NoWallet]
    /\ gecos = [v \in Vms |-> NoWallet]
    /\ network = [v \in Vms |-> FALSE]
    /\ row = [v \in Vms |-> NewRow]
    /\ setup = [v \in Vms |-> "created"]
    /\ pc = "idle" /\ vm = NoVm /\ target = NoWallet
    /\ snapshot = [v \in {} |-> NewRow]
    /\ transfers = 0 /\ dbFaults = 0 /\ callFaults = 0 /\ crashes = 0

Idle == pc = "idle" /\ \A v \in Vms : setup[v] \in {"created", "done"}

CallFails ==
    /\ callFaults < MaxCallFaults
    /\ callFaults' = callFaults + 1
    /\ UNCHANGED <<transfers, dbFaults, crashes>>

(* Database scripts run as subprocesses; a failure is logged and ignored.    *)
Written(v, newRow) ==
    \/ row' = [row EXCEPT ![v] = newRow] /\ UNCHANGED counters
    \/ /\ dbFaults < MaxDbFaults
       /\ dbFaults' = dbFaults + 1
       /\ UNCHANGED <<row, transfers, callFaults, crashes>>

-----------------------------------------------------------------------------
(* The end of handleSubscriptionCreated, once the VM exists.                 *)

Mint(v) ==
    /\ Idle /\ setup[v] = "created"
    /\ \/ /\ holder' = [holder EXCEPT ![v] = Subscriber]
          /\ setup' = [setup EXCEPT ![v] = "push"]
          /\ UNCHANGED counters
       \/ CallFails /\ setup' = [setup EXCEPT ![v] = "done"] /\ UNCHANGED holder
    /\ UNCHANGED <<gecos, network, row, pass>>

PushConfig(v) ==
    /\ setup[v] = "push"
    /\ setup' = [setup EXCEPT ![v] = "record"]
    /\ \/ network' = [network EXCEPT ![v] = TRUE] /\ UNCHANGED counters
       \/ CallFails /\ UNCHANGED network
    /\ UNCHANGED <<holder, gecos, row, pass>>

(* The row takes the result of the push, true or false.                      *)
RecordPush(v) ==
    /\ setup[v] = "record"
    /\ setup' = [setup EXCEPT ![v] = "gecos"]
    /\ Written(v, [row[v] EXCEPT !.netSynced = network[v]])
    /\ UNCHANGED <<world, pass>>

(* Four attempts; gecosUpdated is not used.                                  *)
WriteGecos(v) ==
    /\ setup[v] = "gecos"
    /\ setup' = [setup EXCEPT ![v] = "mark"]
    /\ \/ gecos' = [gecos EXCEPT ![v] = Subscriber] /\ UNCHANGED counters
       \/ CallFails /\ UNCHANGED gecos
    /\ UNCHANGED <<holder, network, row, pass>>

MarkMinted(v) ==
    /\ setup[v] = "mark"
    /\ setup' = [setup EXCEPT ![v] = "done"]
    /\ Written(v, [row[v] EXCEPT !.token = TRUE])
    /\ UNCHANGED <<world, pass>>

-----------------------------------------------------------------------------
(* A reconciliation pass.                                                    *)

(* listVmsWithNfts; on an error the list is empty.                           *)
BeginPass ==
    /\ Idle
    /\ pc' = "pick"
    /\ \/ /\ snapshot' = [v \in {u \in Vms : setup[u] = "done"} |-> row[v]]
          /\ UNCHANGED counters
       \/ /\ dbFaults < MaxDbFaults
          /\ dbFaults' = dbFaults + 1
          /\ UNCHANGED <<snapshot, transfers, callFaults, crashes>>
    /\ UNCHANGED <<world, row, setup, vm, target>>

Without(v) == [u \in DOMAIN snapshot \ {v} |-> snapshot[u]]

Pick ==
    /\ pc = "pick"
    /\ \E v \in DOMAIN snapshot :
          /\ vm' = v
          /\ pc' = IF snapshot[v].netSynced THEN "lookup" ELSE "push"
    /\ UNCHANGED <<world, row, setup, snapshot, target, counters>>

EndPass ==
    /\ pc = "pick" /\ DOMAIN snapshot = {}
    /\ pc' = "idle"
    /\ UNCHANGED <<world, row, setup, vm, snapshot, target, counters>>

NextVm == pc' = "pick" /\ vm' = NoVm /\ target' = NoWallet /\ snapshot' = Without(vm)

(* Seeded bug: the row is marked whether or not the push succeeded.          *)
Push_MarkAnyway ==
    /\ pc = "push"
    /\ pc' = "markPush"
    /\ \/ network' = [network EXCEPT ![vm] = TRUE] /\ UNCHANGED counters
       \/ CallFails /\ UNCHANGED network
    /\ UNCHANGED <<holder, gecos, row, setup, vm, snapshot, target>>

Push ==
    /\ pc = "push"
    /\ \/ /\ network' = [network EXCEPT ![vm] = TRUE]
          /\ pc' = "markPush"
          /\ UNCHANGED counters
       \/ CallFails /\ pc' = "lookup" /\ UNCHANGED network
    /\ UNCHANGED <<holder, gecos, row, setup, vm, snapshot, target>>

MarkPush ==
    /\ pc = "markPush"
    /\ pc' = "lookup"
    /\ Written(vm, [row[vm] EXCEPT !.netSynced = TRUE])
    /\ UNCHANGED <<world, setup, vm, snapshot, target>>

(* Seeded bug: a GECOS write that failed is not tried again.                 *)
Lookup_NoRetry ==
    LET seen == snapshot[vm]
    IN  /\ pc = "lookup"
        /\ \/ (~seen.token \/ holder[vm] \in {NoWallet, seen.owner}) /\ NextVm
              /\ UNCHANGED counters
           \/ seen.token /\ CallFails /\ NextVm
           \/ /\ seen.token /\ holder[vm] \notin {NoWallet, seen.owner}
              /\ pc' = "owner" /\ target' = holder[vm]
              /\ UNCHANGED <<vm, snapshot, counters>>
        /\ UNCHANGED <<world, row, setup>>

(* findNftHolder answers null when the explorer fails.                       *)
Lookup ==
    LET seen == snapshot[vm]
    IN  /\ pc = "lookup"
        /\ \/ (~seen.token \/ holder[vm] = NoWallet) /\ NextVm /\ UNCHANGED counters
           \/ seen.token /\ CallFails /\ NextVm
           \/ /\ seen.token /\ holder[vm] \notin {NoWallet, seen.owner}
              /\ pc' = "owner" /\ target' = holder[vm]
              /\ UNCHANGED <<vm, snapshot, counters>>
           \/ /\ seen.token /\ holder[vm] = seen.owner /\ ~seen.gecosSynced
              /\ pc' = "gecos" /\ target' = seen.owner
              /\ UNCHANGED <<vm, snapshot, counters>>
           \/ seen.token /\ holder[vm] = seen.owner /\ seen.gecosSynced /\ NextVm
              /\ UNCHANGED counters
        /\ UNCHANGED <<world, row, setup>>

(* Seeded bug: a new owner leaves gecos_synced as it was.                    *)
NewOwner_KeepFlag(old, wallet) == [old EXCEPT !.owner = wallet]

NewOwner(old, wallet) == [old EXCEPT !.owner = wallet, !.gecosSynced = FALSE]

UpdateOwner ==
    /\ pc = "owner"
    /\ pc' = "gecos"
    /\ Written(vm, NewOwner(row[vm], target))
    /\ UNCHANGED <<world, setup, vm, snapshot, target>>

UpdateGecos ==
    /\ pc = "gecos"
    /\ \/ /\ gecos' = [gecos EXCEPT ![vm] = target]
          /\ pc' = "mark"
          /\ UNCHANGED <<vm, snapshot, target, counters>>
       \/ CallFails /\ NextVm /\ UNCHANGED gecos
    /\ UNCHANGED <<holder, network, row, setup>>

MarkSynced ==
    /\ pc = "mark"
    /\ Written(vm, [row[vm] EXCEPT !.gecosSynced = TRUE])
    /\ NextVm
    /\ UNCHANGED <<world, setup>>

-----------------------------------------------------------------------------
(* The environment.                                                          *)

Transfer ==
    /\ transfers < MaxTransfers
    /\ transfers' = transfers + 1
    /\ \E v \in Vms, w \in Wallets :
          /\ holder[v] \notin {NoWallet, w}
          /\ holder' = [holder EXCEPT ![v] = w]
    /\ UNCHANGED <<gecos, network, row, setup, pass, dbFaults, callFaults, crashes>>

(* The process dies; a handler under way is not resumed.                     *)
Crash ==
    /\ crashes < MaxCrashes
    /\ crashes' = crashes + 1
    /\ setup' = [v \in Vms |-> IF setup[v] = "created" THEN "created" ELSE "done"]
    /\ pc' = "idle" /\ vm' = NoVm /\ target' = NoWallet
    /\ snapshot' = [v \in {} |-> NewRow]
    /\ UNCHANGED <<world, row, transfers, dbFaults, callFaults>>

Handler == \E v \in Vms : \/ Mint(v) \/ PushConfig(v) \/ RecordPush(v)
                          \/ WriteGecos(v) \/ MarkMinted(v)
Pass == \/ BeginPass \/ Pick \/ EndPass \/ Push \/ MarkPush \/ Lookup
        \/ UpdateOwner \/ UpdateGecos \/ MarkSynced

Next == Handler \/ Pass \/ Transfer \/ Crash

Spec == Init /\ [][Next]_vars
(* The poll loop runs every handler to its end and starts pass after pass.   *)
FairSpec == Spec /\ WF_vars(Handler) /\ WF_vars(Pass)
                 /\ \A v \in Vms : SF_vars(Mint(v))

-----------------------------------------------------------------------------
(* Properties.                                                               *)

(* reconcile/index.ts 107-140 and 201: gecos_synced never claims more        *)
(* than is true: while the database answers, a VM whose GECOS was written    *)
(* and whose row says synced authenticates the row's owner, also after a     *)
(* crash in the middle of a transfer.                                        *)
SyncedIsHonest ==
    dbFaults = 0 =>
        \A v \in Vms : row[v].gecosSynced /\ gecos[v] # NoWallet => gecos[v] = row[v].owner

(* Once an NFT stops moving, its VM, if its token is recorded and its GECOS  *)
(* was ever written, authenticates the holder (unless a row was not written).*)
GecosFollowsHolder ==
    \A v \in Vms :
        <>[](row[v].token /\ gecos[v] # NoWallet => gecos[v] = holder[v] \/ dbFaults > 0)

(* handlers/index.ts 420-424, reconcile/index.ts 79-85: every VM gets its    *)
(* network configuration and its row says so, whatever failed before.        *)
NetworkConfirmed == \A v \in Vms : <>[](network[v] /\ row[v].netSynced)
=============================================================================
