--------------------------- MODULE ReconcilerProofs ---------------------------
(***************************************************************************)
(* Proofs about Reconciler: as long as every row was written, gecos_synced  *)
(* never claims more than is true, for any number of VMs and wallets, any   *)
(* sequence of transfers, failing calls and deaths of the process.          *)
(*                                                                          *)
(* A pass decides by the rows it listed at its start.  The invariant says   *)
(* that these are still the rows when it comes to them (SnapshotIsFresh),   *)
(* because no handler runs beside it (OneAtATime), and that between the     *)
(* owner's update and the flag's the flag is down (WritesWhatRowSays).      *)
(***************************************************************************)
EXTENDS Reconciler, TLAPS

InPass == {"pick", "push", "markPush", "lookup", "owner", "gecos", "mark"}
InVm == InPass \ {"pick"}
InHandler == {"push", "record", "gecos", "mark"}

Row == [owner : Wallets, token : BOOLEAN, gecosSynced : BOOLEAN, netSynced : BOOLEAN]

Types ==
    /\ holder \in [Vms -> Wallets \cup {NoWallet}]
    /\ gecos \in [Vms -> Wallets \cup {NoWallet}]
    /\ network \in [Vms -> BOOLEAN]
    /\ row \in [Vms -> Row]
    /\ setup \in [Vms -> {"created", "done"} \cup InHandler]
    /\ pc \in {"idle"} \cup InPass
    /\ DOMAIN snapshot \subseteq Vms
    /\ pc \in InVm => vm \in DOMAIN snapshot
    /\ pc \in {"owner", "gecos", "mark"} => target \in Wallets
    /\ \A v \in DOMAIN snapshot : snapshot[v] \in Row
    /\ dbFaults \in Nat

OneAtATime ==
    /\ pc # "idle" => \A v \in Vms : setup[v] \in {"created", "done"}
    /\ pc = "idle" => DOMAIN snapshot = {}
    /\ \A v \in DOMAIN snapshot : setup[v] = "done"

SubscribersOwn == \A v \in Vms : setup[v] # "done" => row[v].owner = Subscriber

SnapshotIsFresh ==
    \A v \in DOMAIN snapshot :
        v # vm \/ pc \in {"pick", "push", "markPush", "lookup", "owner"} =>
            /\ snapshot[v].owner = row[v].owner
            /\ snapshot[v].gecosSynced = row[v].gecosSynced

WritesWhatRowSays ==
    /\ pc \in {"gecos", "mark"} => target = row[vm].owner
    /\ pc = "gecos" => ~row[vm].gecosSynced
    /\ pc = "mark" => gecos[vm] = target

Honest == \A v \in Vms : row[v].gecosSynced /\ gecos[v] # NoWallet => gecos[v] = row[v].owner

Core == SubscribersOwn /\ SnapshotIsFresh /\ WritesWhatRowSays /\ Honest

IInv == Types /\ OneAtATime /\ (dbFaults = 0 => Core)

-----------------------------------------------------------------------------
(* Database writes.                                                          *)

LEMMA WrittenFacts ==
    ASSUME Types, NEW v \in Vms, NEW newRow \in Row, Written(v, newRow)
    PROVE  /\ row' \in [Vms -> Row] /\ dbFaults' \in Nat
           /\ \A u \in Vms : u # v => row'[u] = row[u]
           /\ dbFaults' = 0 => dbFaults = 0 /\ row'[v] = newRow
BY DEF Types, Written, counters

LEMMA CallFacts ==
    ASSUME Types, CallFails \/ UNCHANGED counters
    PROVE  dbFaults' = dbFaults /\ dbFaults' \in Nat
BY DEF Types, CallFails, counters

(* The fields of an updated row.                                             *)
LEMMA RowFacts ==
    ASSUME NEW r \in Row, NEW b \in BOOLEAN
    PROVE  /\ [r EXCEPT !.netSynced = b] \in Row
           /\ [r EXCEPT !.netSynced = b].owner = r.owner
           /\ [r EXCEPT !.netSynced = b].gecosSynced = r.gecosSynced
           /\ [r EXCEPT !.token = b] \in Row
           /\ [r EXCEPT !.token = b].owner = r.owner
           /\ [r EXCEPT !.token = b].gecosSynced = r.gecosSynced
           /\ [r EXCEPT !.gecosSynced = TRUE] \in Row
           /\ [r EXCEPT !.gecosSynced = TRUE].owner = r.owner
BY DEF Row

LEMMA NewOwnerFacts ==
    ASSUME NEW r \in Row, NEW w \in Wallets
    PROVE  /\ NewOwner(r, w) \in Row
           /\ NewOwner(r, w).owner = w
           /\ ~NewOwner(r, w).gecosSynced
BY DEF Row, NewOwner

LEMMA InitIInv == Init => IInv
<1> SUFFICES ASSUME Init PROVE IInv
  OBVIOUS
<1>1. NewRow \in Row /\ NewRow.owner = Subscriber
  BY ReconcilerConstants DEF NewRow, Row
<1>2. Types
  BY <1>1 DEF Init, Types, InPass, InVm
<1>3. OneAtATime
  BY DEF Init, OneAtATime
<1>4. Core
  BY <1>1 DEF Init, Core, SubscribersOwn, SnapshotIsFresh, WritesWhatRowSays, Honest
<1> QED
  BY <1>2, <1>3, <1>4 DEF IInv

-----------------------------------------------------------------------------
(* The handler.                                                              *)

LEMMA HandlerStep ==
    ASSUME IInv, NEW v \in Vms,
           Mint(v) \/ PushConfig(v) \/ RecordPush(v) \/ WriteGecos(v) \/ MarkMinted(v)
    PROVE  IInv'
<1> USE DEF IInv
<1> DEFINE Sub == DOMAIN snapshot = {}
<1>1. pc = "idle" /\ Sub /\ UNCHANGED pass
  BY DEF Types, OneAtATime, Mint, PushConfig, RecordPush, WriteGecos, MarkMinted, Idle,
         InPass, InHandler
<1>2. UNCHANGED <<pc, vm, snapshot, target>>
  BY <1>1 DEF pass
<1>3. ASSUME Types', dbFaults' = 0 => Core' PROVE IInv'
  BY <1>1, <1>2, <1>3 DEF OneAtATime
<1>4. CASE Mint(v)
  <2>1. /\ dbFaults' = dbFaults /\ dbFaults' \in Nat /\ UNCHANGED <<gecos, network, row>>
    BY <1>4, CallFacts DEF Mint
  <2>2. Types'
    BY <1>2, <1>4, <2>1, ReconcilerConstants DEF Types, Mint, InHandler
  <2>3. setup[v] = "created" /\ \A u \in Vms : u # v => setup'[u] = setup[u]
    BY <1>4 DEF Mint, Types
  <2>4. dbFaults = 0 => Core'
    BY <1>1, <1>2, <2>1, <2>3
       DEF Core, SubscribersOwn, SnapshotIsFresh, WritesWhatRowSays, Honest
  <2> QED
    BY <1>3, <2>1, <2>2, <2>4
<1>5. CASE PushConfig(v)
  <2>1. /\ dbFaults' = dbFaults /\ dbFaults' \in Nat /\ UNCHANGED <<holder, gecos, row>>
    BY <1>5, CallFacts DEF PushConfig
  <2>2. Types'
    BY <1>2, <1>5, <2>1 DEF Types, PushConfig, InHandler
  <2>3. setup[v] # "done" /\ \A u \in Vms : u # v => setup'[u] = setup[u]
    BY <1>5 DEF PushConfig, Types
  <2>4. dbFaults = 0 => Core'
    BY <1>1, <1>2, <2>1, <2>3
       DEF Core, SubscribersOwn, SnapshotIsFresh, WritesWhatRowSays, Honest
  <2> QED
    BY <1>3, <2>1, <2>2, <2>4
<1>6. CASE RecordPush(v) \/ MarkMinted(v)
  <2>1. PICK newRow \in Row :
            /\ Written(v, newRow)
            /\ newRow.owner = row[v].owner /\ newRow.gecosSynced = row[v].gecosSynced
    <3>1. row[v] \in Row /\ network[v] \in BOOLEAN
      BY DEF Types
    <3>2. CASE RecordPush(v)
      BY <3>1, <3>2, RowFacts DEF RecordPush
    <3>3. CASE MarkMinted(v)
      BY <3>1, <3>3, RowFacts DEF MarkMinted
    <3> QED
      BY <1>6, <3>2, <3>3
  <2>2. /\ row' \in [Vms -> Row] /\ dbFaults' \in Nat
        /\ \A u \in Vms : u # v => row'[u] = row[u]
        /\ dbFaults' = 0 => dbFaults = 0 /\ row'[v] = newRow
    BY <2>1, WrittenFacts
  <2>3. UNCHANGED <<holder, gecos, network>>
    BY <1>6 DEF RecordPush, MarkMinted, world
  <2>4. Types'
    BY <1>2, <1>6, <2>2, <2>3 DEF Types, RecordPush, MarkMinted, InHandler
  <2>5. setup[v] # "done" /\ \A u \in Vms : u # v => setup'[u] = setup[u]
    BY <1>6 DEF RecordPush, MarkMinted, Types
  <2>6. dbFaults' = 0 => Core'
    BY <1>1, <1>2, <2>1, <2>2, <2>3, <2>5
       DEF Core, SubscribersOwn, SnapshotIsFresh, WritesWhatRowSays, Honest
  <2> QED
    BY <1>3, <2>4, <2>6
<1>7. CASE WriteGecos(v)
  <2>1. /\ dbFaults' = dbFaults /\ dbFaults' \in Nat /\ UNCHANGED <<holder, network, row>>
    BY <1>7, CallFacts DEF WriteGecos
  <2>2. Types'
    BY <1>2, <1>7, <2>1, ReconcilerConstants DEF Types, WriteGecos, InHandler
  <2>3. setup[v] # "done" /\ \A u \in Vms : u # v => setup'[u] = setup[u]
    BY <1>7 DEF WriteGecos, Types
  <2>4. gecos'[v] \in {gecos[v], Subscriber} /\ \A u \in Vms : u # v => gecos'[u] = gecos[u]
    BY <1>7 DEF WriteGecos, Types
  <2>5. dbFaults = 0 => Core'
    BY <1>1, <1>2, <2>1, <2>3, <2>4
       DEF Core, SubscribersOwn, SnapshotIsFresh, WritesWhatRowSays, Honest
  <2> QED
    BY <1>3, <2>1, <2>2, <2>5
<1> QED
  BY <1>4, <1>5, <1>6, <1>7

-----------------------------------------------------------------------------
(* The pass.                                                                 *)

LEMMA PassControl ==
    ASSUME IInv, Pass
    PROVE  /\ UNCHANGED <<holder, setup>>
           /\ \A v \in Vms : setup[v] \in {"created", "done"}
BY DEF IInv, OneAtATime, Pass, BeginPass, Pick, EndPass, Push, MarkPush, Lookup, UpdateOwner,
       UpdateGecos, MarkSynced, Idle, world

LEMMA BeginEndStep ==
    ASSUME IInv, BeginPass \/ Pick \/ EndPass
    PROVE  IInv'
<1> USE DEF IInv
<1>1. UNCHANGED <<holder, gecos, network, row, setup, target>>
  BY DEF BeginPass, Pick, EndPass, world
<1>2. \A v \in Vms : setup[v] \in {"created", "done"}
  BY PassControl DEF Pass
<1>3. CASE BeginPass
  <2>1. pc = "idle" /\ DOMAIN snapshot = {} /\ pc' = "pick" /\ vm' = vm
    BY <1>3 DEF BeginPass, Idle, OneAtATime
  <2>2. CASE /\ snapshot' = [v \in {u \in Vms : setup[u] = "done"} |-> row[v]]
             /\ UNCHANGED counters
    <3>1. /\ DOMAIN snapshot' \subseteq Vms
          /\ \A v \in DOMAIN snapshot' : snapshot'[v] = row[v] /\ setup[v] = "done"
          /\ dbFaults' = dbFaults
      BY <2>2 DEF counters
    <3>2. Types' /\ OneAtATime'
      BY <1>1, <1>2, <2>1, <3>1 DEF Types, OneAtATime, InPass, InVm
    <3>3. Core => Core'
      BY <1>1, <2>1, <3>1
         DEF Core, SubscribersOwn, SnapshotIsFresh, WritesWhatRowSays, Honest
    <3> QED
      BY <3>1, <3>2, <3>3
  <2>3. CASE dbFaults' = dbFaults + 1 /\ UNCHANGED snapshot
    <3>1. dbFaults' \in Nat /\ dbFaults' # 0
      BY <2>3 DEF Types
    <3>2. Types' /\ OneAtATime'
      BY <1>1, <1>2, <2>1, <2>3, <3>1 DEF Types, OneAtATime, InPass, InVm
    <3> QED
      BY <3>1, <3>2
  <2> QED
    BY <1>3, <2>2, <2>3 DEF BeginPass
<1>4. CASE Pick
  <2>1. /\ pc = "pick" /\ vm' \in DOMAIN snapshot /\ pc' \in {"lookup", "push"}
        /\ snapshot' = snapshot /\ dbFaults' = dbFaults
    BY <1>4 DEF Pick, counters
  <2>2. Types' /\ OneAtATime'
    BY <1>1, <1>2, <2>1 DEF Types, OneAtATime, InPass, InVm
  <2>3. Core => Core'
    BY <1>1, <2>1 DEF Core, SubscribersOwn, SnapshotIsFresh, WritesWhatRowSays, Honest
  <2> QED
    BY <2>1, <2>2, <2>3
<1>5. CASE EndPass
  <2>1. /\ pc = "pick" /\ pc' = "idle" /\ DOMAIN snapshot = {} /\ vm' = vm
        /\ snapshot' = snapshot /\ dbFaults' = dbFaults
    BY <1>5 DEF EndPass, counters
  <2>2. Types' /\ OneAtATime'
    BY <1>1, <1>2, <2>1 DEF Types, OneAtATime, InPass, InVm
  <2>3. Core => Core'
    BY <1>1, <2>1 DEF Core, SubscribersOwn, SnapshotIsFresh, WritesWhatRowSays, Honest
  <2> QED
    BY <2>1, <2>2, <2>3
<1> QED
  BY <1>3, <1>4, <1>5

LEMMA NextVmFacts ==
    ASSUME Types, NextVm
    PROVE  /\ pc' = "pick" /\ DOMAIN snapshot' \subseteq DOMAIN snapshot
           /\ vm \notin DOMAIN snapshot'
           /\ \A v \in DOMAIN snapshot' : snapshot'[v] = snapshot[v]
BY DEF NextVm, Without

LEMMA PushLookupStep ==
    ASSUME IInv, Push \/ MarkPush \/ Lookup
    PROVE  IInv'
<1> USE DEF IInv
<1>1. /\ UNCHANGED <<holder, gecos, setup>> /\ pc \in {"push", "markPush", "lookup"}
      /\ vm \in DOMAIN snapshot /\ vm \in Vms /\ row[vm] \in Row
      /\ \A v \in Vms : setup[v] \in {"created", "done"}
  BY PassControl DEF Push, MarkPush, Lookup, world, Types, InVm, InPass, Pass
<1>2. CASE Push
  <2>1. /\ pc' \in {"markPush", "lookup"} /\ UNCHANGED <<row, vm, snapshot, target>>
        /\ dbFaults' = dbFaults /\ dbFaults' \in Nat /\ network' \in [Vms -> BOOLEAN]
    BY <1>2, CallFacts DEF Push, Types
  <2>2. Types' /\ OneAtATime'
    BY <1>1, <2>1 DEF Types, OneAtATime, InPass, InVm
  <2>3. Core => Core'
    BY <1>1, <2>1 DEF Core, SubscribersOwn, SnapshotIsFresh, WritesWhatRowSays, Honest
  <2> QED
    BY <2>1, <2>2, <2>3
<1>3. CASE MarkPush
  <2>1. PICK newRow \in Row :
            /\ Written(vm, newRow)
            /\ newRow.owner = row[vm].owner /\ newRow.gecosSynced = row[vm].gecosSynced
    <3> DEFINE newRow == [row[vm] EXCEPT !.netSynced = TRUE]
    <3>1. /\ newRow \in Row /\ newRow.owner = row[vm].owner
          /\ newRow.gecosSynced = row[vm].gecosSynced
      BY <1>1, RowFacts
    <3>2. Written(vm, newRow)
      BY <1>3 DEF MarkPush
    <3> QED
      BY <3>1, <3>2
  <2>2. /\ row' \in [Vms -> Row] /\ dbFaults' \in Nat
        /\ \A u \in Vms : u # vm => row'[u] = row[u]
        /\ dbFaults' = 0 => dbFaults = 0 /\ row'[vm] = newRow
    BY <1>1, <2>1, WrittenFacts
  <2>3. pc' = "lookup" /\ UNCHANGED <<network, vm, snapshot, target>>
    BY <1>3 DEF MarkPush, world
  <2>4. Types' /\ OneAtATime'
    BY <1>1, <2>2, <2>3 DEF Types, OneAtATime, InPass, InVm
  <2>5. dbFaults' = 0 => \A u \in Vms : /\ row'[u].owner = row[u].owner
                                        /\ row'[u].gecosSynced = row[u].gecosSynced
    BY <2>1, <2>2
  <2>6. dbFaults' = 0 => Core'
    BY <1>1, <2>2, <2>3, <2>5
       DEF Core, SubscribersOwn, SnapshotIsFresh, WritesWhatRowSays, Honest, Types
  <2> QED
    BY <2>4, <2>6
<1>4. CASE Lookup
  <2>1. pc = "lookup" /\ UNCHANGED <<network, row>> /\ dbFaults' = dbFaults /\ dbFaults' \in Nat
    BY <1>4, CallFacts DEF Lookup, world, counters
  <2>2. CASE NextVm
    <3>1. Types' /\ OneAtATime'
      BY <1>1, <2>1, <2>2, NextVmFacts DEF Types, OneAtATime, InPass, InVm
    <3>2. Core => Core'
      BY <1>1, <2>1, <2>2, NextVmFacts
         DEF Core, SubscribersOwn, SnapshotIsFresh, WritesWhatRowSays, Honest
    <3> QED
      BY <2>1, <3>1, <3>2
  <2>3. CASE /\ pc' = "owner" /\ holder[vm] \notin {NoWallet, snapshot[vm].owner}
             /\ target' = holder[vm] /\ UNCHANGED <<vm, snapshot>>
    <3>1. Types' /\ OneAtATime'
      BY <1>1, <2>1, <2>3 DEF Types, OneAtATime, InPass, InVm
    <3>2. Core => Core'
      BY <1>1, <2>1, <2>3
         DEF Core, SubscribersOwn, SnapshotIsFresh, WritesWhatRowSays, Honest
    <3> QED
      BY <2>1, <3>1, <3>2
  <2>4. CASE /\ pc' = "gecos" /\ ~snapshot[vm].gecosSynced
             /\ target' = snapshot[vm].owner /\ UNCHANGED <<vm, snapshot>>
    <3>1. snapshot[vm].owner \in Wallets
      BY <1>1 DEF Types, Row
    <3>2. Types' /\ OneAtATime'
      BY <1>1, <2>1, <2>4, <3>1 DEF Types, OneAtATime, InPass, InVm
    <3>3. Core => Core'
      BY <1>1, <2>1, <2>4
         DEF Core, SubscribersOwn, SnapshotIsFresh, WritesWhatRowSays, Honest
    <3> QED
      BY <2>1, <3>2, <3>3
  <2> QED
    BY <1>4, <2>2, <2>3, <2>4 DEF Lookup
<1> QED
  BY <1>2, <1>3, <1>4

LEMMA OwnerStep ==
    ASSUME IInv, UpdateOwner \/ UpdateGecos \/ MarkSynced
    PROVE  IInv'
<1> USE DEF IInv
<1>1. /\ UNCHANGED <<holder, network, setup>> /\ pc \in {"owner", "gecos", "mark"}
      /\ vm \in DOMAIN snapshot /\ vm \in Vms /\ row[vm] \in Row /\ target \in Wallets
      /\ \A v \in Vms : setup[v] \in {"created", "done"} /\ setup[vm] = "done"
  BY PassControl DEF UpdateOwner, UpdateGecos, MarkSynced, world, Types, InVm, InPass, Pass,
                     OneAtATime
<1>2. CASE UpdateOwner
  <2>1. /\ pc = "owner" /\ pc' = "gecos" /\ UNCHANGED <<gecos, vm, snapshot, target>>
        /\ Written(vm, NewOwner(row[vm], target))
    BY <1>2 DEF UpdateOwner, world
  <2>2. /\ NewOwner(row[vm], target) \in Row /\ NewOwner(row[vm], target).owner = target
        /\ ~NewOwner(row[vm], target).gecosSynced
    BY <1>1, NewOwnerFacts
  <2>3. /\ row' \in [Vms -> Row] /\ dbFaults' \in Nat
        /\ \A u \in Vms : u # vm => row'[u] = row[u]
        /\ dbFaults' = 0 => dbFaults = 0 /\ row'[vm] = NewOwner(row[vm], target)
    BY <1>1, <2>1, <2>2, WrittenFacts
  <2>4. Types' /\ OneAtATime'
    BY <1>1, <2>1, <2>3 DEF Types, OneAtATime, InPass, InVm
  <2>5. dbFaults' = 0 => Core'
    BY <1>1, <2>1, <2>2, <2>3
       DEF Core, SubscribersOwn, SnapshotIsFresh, WritesWhatRowSays, Honest, Types
  <2> QED
    BY <2>4, <2>5
<1>3. CASE UpdateGecos
  <2>1. pc = "gecos" /\ UNCHANGED row /\ dbFaults' = dbFaults /\ dbFaults' \in Nat
    BY <1>3, CallFacts DEF UpdateGecos
  <2>2. CASE /\ gecos' = [gecos EXCEPT ![vm] = target] /\ pc' = "mark"
             /\ UNCHANGED <<vm, snapshot, target>>
    <3>1. /\ gecos' \in [Vms -> Wallets \cup {NoWallet}] /\ gecos'[vm] = target
          /\ \A u \in Vms : u # vm => gecos'[u] = gecos[u]
      BY <1>1, <2>2 DEF Types
    <3>2. Types' /\ OneAtATime'
      BY <1>1, <2>1, <2>2, <3>1 DEF Types, OneAtATime, InPass, InVm
    <3>3. Core => Core'
      BY <1>1, <2>1, <2>2, <3>1
         DEF Core, SubscribersOwn, SnapshotIsFresh, WritesWhatRowSays, Honest
    <3> QED
      BY <2>1, <3>2, <3>3
  <2>3. CASE NextVm /\ UNCHANGED gecos
    <3>1. Types' /\ OneAtATime'
      BY <1>1, <2>1, <2>3, NextVmFacts DEF Types, OneAtATime, InPass, InVm
    <3>2. Core => Core'
      BY <1>1, <2>1, <2>3, NextVmFacts
         DEF Core, SubscribersOwn, SnapshotIsFresh, WritesWhatRowSays, Honest
    <3> QED
      BY <2>1, <3>1, <3>2
  <2> QED
    BY <1>3, <2>2, <2>3 DEF UpdateGecos
<1>4. CASE MarkSynced
  <2>1. /\ pc = "mark" /\ UNCHANGED gecos /\ NextVm
        /\ Written(vm, [row[vm] EXCEPT !.gecosSynced = TRUE])
    BY <1>4 DEF MarkSynced, world
  <2>2. PICK newRow \in Row : Written(vm, newRow) /\ newRow.owner = row[vm].owner
    BY <1>1, <2>1, RowFacts
  <2>3. /\ row' \in [Vms -> Row] /\ dbFaults' \in Nat
        /\ \A u \in Vms : u # vm => row'[u] = row[u]
        /\ dbFaults' = 0 => dbFaults = 0 /\ row'[vm] = newRow
    BY <1>1, <2>2, WrittenFacts
  <2>4. Types' /\ OneAtATime'
    BY <1>1, <2>1, <2>3, NextVmFacts DEF Types, OneAtATime, InPass, InVm
  <2>5. dbFaults' = 0 => Core'
    BY <1>1, <2>1, <2>2, <2>3, NextVmFacts
       DEF Core, SubscribersOwn, SnapshotIsFresh, WritesWhatRowSays, Honest, Types
  <2> QED
    BY <2>4, <2>5
<1> QED
  BY <1>2, <1>3, <1>4

-----------------------------------------------------------------------------
(* The environment.                                                          *)

LEMMA TransferStep == ASSUME IInv, Transfer PROVE IInv'
<1>1. /\ UNCHANGED <<gecos, network, row, setup, pc, vm, snapshot, target, dbFaults>>
      /\ holder' \in [Vms -> Wallets \cup {NoWallet}]
  BY DEF Transfer, pass, IInv, Types
<1> QED
  BY <1>1 DEF IInv, Types, OneAtATime, Core, SubscribersOwn, SnapshotIsFresh,
              WritesWhatRowSays, Honest

LEMMA CrashStep == ASSUME IInv, Crash PROVE IInv'
<1>1. /\ UNCHANGED <<holder, gecos, network, row, dbFaults>>
      /\ pc' = "idle" /\ DOMAIN snapshot' = {}
      /\ setup' = [v \in Vms |-> IF setup[v] = "created" THEN "created" ELSE "done"]
  BY DEF Crash, world
<1>2. Types'
  BY <1>1 DEF IInv, Types, InPass, InVm
<1>3. OneAtATime'
  BY <1>1 DEF OneAtATime
<1>4. Core => Core'
  BY <1>1 DEF Core, SubscribersOwn, SnapshotIsFresh, WritesWhatRowSays, Honest
<1> QED
  BY <1>1, <1>2, <1>3, <1>4 DEF IInv

LEMMA StutterStep == ASSUME IInv, UNCHANGED vars PROVE IInv'
BY DEF vars, IInv, Types, OneAtATime, Core, SubscribersOwn, SnapshotIsFresh,
       WritesWhatRowSays, Honest

LEMMA Inductive == IInv /\ [Next]_vars => IInv'
BY HandlerStep, BeginEndStep, PushLookupStep, OwnerStep, TransferStep, CrashStep, StutterStep
   DEF Next, Handler, Pass

-----------------------------------------------------------------------------
(* reconcile/index.ts 107-140 and 201: as long as the database answers, a VM *)
(* whose row says synced authenticates the row's owner.                      *)
THEOREM FlagIsHonest == Spec => []SyncedIsHonest
<1>1. IInv => SyncedIsHonest
  BY DEF IInv, Core, Honest, SyncedIsHonest
<1> QED
  BY <1>1, InitIInv, Inductive, PTL DEF Spec
=============================================================================
