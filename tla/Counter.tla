------------------------------- MODULE Counter -------------------------------
(***************************************************************************)
(* allocateCounter (src/src/util/counter.ts): processes that take ids from  *)
(* a counter file, serialised by a lock file that is created with O_EXCL    *)
(* and, after the last retry, unlinked as stale.                            *)
(*                                                                          *)
(* One step is one system call.  writeFileSync truncates the file before it *)
(* writes.  The 5 s of retries are long against the time a live process     *)
(* spends with the lock, so a last retry only ever fails on a lock whose    *)
(* holder has died.                                                         *)
(***************************************************************************)
EXTENDS Integers

CONSTANTS
    Procs,
    Empty,       \* the counter file is absent or truncated
    Retries,     \* DEFAULT_RETRIES
    MaxCalls,    \* bound: calls
    MaxCrashes   \* bound: processes that die in the middle of a call

ASSUME CounterConstants ==
    /\ Empty \notin Nat
    /\ Retries \in Nat \ {0} /\ MaxCalls \in Nat /\ MaxCrashes \in Nat

VARIABLES
    pc,        \* the next system call of each process
    tries,     \* attempts to create the lock
    current,   \* the value read
    file,      \* the counter file
    locked,    \* the lock file exists
    issued,    \* history: how often each id was returned
    calls, crashes

vars == <<pc, tries, current, file, locked, issued, calls, crashes>>

Holding == {"read", "truncate", "write", "unlock"}
Ids == 1..MaxCalls

Init ==
    /\ pc = [p \in Procs |-> "idle"]
    /\ tries = [p \in Procs |-> 0]
    /\ current = [p \in Procs |-> 1]
    /\ file = Empty
    /\ locked = FALSE
    /\ issued = [i \in Ids |-> 0]
    /\ calls = 0 /\ crashes = 0

Go(p, from, to) == pc[p] = from /\ pc' = [pc EXCEPT ![p] = to]

Call(p) ==
    /\ calls < MaxCalls
    /\ calls' = calls + 1
    /\ Go(p, "idle", "lock")
    /\ tries' = [tries EXCEPT ![p] = 0]
    /\ UNCHANGED <<current, file, locked, issued, crashes>>

(* Seeded bug: the lock is opened without O_EXCL.                            *)
CreateLock_NotExclusive(p) ==
    /\ Go(p, "lock", "read")
    /\ locked' = TRUE
    /\ UNCHANGED <<tries, current, file, issued, calls, crashes>>

CreateLock(p) ==
    /\ ~locked
    /\ Go(p, "lock", "read")
    /\ locked' = TRUE
    /\ UNCHANGED <<tries, current, file, issued, calls, crashes>>

(* Seeded bug: a caller waits for the lock without counting its attempts.    *)
LockExists_WaitForever(p) ==
    /\ locked
    /\ pc[p] = "lock"
    /\ UNCHANGED vars

(* The lock exists: wait, or on the last attempt decide to reclaim it.       *)
LockExists(p) ==
    /\ locked
    /\ IF tries[p] + 1 < Retries
       THEN pc[p] = "lock" /\ UNCHANGED pc
       ELSE Go(p, "lock", "reclaim") /\ \A q \in Procs : pc[q] \notin Holding
    /\ tries' = [tries EXCEPT ![p] = @ + 1]
    /\ UNCHANGED <<current, file, locked, issued, calls, crashes>>

Reclaim(p) ==
    /\ Go(p, "reclaim", "relock")
    /\ locked' = FALSE
    /\ UNCHANGED <<tries, current, file, issued, calls, crashes>>

(* Created or not, the caller proceeds.                                      *)
Relock(p) ==
    /\ Go(p, "relock", "read")
    /\ locked' = TRUE
    /\ UNCHANGED <<tries, current, file, issued, calls, crashes>>

Parsed(content) == IF content = Empty THEN 1 ELSE content

Read(p) ==
    /\ Go(p, "read", "truncate")
    /\ current' = [current EXCEPT ![p] = Parsed(file)]
    /\ UNCHANGED <<tries, file, locked, issued, calls, crashes>>

Truncate(p) ==
    /\ Go(p, "truncate", "write")
    /\ file' = Empty
    /\ UNCHANGED <<tries, current, locked, issued, calls, crashes>>

(* Seeded bug: the value itself is written back.                             *)
Write_SameValue(p) ==
    /\ Go(p, "write", "unlock")
    /\ file' = current[p]
    /\ UNCHANGED <<tries, current, locked, issued, calls, crashes>>

Write(p) ==
    /\ Go(p, "write", "unlock")
    /\ file' = current[p] + 1
    /\ UNCHANGED <<tries, current, locked, issued, calls, crashes>>

(* finally: whatever lock file there is goes, and the value is returned.     *)
Unlock(p) ==
    /\ Go(p, "unlock", "idle")
    /\ locked' = FALSE
    /\ issued' = [issued EXCEPT ![current[p]] = @ + 1]
    /\ UNCHANGED <<tries, current, file, calls, crashes>>

Crash(p) ==
    /\ crashes < MaxCrashes
    /\ crashes' = crashes + 1
    /\ pc[p] # "idle" /\ pc' = [pc EXCEPT ![p] = "idle"]
    /\ UNCHANGED <<tries, current, file, locked, issued, calls>>

Step(p) ==
    \/ CreateLock(p) \/ LockExists(p) \/ Reclaim(p) \/ Relock(p)
    \/ Read(p) \/ Truncate(p) \/ Write(p) \/ Unlock(p)

Next == \E p \in Procs : Call(p) \/ Step(p) \/ Crash(p)

Spec == Init /\ [][Next]_vars

(* A process that runs makes its next system call.                           *)
FairSpec == Spec /\ \A p \in Procs : WF_vars(Step(p))

-----------------------------------------------------------------------------
TypeOK ==
    /\ pc \in [Procs -> {"idle", "lock", "reclaim", "relock"} \cup Holding]
    /\ tries \in [Procs -> 0..Retries]
    /\ \A p \in Procs : pc[p] = "lock" => tries[p] < Retries
    /\ current \in [Procs -> Nat \ {0}]
    /\ file \in (Nat \ {0}) \cup {Empty}
    /\ locked \in BOOLEAN
    /\ issued \in [Ids -> Nat]
    /\ calls \in 0..MaxCalls
    /\ crashes \in 0..MaxCrashes

(* counter.ts 5-6: "Lockfile serialises concurrent callers", as long as no   *)
(* caller has died holding it (reclaiming its lock lets two in: see the      *)
(* README).                                                                  *)
Serialised ==
    crashes = 0 => \A p, q \in Procs : pc[p] \in Holding /\ pc[q] \in Holding => p = q

(* counter.ts 2: an id is returned to one caller only, as long as no caller  *)
(* has died between truncating the file and writing it.                      *)
UniqueIds == crashes = 0 => \A i \in Ids : issued[i] <= 1

(* counter.ts 34-44: a lock left by a dead process never blocks the others.  *)
EveryCallReturns == \A p \in Procs : pc[p] # "idle" ~> pc[p] = "idle"
=============================================================================
