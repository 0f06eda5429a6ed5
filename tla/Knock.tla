-------------------------------- MODULE Knock --------------------------------
(***************************************************************************)
(* The knock command (src/src/admin/handlers/knock.ts): firewall ports are  *)
(* opened for a while; after an SSH login they are narrowed to the login's  *)
(* address and kept open while its heartbeat file is fresh.                 *)
(*                                                                          *)
(* Timers and log lines start asynchronous functions whose root-agent calls *)
(* interleave at every await.  A task is such a function in flight: the     *)
(* calls it still has to make and the address it was started with.          *)
(*                                                                          *)
(* The process may be asked to stop, which closes all sessions it tracks,   *)
(* and may end at any point; a new one knows none of the old sessions.      *)
(*                                                                          *)
(* Abstractions.  A firewall rule is a port and a source, and opening an    *)
(* open rule changes nothing (the root agent is outside the repository).    *)
(* Durations are left out: a running timer may fire at any time.            *)
(***************************************************************************)
EXTENDS Integers, Sequences, SequencesExt

CONSTANTS
    Txs,          \* knock commands, by the transaction that carries them
    Ports,        \* a sequence: the ports of each command
    SshPort,      \* port 22
    Anywhere,     \* no source filter
    Filters,      \* what params.source may be
    Ips, NoIp,
    NoTask,
    MaxFailures   \* bound: failed calls to the root agent, all before the
                  \* process is asked to stop, and processes that end, together

(* What the firewall may let through, and the functions in flight.           *)
Rules == Range(Ports) \X (Ips \cup {Anywhere})
Call == [op : {"open", "close"}, rule : Rules]
Task == [ip : Ips \cup {NoIp}, calls : Seq(Call)]

ASSUME KnockConstants ==
    /\ Ports \in Seq(Range(Ports)) /\ Ports # <<>>
    /\ Anywhere \notin Ips /\ NoIp \notin Ips
    /\ Filters \subseteq Ips \cup {Anywhere}
    /\ NoTask \notin Task
    /\ MaxFailures \in Nat

VARIABLES
    knock,       \* each ActiveKnock object, in the map or only in a closure;
                 \* its state: new, opening, active (in activeKnocks), done,
                 \* lost (with its process)
    tasks,       \* per command: its functions in flight, each with the
                 \* root-agent calls it has still to make
    stuck,       \* the functions whose root-agent call will never settle
    activeFile,  \* the address in knock.active, or NoIp: no file
    fresh,       \* its mtime is within HEARTBEAT_STALE_MS
    rules,       \* the firewall: <<port, source>> for each open one
    process,     \* up, stopping (closeAllKnocks runs), stopped, or down
    (* history *)
    overlapped,  \* a function has started while another was in flight
    failures, deaths

history == <<overlapped, failures, deaths>>
knockVars == <<knock, tasks, stuck, activeFile, fresh, rules, process, history>>

(* "heartbeat" and "authlog" are transitions, by who started them, "close"   *)
(* and "shutdown" are closeKnock.                                            *)
TaskNames == {"execute", "heartbeat", "authlog", "close", "shutdown"}
Transitions == {"heartbeat", "authlog"}

KnockInit ==
    /\ knock = [k \in Txs |-> [state |-> "new", source |-> Anywhere, login |-> NoIp,
                               timer |-> FALSE, poller |-> FALSE, tail |-> FALSE]]
    /\ tasks = [k \in Txs |-> [t \in TaskNames |-> NoTask]]
    /\ stuck = {}
    /\ activeFile = NoIp
    /\ fresh = FALSE
    /\ rules = {}
    /\ process = "up"
    /\ overlapped = FALSE
    /\ failures = 0 /\ deaths = 0

Calls(op, source) ==
    [i \in DOMAIN Ports |-> [op |-> op, rule |-> <<Ports[i], source>>]]

Idle == \A k \in Txs, t \in TaskNames : tasks[k][t] = NoTask

(* A function starts, whatever else is in flight.                            *)
Fires ==
    /\ overlapped' = (overlapped \/ ~Idle)
    /\ UNCHANGED <<stuck, process, deaths>>

Start(k, t, ip, calls) == tasks' = [tasks EXCEPT ![k][t] = [ip |-> ip, calls |-> calls]]
Ready(k, t) == tasks[k][t] # NoTask /\ tasks[k][t].calls = <<>>

-----------------------------------------------------------------------------
(* The next root-agent call of a task.                                       *)

Answered(k, t) ==
    LET c == Head(tasks[k][t].calls)
    IN  /\ rules' = IF c.op = "open" THEN rules \cup {c.rule} ELSE rules \ {c.rule}
        /\ tasks' = [tasks EXCEPT ![k][t].calls = Tail(@)]
        /\ UNCHANGED <<knock, stuck, failures>>

(* closePort swallows the error.  A failed open makes executeKnock close all *)
(* ports and give up, and abandons a transition.                             *)
Failed(k, t) ==
    /\ process = "up" /\ failures + deaths < MaxFailures
    /\ failures' = failures + 1
    /\ UNCHANGED <<rules, stuck>>
    /\ IF Head(tasks[k][t].calls).op = "close"
       THEN tasks' = [tasks EXCEPT ![k][t].calls = Tail(@)] /\ UNCHANGED knock
       ELSE IF t = "execute"
       THEN /\ Start(k, t, NoIp, Calls("close", knock[k].source))
            /\ knock' = [knock EXCEPT ![k].state = "done"]
       ELSE tasks' = [tasks EXCEPT ![k][t] = NoTask] /\ UNCHANGED knock

(* The agent, which may have done its work, ends the connection before its   *)
(* answer is complete: a closed socket has no timeout either, and nothing    *)
(* settles the call.                                                         *)
CutOff(k, t) ==
    LET c == Head(tasks[k][t].calls)
    IN  /\ process = "up" /\ failures + deaths < MaxFailures
        /\ failures' = failures + 1
        /\ stuck' = stuck \cup {<<k, t>>}
        /\ rules' \in {rules, IF c.op = "open" THEN rules \cup {c.rule} ELSE rules \ {c.rule}}
        /\ UNCHANGED <<knock, tasks>>

Step(k, t) ==
    /\ tasks[k][t] # NoTask /\ <<k, t>> \notin stuck
    /\ tasks[k][t].calls # <<>>
    /\ Answered(k, t) \/ Failed(k, t) \/ CutOff(k, t)
    /\ UNCHANGED <<activeFile, fresh, process, overlapped, deaths>>

-----------------------------------------------------------------------------
(* executeKnock.  The admin loop awaits it, so one runs at a time.           *)

Execute(k, source) ==
    /\ process = "up" /\ knock[k].state = "new"
    /\ Fires
    /\ \A j \in Txs : tasks[j]["execute"] = NoTask
    /\ Start(k, "execute", NoIp, Calls("open", source))
    /\ knock' = [knock EXCEPT ![k].state = "opening", ![k].source = source]
    /\ UNCHANGED <<activeFile, fresh, rules, failures>>

Tracked(k) ==
    [knock[k] EXCEPT !.state = "active", !.timer = TRUE, !.poller = TRUE,
                     !.tail = SshPort \in Range(Ports)]

(* The poller starts by removing whatever heartbeat file it finds.           *)
Executed(k) ==
    /\ Ready(k, "execute")
    /\ tasks' = [tasks EXCEPT ![k]["execute"] = NoTask]
    /\ IF knock[k].state = "done"
       THEN UNCHANGED <<knock, activeFile>>
       ELSE knock' = [knock EXCEPT ![k] = Tracked(k)] /\ activeFile' = NoIp
    /\ UNCHANGED <<stuck, fresh, rules, process, history>>

-----------------------------------------------------------------------------
(* transitionToPostLogin                                                     *)

(* Seeded bug: the phase-1 rules stay.                                       *)
TransitionCalls_OpenOnly(k, ip) == Calls("open", ip)

TransitionCalls(k, ip) == Calls("close", knock[k].source) \o Calls("open", ip)

Transition(k, t, ip) ==
    IF knock[k].state = "active" /\ knock[k].login = NoIp
    THEN Start(k, t, ip, TransitionCalls(k, ip))
    ELSE UNCHANGED tasks

(* It writes to the object it holds, in the map or not.                      *)
Transitioned(k, t) ==
    /\ t \in Transitions
    /\ Ready(k, t)
    /\ knock' = [knock EXCEPT ![k].timer = FALSE, ![k].login = tasks[k][t].ip,
                              ![k].tail = FALSE]
    /\ tasks' = [tasks EXCEPT ![k][t] = NoTask]
    /\ UNCHANGED <<stuck, activeFile, fresh, rules, process, history>>

-----------------------------------------------------------------------------
(* closeKnock                                                                *)

(* Seeded bug: the original source is closed whatever the phase.             *)
CloseSource_Original(k) == knock[k].source

CloseSource(k) == IF knock[k].login # NoIp THEN knock[k].login ELSE knock[k].source

(* Starts only while the command is in the map.                              *)
CloseBy(k, t) ==
    /\ knock[k].state = "active"
    /\ tasks[k][t] = NoTask
    /\ Start(k, t, NoIp, Calls("close", CloseSource(k)))
    /\ knock' = [knock EXCEPT ![k].timer = FALSE, ![k].poller = FALSE, ![k].tail = FALSE]

Close(k) == CloseBy(k, "close")

Closed(k, t) ==
    /\ t \in {"close", "shutdown"}
    /\ Ready(k, t)
    /\ activeFile' = NoIp
    /\ knock' = [knock EXCEPT ![k].state = "done"]
    /\ tasks' = [tasks EXCEPT ![k][t] = NoTask]
    /\ UNCHANGED <<stuck, fresh, rules, process, history>>

-----------------------------------------------------------------------------
(* Timers and the auth log.  Named bound: a heartbeat, or a login, starts no *)
(* second transition while its last one is in flight.                        *)

Timeout(k) ==
    /\ Fires
    /\ knock[k].timer
    /\ Close(k)
    /\ UNCHANGED <<activeFile, fresh, rules, failures>>

HeartbeatBeforeLogin(k) ==
    /\ Fires
    /\ knock[k].poller /\ knock[k].login = NoIp
    /\ activeFile # NoIp
    /\ tasks[k]["heartbeat"] = NoTask
    /\ Transition(k, "heartbeat", activeFile)
    /\ UNCHANGED <<knock, activeFile, fresh, rules, failures>>

(* Seeded bug: a removed file is not an end.                                 *)
HeartbeatAfterLogin_StaleOnly(k) ==
    /\ Fires
    /\ knock[k].poller /\ knock[k].login # NoIp
    /\ activeFile # NoIp /\ ~fresh
    /\ Close(k)
    /\ UNCHANGED <<activeFile, fresh, rules, failures>>

HeartbeatAfterLogin(k) ==
    /\ Fires
    /\ knock[k].poller /\ knock[k].login # NoIp
    /\ activeFile = NoIp \/ ~fresh
    /\ Close(k)
    /\ UNCHANGED <<activeFile, fresh, rules, failures>>

AuthLog(k, ip) ==
    /\ Fires
    /\ knock[k].tail
    /\ tasks[k]["authlog"] = NoTask
    /\ activeFile' = ip
    /\ fresh' = TRUE
    /\ Transition(k, "authlog", ip)
    /\ UNCHANGED <<knock, rules, failures>>

-----------------------------------------------------------------------------
(* The end of the process.                                                   *)

(* A signal: closeAllKnocks takes the sessions one by one.                   *)
Stop ==
    /\ process = "up" /\ failures + deaths < MaxFailures
    /\ process' = "stopping"
    /\ UNCHANGED <<knock, tasks, stuck, activeFile, fresh, rules, history>>

CloseNext(k) ==
    /\ process = "stopping"
    /\ \A j \in Txs : tasks[j]["shutdown"] = NoTask
    /\ Fires
    /\ CloseBy(k, "shutdown")
    /\ UNCHANGED <<activeFile, fresh, rules, failures>>

AllClosed ==
    /\ process = "stopping"
    /\ \A k \in Txs : knock[k].state # "active" /\ tasks[k]["shutdown"] = NoTask
    /\ process' = "stopped"
    /\ UNCHANGED <<knock, tasks, stuck, activeFile, fresh, rules, history>>

(* The process dies, or exits two seconds after the signal, whatever is left *)
(* to do.                                                                    *)
Die ==
    /\ process # "down" /\ failures + deaths < MaxFailures
    /\ process' = "down" /\ deaths' = deaths + 1
    /\ tasks' = [k \in Txs |-> [t \in TaskNames |-> NoTask]]
    /\ stuck' = {}
    /\ knock' = [k \in Txs |-> [knock[k] EXCEPT
            !.state = IF @ \in {"opening", "active"} THEN "lost" ELSE @,
            !.timer = FALSE, !.poller = FALSE, !.tail = FALSE]]
    /\ UNCHANGED <<activeFile, fresh, rules, overlapped, failures>>

Respawn ==
    /\ process = "down"
    /\ process' = "up"
    /\ UNCHANGED <<knock, tasks, stuck, activeFile, fresh, rules, history>>

ProcessLife == Stop \/ AllClosed \/ Die \/ Respawn \/ \E k \in Txs : CloseNext(k)

-----------------------------------------------------------------------------
(* The login's own heartbeat: it writes or touches the file, or goes away.   *)
TouchActive(ip) ==
    /\ activeFile' = ip
    /\ fresh' = TRUE
    /\ UNCHANGED <<knock, tasks, stuck, rules, process, history>>

GoAway ==
    /\ fresh' = FALSE
    /\ activeFile' \in {activeFile, NoIp}
    /\ UNCHANGED <<knock, tasks, stuck, rules, process, history>>

LoginLife == GoAway \/ \E ip \in Ips : TouchActive(ip)

Session(k) ==
    \/ Executed(k)
    \/ \E t \in TaskNames : Step(k, t) \/ Transitioned(k, t) \/ Closed(k, t)
    \/ Timeout(k) \/ HeartbeatBeforeLogin(k) \/ HeartbeatAfterLogin(k)

KnockNext ==
    \/ LoginLife \/ ProcessLife
    \/ \E k \in Txs : \/ Session(k)
                      \/ \E source \in Filters : Execute(k, source)
                      \/ \E ip \in Ips : AuthLog(k, ip)

KnockSpec == KnockInit /\ [][KnockNext]_knockVars

(* Calls are answered and timers fire.  Nobody has to log in or go away.     *)
FairKnockSpec ==
    KnockSpec /\ \A k \in Txs :
        /\ WF_knockVars(Executed(k))
        /\ \A t \in TaskNames : /\ WF_knockVars(Step(k, t))
                                /\ WF_knockVars(Transitioned(k, t))
                                /\ WF_knockVars(Closed(k, t))
        /\ SF_knockVars(Timeout(k)) /\ SF_knockVars(HeartbeatAfterLogin(k))

-----------------------------------------------------------------------------
(* A close that waits for an answer that was cut off holds its session up.   *)
Ended(k) == \/ knock[k].state \in {"done", "lost"}
            \/ {<<k, "close">>, <<k, "shutdown">>} \cap stuck # {}

Opened(k) ==
    IF knock[k].state # "active" THEN {}
    ELSE Range(Ports) \X {IF knock[k].login = NoIp THEN knock[k].source ELSE knock[k].login}

(* knock.ts 2-8: as long as no two functions have overlapped, no call has    *)
(* failed and no session was lost, the firewall between calls is open        *)
(* exactly as the tracked sessions say: to the command's source before a     *)
(* login, to the login after it, to nobody after an orderly stop.            *)
RulesMatchSessions ==
    ~overlapped /\ failures = 0 /\ Idle /\ (\A k \in Txs : knock[k].state # "lost")
        => rules = UNION {Opened(k) : k \in Txs}

(* knock.ts 109-112, 281-285 and 406-411: however transitions, timeouts,     *)
(* closes and the end of the process overlap, sessions that have all been    *)
(* closed have not left their ports open to everyone.                        *)
WideRulesClosed ==
    (failures = 0 /\ Idle /\ \A k \in Txs : knock[k].state = "done") =>
        \A r \in rules : r[2] # Anywhere

(* knock.ts 5 and 331: an opened port is closed again unless a login took    *)
(* over, and then when its heartbeat has gone for good, as long as the       *)
(* process lives and the close itself is answered; a cut-off transition must *)
(* not keep a session open.                                                  *)
SessionsEnd ==
    \A k \in Txs :
        /\ knock[k].state = "active" ~> Ended(k) \/ knock[k].login # NoIp
        /\ knock[k].login # NoIp /\ [](activeFile = NoIp \/ ~fresh) ~> Ended(k)
=============================================================================
