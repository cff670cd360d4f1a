-------------------------------- MODULE McpGate --------------------------------
(***************************************************************************)
(* The gate every outside call of orchd passes (trust.rs, mcp/invoke.rs,   *)
(* mcp/lifecycle.rs, mcp/registry.rs, connectors/adapter.rs,               *)
(* research/mod.rs).  A call reads the store and is authorized under the   *)
(* database mutex, dials with the mutex released, and writes its           *)
(* invocation row under the mutex again: servers, policies, consents and   *)
(* ideas change in between.  McpCallTool and ConnectorInvoke hold the lock *)
(* of their policy from before the gate until the row is written; a        *)
(* research run passes the same gate in a task of its own.                 *)
(*                                                                         *)
(* A target is what a consent is given for: the url, or the hash of the    *)
(* binary and its arguments.  A server has one tool.  Costs are 0 or 1.    *)
(* SQLite does not fail here; bad arguments and a Keychain that fails are  *)
(* refusals.  A definition marked `Bug:' is a faulty variant of the next.  *)
(***************************************************************************)
EXTENDS Naturals, FiniteSets

CONSTANTS
    Servers, Accounts, Projects, Ideas,
    Calls,        \* attempts, each used once
    Targets,
    Rows,         \* the [rate, spend] pairs a policy row may hold
    MaxVerbs,     \* bound on the owner's verbs and on the changes from outside
    None

VARIABLES
    archived,     \* archived projects
    server,       \* server[s]: row, consent and tool of an MCP server
    account,      \* account[a] in {"none", "live", "gone"}
    idea,         \* idea[i] in {"captured", "researching", "gone"}
    policy,       \* policy[k]: the row of a scope, or None
    row,          \* row[c]: the invocation row of an attempt, "none", "free" or "paid"
    run,          \* run[c]: the status of a research_run row, or "none"
    call,         \* call[c]: the task of an attempt and what it has read
    lock,         \* lock[k]: the attempt that holds the lock of a policy
    verbs

gate_vars == <<archived, server, account, idea, policy, row, run, call, lock, verbs>>

Homes == Projects \cup {None}
Global == <<"global", None>>
Keys == {Global} \cup {"project"} \X Projects \cup {"server"} \X Servers

ASSUME CallsAssumption == IsFiniteSet(Calls) /\ None \notin Calls \cup Keys
ASSUME RowsAssumption == Rows \subseteq [rate : Nat, spend : Nat] /\ None \notin Rows
ASSUME VerbsAssumption == MaxVerbs \in Nat

NoServer == [st |-> "none", home |-> None, enabled |-> TRUE, target |-> None,
             consent |-> None, tool |-> "none"]
Added(p, t) == [NoServer EXCEPT !.st = "live", !.home = p, !.target = t]
Ready(p, t) == [Added(p, t) EXCEPT !.consent = t, !.tool = "on"]

\* `key' is the policy an attempt queues for, `gov' the one it is judged by.
NoCall == [pc |-> "new", kind |-> "tool", on |-> None, project |-> None, idea |-> None,
           key |-> None, gov |-> None, aged |-> FALSE]

Live(s) == server[s].st = "live"
Active(p) == p \notin archived
Exists(x) == IF x \in Servers THEN Live(x) ELSE account[x] = "live"

\* resolve_policy: server over project over global, the whole row.
Policy(x, p) ==
    IF x \in Servers /\ policy[<<"server", x>>] # None THEN <<"server", x>>
    ELSE IF p # None /\ policy[<<"project", p>>] # None THEN <<"project", p>>
    ELSE IF policy[Global] # None THEN Global ELSE None

\* The rows of the last minute in the scope of a policy.
InScope(k, c) == \/ k = Global
                 \/ k = <<"project", call[c].project>>
                 \/ k = <<"server", call[c].on>>
Counted(k) == {c \in Calls : row[c] # "none" /\ ~call[c].aged /\ InScope(k, c)}

\* check_policy_caps.
Breached(k) ==
    /\ k # None
    /\ \/ Cardinality(Counted(k)) >= policy[k].rate
       \/ Cardinality({c \in Counted(k) : row[c] = "paid"}) >= policy[k].spend

----------------------------------------------------------------------------
\* The store as an earlier life of the daemon left it.
GateInit ==
    /\ archived = {}
    /\ server \in [Servers -> {NoServer} \cup {Ready(p, t) : p \in Homes, t \in Targets}]
    /\ account \in [Accounts -> {"none", "live"}]
    /\ idea = [i \in Ideas |-> "captured"]
    /\ policy \in [Keys -> Rows \cup {None}]
    /\ row = [c \in Calls |-> "none"] /\ run = [c \in Calls |-> "none"]
    /\ call = [c \in Calls |-> NoCall]
    /\ lock = [k \in Keys |-> None]
    /\ verbs = 0

----------------------------------------------------------------------------
(* The owner's verbs, each one transaction under the database mutex *)

Verb ==
    /\ verbs < MaxVerbs
    /\ verbs' = verbs + 1
    /\ UNCHANGED <<call, lock>>

WriteServer(s, new) ==
    /\ Verb
    /\ server' = [server EXCEPT ![s] = new]
    /\ UNCHANGED <<archived, account, idea, policy, row, run>>

AddServer(s, p, t) ==
    /\ server[s].st = "none" /\ Active(p)
    /\ WriteServer(s, Added(p, t))

\* A patch of url, command, args or env takes the consents with it.
UpdateServer(s, t) ==
    /\ Live(s) /\ Active(server[s].home)
    /\ WriteServer(s, [server[s] EXCEPT !.target = t, !.consent = None])

SetServerEnabled(s) ==
    /\ Live(s) /\ Active(server[s].home)
    /\ WriteServer(s, [server[s] EXCEPT !.enabled = ~@])

\* Neither this nor RevokeConsent asks for the project.
SetToolEnabled(s) ==
    /\ Live(s) /\ server[s].tool # "none"
    /\ WriteServer(s, [server[s] EXCEPT !.tool = IF @ = "on" THEN "off" ELSE "on"])

\* The target as the row and the disk have it now.
GrantConsent(s) ==
    /\ Live(s) /\ Active(server[s].home)
    /\ WriteServer(s, [server[s] EXCEPT !.consent = server[s].target])

RevokeConsent(s) ==
    /\ Live(s)
    /\ WriteServer(s, [server[s] EXCEPT !.consent = None])

\* A stdio server's binary is replaced on disk.
ReplaceBinary(s, t) ==
    /\ Live(s)
    /\ WriteServer(s, [server[s] EXCEPT !.target = t])

\* ON DELETE CASCADE: tools, consents, invocations and research runs go along;
\* the policy row stays.
DeleteServer(s) ==
    /\ Live(s) /\ Active(server[s].home)
    /\ Verb
    /\ server' = [server EXCEPT ![s] = [NoServer EXCEPT !.st = "gone"]]
    /\ row' = [c \in Calls |-> IF call[c].on = s THEN "none" ELSE row[c]]
    /\ run' = [c \in Calls |-> IF call[c].on = s THEN "none" ELSE run[c]]
    /\ UNCHANGED <<archived, account, idea, policy>>

AddAccount(a) ==
    /\ account[a] = "none"
    /\ Verb
    /\ account' = [account EXCEPT ![a] = "live"]
    /\ UNCHANGED <<archived, server, idea, policy, row, run>>

DeleteAccount(a) ==
    /\ account[a] = "live"
    /\ Verb
    /\ account' = [account EXCEPT ![a] = "gone"]
    /\ row' = [c \in Calls |-> IF call[c].on = a THEN "none" ELSE row[c]]
    /\ UNCHANGED <<archived, server, idea, policy, run>>

SetPolicy(k, r) ==
    /\ k[1] = "project" => Active(k[2])
    /\ k[1] = "server" => Live(k[2]) /\ Active(server[k[2]].home)
    /\ Verb
    /\ policy' = [policy EXCEPT ![k] = r]
    /\ UNCHANGED <<archived, server, account, idea, row, run>>

DeleteIdea(i) ==
    /\ idea[i] # "gone"
    /\ Verb
    /\ idea' = [idea EXCEPT ![i] = "gone"]
    /\ run' = [c \in Calls |-> IF call[c].idea = i THEN "none" ELSE run[c]]
    /\ UNCHANGED <<archived, server, account, policy, row>>

SetArchived(p) ==
    /\ Verb
    /\ archived' = IF p \in archived THEN archived \ {p} ELSE archived \cup {p}
    /\ UNCHANGED <<server, account, idea, policy, row, run>>

----------------------------------------------------------------------------
(* An attempt *)

Store == <<archived, server, account, policy, row>>

Begin(c, pc, kind, x, p, i, key) ==
    /\ call[c].pc = "new"
    /\ call' = [call EXCEPT ![c] = [NoCall EXCEPT !.pc = pc, !.kind = kind, !.on = x,
                                                  !.project = p, !.idea = i, !.key = key]]
    /\ UNCHANGED <<Store, lock, verbs>>

\* McpCallTool, ConnectorInvoke: policy_cap_guard resolves the policy under the
\* database mutex, and queues for its lock without it.
Attempt(c, x, p) ==
    LET k == Policy(x, p) IN
    /\ Begin(c, IF k = None THEN "gate" ELSE "queued",
             IF x \in Servers THEN "tool" ELSE "connector", x, p, None, k)
    /\ UNCHANGED <<idea, run>>

\* McpConnect counts against no policy.
Connect(c, s) ==
    /\ Begin(c, "gate", "connect", s, None, None, None)
    /\ UNCHANGED <<idea, run>>

\* start_research_run commits the row and the flip of the idea; then the driver
\* is spawned.
StartRun(c, s, p, i) ==
    /\ idea[i] # "gone" /\ Active(p) /\ Live(s)
    /\ Begin(c, "spawned", "research", s, p, i, None)
    /\ run' = [run EXCEPT ![c] = "pending"]
    /\ idea' = [idea EXCEPT ![i] = "researching"]

Move(c, pc) == call' = [call EXCEPT ![c].pc = pc]

\* run_research, phase 1: a run whose row is gone ends here.
SetRunning(c) ==
    /\ call[c].pc = "spawned"
    /\ IF run[c] = "none" THEN Move(c, "over") /\ UNCHANGED run
       ELSE Move(c, "gate") /\ run' = [run EXCEPT ![c] = "running"]
    /\ UNCHANGED <<Store, idea, lock, verbs>>

AcquireLock(c) ==
    /\ call[c].pc = "queued" /\ lock[call[c].key] = None
    /\ lock' = [lock EXCEPT ![call[c].key] = c]
    /\ Move(c, "gate")
    /\ UNCHANGED <<Store, idea, run, verbs>>

Released(c) == [k \in Keys |-> IF lock[k] = c THEN None ELSE lock[k]]
Ended(c, outcome) == IF call[c].kind = "research" THEN outcome ELSE "over"

\* call_tool, connect and invoke, phase 1: enabled, the tool allowed, the caps,
\* consent for the target as the row has it now.
Admissible(c) ==
    LET x == call[c].on IN
    /\ Exists(x)
    /\ call[c].kind \in {"tool", "research"} => server[x].tool = "on"
    /\ call[c].kind # "connect" => ~Breached(Policy(x, call[c].project))
    /\ x \in Servers => server[x].enabled /\ server[x].consent = server[x].target

\* Bug: the lock covers the check alone.
AdmitUnlocked(c) ==
    /\ call[c].pc = "gate" /\ Admissible(c)
    /\ call' = [call EXCEPT ![c].pc = "dialing",
                            ![c].gov = IF call[c].kind = "connect" THEN None
                                       ELSE Policy(call[c].on, call[c].project)]
    /\ lock' = Released(c)
    /\ UNCHANGED <<Store, idea, run, verbs>>

Admit(c) ==
    /\ call[c].pc = "gate" /\ Admissible(c)
    /\ call' = [call EXCEPT ![c].pc = "dialing",
                            ![c].gov = IF call[c].kind = "connect" THEN None
                                       ELSE Policy(call[c].on, call[c].project)]
    /\ UNCHANGED <<Store, idea, run, lock, verbs>>

\* Bug: an early return forgets the lock.
RefuseLocked(c) ==
    /\ call[c].pc = "gate"
    /\ Move(c, Ended(c, "failing"))
    /\ UNCHANGED <<Store, idea, run, lock, verbs>>

\* Denied, or bad arguments, or no bearer: no row is written.
Refuse(c) ==
    /\ call[c].pc = "gate"
    /\ Move(c, Ended(c, "failing"))
    /\ lock' = Released(c)
    /\ UNCHANGED <<Store, idea, run, verbs>>

\* Phase 3: one row, whatever the network answered; the foreign key refuses the
\* row of a server or an account deleted meanwhile.  The lock is let go.
Record(c, outcome, cost) ==
    LET kept == Exists(call[c].on) IN
    /\ call[c].pc = "dialing" /\ call[c].kind # "connect"
    /\ cost = "paid" => outcome = "finishing" /\ call[c].kind # "connector"
    /\ row' = IF kept THEN [row EXCEPT ![c] = cost] ELSE row
    /\ Move(c, Ended(c, IF kept THEN outcome ELSE "failing"))
    /\ lock' = Released(c)
    /\ UNCHANGED <<archived, server, account, policy, idea, run, verbs>>

\* McpConnect, phase 3: upsert_mcp_tools keeps the switch of a tool it knew.
CacheTools(c, listed) ==
    LET s == call[c].on IN
    /\ call[c].pc = "dialing" /\ call[c].kind = "connect"
    /\ server' = IF Live(s) /\ Active(server[s].home)
                 THEN [server EXCEPT ![s].tool =
                         IF ~listed THEN "none" ELSE IF @ = "none" THEN "on" ELSE @]
                 ELSE server
    /\ Move(c, "over")
    /\ UNCHANGED <<archived, account, idea, policy, row, run, lock, verbs>>

\* The peer did not answer the handshake or tools/list in time.
ConnectFails(c) ==
    /\ call[c].pc = "dialing" /\ call[c].kind = "connect"
    /\ Move(c, "over")
    /\ UNCHANGED <<Store, idea, run, lock, verbs>>

\* run_research, phase 3.
Settle(c) ==
    /\ call[c].pc \in {"finishing", "failing"}
    /\ run' = IF run[c] = "none" THEN run
              ELSE [run EXCEPT ![c] = IF call[c].pc = "finishing" THEN "done" ELSE "failed"]
    /\ Move(c, "over")
    /\ UNCHANGED <<Store, idea, lock, verbs>>

\* A minute passes since the call started.
Age(c) ==
    /\ call[c].pc = "dialing" \/ row[c] # "none"
    /\ ~call[c].aged
    /\ call' = [call EXCEPT ![c].aged = TRUE]
    /\ UNCHANGED <<Store, idea, run, lock, verbs>>

Lost(c) == IF call[c].pc = "new" THEN call[c] ELSE [call[c] EXCEPT !.pc = "over"]

\* Bug: the boot overlooks the runs whose driver had not started.
CrashRunningOnly ==
    /\ verbs < MaxVerbs /\ verbs' = verbs + 1
    /\ call' = [c \in Calls |-> Lost(c)]
    /\ lock' = [k \in Keys |-> None]
    /\ run' = [c \in Calls |-> IF run[c] = "running" THEN "failed" ELSE run[c]]
    /\ UNCHANGED <<Store, idea>>

\* The daemon dies, or exits past its detached tasks; the boot fails the runs
\* nobody drives before it serves.
Crash ==
    /\ verbs < MaxVerbs /\ verbs' = verbs + 1
    /\ call' = [c \in Calls |-> Lost(c)]
    /\ lock' = [k \in Keys |-> None]
    /\ run' = [c \in Calls |-> IF run[c] \in {"pending", "running"} THEN "failed" ELSE run[c]]
    /\ UNCHANGED <<Store, idea>>

----------------------------------------------------------------------------
ServerVerb(s) ==
    \/ SetServerEnabled(s) \/ SetToolEnabled(s) \/ GrantConsent(s) \/ RevokeConsent(s)
    \/ DeleteServer(s)
    \/ \E t \in Targets : UpdateServer(s, t) \/ ReplaceBinary(s, t)
    \/ \E t \in Targets, p \in Homes : AddServer(s, p, t)

OwnerVerb ==
    \/ \E s \in Servers : ServerVerb(s)
    \/ \E a \in Accounts : AddAccount(a) \/ DeleteAccount(a)
    \/ \E k \in Keys, r \in Rows : SetPolicy(k, r)
    \/ \E i \in Ideas : DeleteIdea(i)
    \/ \E p \in Projects : SetArchived(p)

Arrive(c) ==
    \/ \E x \in Servers \cup Accounts, p \in Homes : Attempt(c, x, p)
    \/ \E s \in Servers : Connect(c, s)
    \/ \E s \in Servers, p \in Homes, i \in Ideas : StartRun(c, s, p, i)

\* The network answers or the timeout does.
Return(c) ==
    \/ \E outcome \in {"finishing", "failing"}, cost \in {"free", "paid"} : Record(c, outcome, cost)
    \/ \E listed \in BOOLEAN : CacheTools(c, listed)
    \/ ConnectFails(c)

Gate(c) == Admit(c) \/ Refuse(c)

GateNext ==
    \/ OwnerVerb \/ Crash
    \/ \E c \in Calls :
          \/ Arrive(c) \/ SetRunning(c) \/ AcquireLock(c) \/ Gate(c)
          \/ Return(c) \/ Settle(c) \/ Age(c)

GateSpec == GateInit /\ [][GateNext]_gate_vars

----------------------------------------------------------------------------
Busy == {"queued", "spawned", "gate", "dialing", "finishing", "failing"}

ServerRows == [st : {"none", "live", "gone"}, home : Homes, enabled : BOOLEAN,
               target : Targets \cup {None}, consent : Targets \cup {None},
               tool : {"none", "on", "off"}]
Attempts == [pc : Busy \cup {"new", "over"}, kind : {"tool", "connector", "connect", "research"},
             on : Servers \cup Accounts \cup {None}, project : Homes,
             idea : Ideas \cup {None}, key : Keys \cup {None}, gov : Keys \cup {None},
             aged : BOOLEAN]

GateTypeOK ==
    /\ archived \subseteq Projects
    /\ server \in [Servers -> ServerRows]
    /\ account \in [Accounts -> {"none", "live", "gone"}]
    /\ idea \in [Ideas -> {"captured", "researching", "gone"}]
    /\ policy \in [Keys -> Rows \cup {None}]
    /\ row \in [Calls -> {"none", "free", "paid"}]
    /\ run \in [Calls -> {"none", "pending", "running", "done", "failed"}]
    /\ call \in [Calls -> Attempts]
    /\ lock \in [Keys -> Calls \cup {None}]
    /\ verbs \in 0 .. MaxVerbs

Admitted(c) == call[c].pc = "gate" /\ call'[c].pc = "dialing"

\* The calls of the last minute a policy let through, in flight or recorded.
Started(k, c) ==
    /\ call[c].gov = k /\ ~call[c].aged
    /\ call[c].pc = "dialing" \/ row[c] # "none"

\* A call in flight may still turn out to cost.
UnderCap(k, others) ==
    /\ Cardinality(others) < policy[k].rate
    /\ Cardinality({d \in others : row[d] # "free"}) < policy[k].spend

\* A call that queued for the policy it is judged by starts only while fewer
\* calls than its rate, and less cost than its spend, have started in the last
\* minute under that lock: no burst passes the caps.
CapHolds ==
    [][\A c \in Calls, k \in Keys :
          Admitted(c) /\ call[c].key = k /\ call'[c].gov = k =>
             UnderCap(k, {d \in Calls : Started(k, d) /\ call[d].key = k})]_gate_vars

\* The same for a research run and every call its policy judges.
RunsUnderCap ==
    [][\A c \in Calls, k \in Keys :
          Admitted(c) /\ call[c].kind = "research" /\ call'[c].gov = k =>
             UnderCap(k, {d \in Calls : Started(k, d)})]_gate_vars

\* A research run shown as pending or running is being driven, across deletions,
\* refusals and restarts of the daemon.
RunHasDriver == \A c \in Calls : run[c] \in {"pending", "running"} => call[c].pc \in Busy

\* The lock of a policy is held by a call that is between its gate and its row,
\* so whoever queues for it gets it: no denial, lost row or crash keeps it.
LockServes ==
    \A k \in Keys : lock[k] # None =>
        call[lock[k]].pc \in {"gate", "dialing"} /\ call[lock[k]].key = k
=============================================================================
