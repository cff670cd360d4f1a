------------------------------- MODULE MCDaemon -------------------------------
(***************************************************************************)
(* A daemon's end and its replacement: a behaviour is of the life of       *)
(* daemons and the application, of the sessions and the shutdown of        *)
(* sessiond, or of a terminal over reconnects, `part', while the others    *)
(* keep their initial states.  A behaviour of the sessions has a client's  *)
(* close or a restart, not both.                                           *)
(***************************************************************************)
EXTENDS DaemonLifecycle, Terminals

CONSTANTS
    Sessions, Workspaces, w1, NoSession, NoWorkspace, NoRow,
    MaxOut, MaxCloses, MaxSweeps, MaxBoots,
    a1, a2, a3, t1, t2

VARIABLES
    child, reading, wait, active, life, ring, map, fin, create, live, closing, pend, close,
    remove, sweep, boot, down, ws, row, gone, closes, sweeps, boots,
    part

AllInOne == [s \in Sessions |-> w1]

Session == INSTANCE SessionHost WITH WsOf <- AllInOne

session_vars == <<child, reading, wait, active, life, ring, map, fin, create, live, closing, pend,
                  close, remove, sweep, boot, down, ws, row, gone, closes, sweeps, boots>>

all_vars == <<daemon_vars, session_vars, terminal_vars, part>>

Releases == {1, 2}
\* An application speaks to the daemon of its release and of the one before.
Compatible == {<<1, 1>>, <<2, 2>>, <<2, 1>>}

Init ==
    /\ DaemonInit /\ Session!Init /\ TerminalInit
    /\ part \in {"daemon", "session", "window"}

Next ==
    /\ IF part = "daemon" THEN DaemonNext ELSE UNCHANGED daemon_vars
    /\ IF part = "session" THEN Session!Next /\ closes' + boots' <= 2
       ELSE UNCHANGED session_vars
    /\ IF part = "window" THEN TerminalNext ELSE UNCHANGED terminal_vars
    /\ UNCHANGED part

\* The fairness of each part, in its behaviours.
Spec ==
    /\ Init /\ [][Next]_all_vars
    /\ \A p \in Pids : WF_daemon_vars(part = "daemon" /\ Process(p))
    /\ WF_daemon_vars(part = "daemon" /\ \E p \in Pids : Spawn(p))
    /\ WF_daemon_vars(part = "daemon" /\ Application)
    /\ \A s \in Sessions : WF_session_vars(part = "session" /\ Session!Thread(s))
    /\ \A k \in Session!Closers : WF_session_vars(part = "session" /\ Session!CloseStep(k))
    /\ WF_session_vars(part = "session" /\ Session!RemoveStep)
    /\ WF_session_vars(part = "session" /\ Session!ShutdownStep)

\* A behaviour of the window attaches or writes, which share the connection's state alone.
\* Attempts and writers are alike: each is used after the one before.
Apart ==
    /\ \/ \A a \in Attempts : try[a].st = "new"
       \/ \A w \in Writers : writer[w].st = "new"
    /\ try[a2].st # "new" => try[a1].st # "new"
    /\ try[a3].st # "new" => try[a2].st # "new"
    /\ writer[t2].st # "new" => writer[t1].st # "new"

CloseReturns == Session!CloseReturns
ShutdownCompletes == Session!ShutdownCompletes
=============================================================================
