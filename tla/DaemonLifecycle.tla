--------------------------- MODULE DaemonLifecycle ---------------------------
(***************************************************************************)
(* How a daemon (sessiond or orchd) comes to life, is replaced and goes:   *)
(* its single-instance lock and socket file (daemon-core singleton.rs,     *)
(* main.rs, boot.rs), the launchd job that starts it (src-tauri            *)
(* launchd.rs) and the application that brings it up, reloads it after an  *)
(* update and upgrades it (src-tauri lib.rs, commands.rs).                 *)
(*                                                                         *)
(* The connection itself is ClientLink's and the drain SessionHost's: here *)
(* a daemon either answers its socket or does not.  launchd, the kernel    *)
(* and the updater are external.                                           *)
(*                                                                         *)
(* A definition marked `Bug:' is a faulty variant of the next one, used by *)
(* no action.                                                              *)
(***************************************************************************)
EXTENDS Naturals

CONSTANTS
    Pids,         \* process ids of daemons, one is used again after its process ended
    Versions,     \* releases
    Speaks,       \* <<v, w>>: the application of v and the daemon of w share a protocol version
    FaultKinds,   \* what may go wrong, see Faulty
    MaxFaults,    \* how often
    MaxActs,      \* acts of the user: quitting, upgrading, retrying, updating
    None

ASSUME VersionsAssumption == Versions \subseteq Nat /\ None \notin Pids \cup Versions
ASSUME BoundsAssumption == MaxFaults \in Nat /\ MaxActs \in Nat

VARIABLES
    proc,         \* proc[p]: where the process is in main(), and its release
    lock,         \* the process that holds the flock
    path,         \* the process whose listener the socket file names, dead or alive
    job,          \* launchd: the instance it runs and whether a start is due
    bundle,       \* the release of the .app on disk
    marker,       \* daemon-applied-*.txt
    app,          \* the application: where bring_up_daemon is, its release, status and client
    faults, acts

daemon_vars == <<proc, lock, path, job, bundle, marker, app, faults, acts>>

Idle == [at |-> "none", ver |-> None]
Stages == {"none", "starting", "locked", "cleared", "serving", "draining", "unlinked"}
Holding == {"locked", "cleared", "serving", "draining", "unlinked"}
Serving(p) == p \in Pids /\ proc[p].at = "serving"
Serves == \E p \in Pids : Serving(p)

AppOff == [at |-> "off", ver |-> None, status |-> "disconnected", client |-> FALSE, conn |-> None]

DaemonInit ==
    /\ proc = [p \in Pids |-> Idle] /\ lock = None /\ path = None
    /\ job = [pid |-> None, due |-> FALSE]
    /\ bundle \in {v \in Versions : \A w \in Versions : v <= w}
    /\ marker = None /\ app = AppOff
    /\ faults = 0 /\ acts = 0

Faulty(kind) == kind \in FaultKinds /\ faults < MaxFaults /\ faults' = faults + 1
Acts == acts < MaxActs /\ acts' = acts + 1

----------------------------------------------------------------------------
(* A daemon's process *)

MoveTo(p, at) == proc' = [proc EXCEPT ![p].at = at]

\* Bug: a lock file in place of the flock, which outlives the process.
EndedKeepsLock(p, due) ==
    /\ proc' = [proc EXCEPT ![p] = Idle]
    /\ job' = IF job.pid = p THEN [pid |-> None, due |-> due] ELSE job
    /\ UNCHANGED lock

\* The process is gone: the kernel drops its flock, the socket file stays, and
\* launchd starts it again only if a start is due.
Ended(p, due) ==
    /\ proc' = [proc EXCEPT ![p] = Idle]
    /\ lock' = IF lock = p THEN None ELSE lock
    /\ job' = IF job.pid = p THEN [pid |-> None, due |-> due] ELSE job

\* Bug: the second daemon goes on without the lock.
TakeLockNot(p) ==
    /\ proc[p].at = "starting"
    /\ MoveTo(p, "locked") /\ lock' = (IF lock = None THEN p ELSE lock)
    /\ UNCHANGED <<path, job, bundle, marker, app, faults, acts>>

\* acquire_single_instance_lock: a second daemon exits with SUCCESS.
TakeLock(p) ==
    /\ proc[p].at = "starting"
    /\ IF lock = None THEN MoveTo(p, "locked") /\ lock' = p /\ UNCHANGED job
       ELSE Ended(p, job.due)
    /\ UNCHANGED <<path, bundle, marker, app, faults, acts>>

\* bind_fresh: unlinks whatever is there, an answering socket included.
ClearPath(p) ==
    /\ proc[p].at = "locked"
    /\ path' = None /\ MoveTo(p, "cleared")
    /\ UNCHANGED <<lock, job, bundle, marker, app, faults, acts>>

Bind(p) ==
    /\ proc[p].at = "cleared"
    /\ path' = p /\ MoveTo(p, "serving")
    /\ UNCHANGED <<lock, job, bundle, marker, app, faults, acts>>

\* A step of main() or run() fails before serve: exit FAILURE, which is not a
\* crash to KeepAlive.
Fail(p) ==
    /\ proc[p].at \in {"starting", "locked", "cleared"}
    /\ Faulty("fail")
    /\ Ended(p, job.due)
    /\ UNCHANGED <<path, bundle, marker, app, acts>>

\* SIGTERM or SIGINT of an operator.
Stop(p) ==
    /\ Serving(p) /\ Acts /\ MoveTo(p, "draining")
    /\ UNCHANGED <<lock, path, job, bundle, marker, app, faults>>

\* The end of run: remove_file takes whatever the path names.
Unlink(p) ==
    /\ proc[p].at = "draining"
    /\ path' = None /\ MoveTo(p, "unlinked")
    /\ UNCHANGED <<lock, job, bundle, marker, app, faults, acts>>

\* The lock goes with the process, after the socket file.
Exit(p) ==
    /\ proc[p].at = "unlinked" /\ Ended(p, job.due)
    /\ UNCHANGED <<path, bundle, marker, app, faults, acts>>

\* A signal ends the process at any point; KeepAlive { Crashed } starts it
\* again for the signals launchd takes for a crash.
Crash(p) ==
    /\ proc[p].at # "none"
    /\ Faulty("crash")
    /\ \E due \in {job.due, TRUE} : Ended(p, due)
    /\ UNCHANGED <<path, bundle, marker, app, acts>>

----------------------------------------------------------------------------
(* launchd *)

Unused(p) == proc[p].at = "none" /\ app.conn # p

\* launchd starts the instance that is due, from the .app on disk.
Spawn(p) ==
    /\ job.due /\ job.pid = None /\ Unused(p)
    /\ proc' = [proc EXCEPT ![p] = [at |-> "starting", ver |-> bundle]]
    /\ job' = [pid |-> p, due |-> FALSE]
    /\ UNCHANGED <<lock, path, bundle, marker, app, faults, acts>>

\* A daemon nobody asked launchd for: the binary run by hand.
StartByHand(p) ==
    /\ Unused(p) /\ Faulty("stray")
    /\ \E v \in Versions : proc' = [proc EXCEPT ![p] = [at |-> "starting", ver |-> v]]
    /\ UNCHANGED <<lock, path, job, bundle, marker, app, acts>>

\* kickstart without -k leaves a running instance alone.
Kickstart == job' = [job EXCEPT !.due = (job.due \/ job.pid = None)]

\* kickstart -k: the running instance is signalled and a start is due.  A
\* serving daemon takes SIGTERM and drains, or is killed at once.
KickstartForce ==
    \/ /\ job.pid # None /\ proc[job.pid].at \in {"serving", "draining", "unlinked"}
       /\ proc' = IF Serving(job.pid) THEN [proc EXCEPT ![job.pid].at = "draining"] ELSE proc
       /\ job' = [job EXCEPT !.due = TRUE]
       /\ UNCHANGED lock
    \/ job.pid # None /\ Ended(job.pid, TRUE)
    \/ /\ job.pid = None
       /\ job' = [job EXCEPT !.due = TRUE]
       /\ UNCHANGED <<proc, lock>>

----------------------------------------------------------------------------
(* The application *)

At(stage) == app.at = stage
Goes(stage) == app' = [app EXCEPT !.at = stage]
Runs(status) == app' = [app EXCEPT !.at = "run", !.status = status]

Launch ==
    /\ At("off")
    /\ app' = [AppOff EXCEPT !.at = "ensure", !.ver = bundle]
    /\ UNCHANGED <<proc, lock, path, job, bundle, marker, faults, acts>>

\* The application ends, or is killed, wherever it is.
Quit ==
    /\ ~At("off") /\ Acts
    /\ app' = AppOff
    /\ UNCHANGED <<proc, lock, path, job, bundle, marker, faults>>

\* The updater replaces the .app under the running application.
Update ==
    /\ Acts
    /\ bundle' \in {v \in Versions : v > bundle}
    /\ UNCHANGED <<proc, lock, path, job, marker, app, faults>>

\* ensure_daemon_running: install, bootstrap, kickstart.
EnsureRunning ==
    /\ At("ensure")
    /\ \/ Kickstart /\ Goes("reconcile") /\ UNCHANGED faults
       \/ Faulty("launchctl") /\ Runs("disconnected") /\ (Kickstart \/ UNCHANGED job)
    /\ UNCHANGED <<proc, lock, path, bundle, marker, acts>>

\* Bug: a marker of another release is replaced without reloading the daemon.
ReconcileNoReload ==
    /\ At("reconcile")
    /\ IF marker = app.ver THEN Goes("connect") ELSE Goes("mark")
    /\ UNCHANGED <<proc, lock, path, job, bundle, marker, faults, acts>>

\* reconcile_daemon_version up to the write of the marker: no marker means a
\* first launch, another release's marker reloads the daemon; a failed reload
\* is logged, whether or not launchd acted on it.
Reconcile ==
    /\ At("reconcile")
    /\ \/ /\ marker = app.ver /\ Goes("connect")
          /\ UNCHANGED <<proc, lock, job, faults>>
       \/ /\ marker = None /\ Goes("mark")
          /\ UNCHANGED <<proc, lock, job, faults>>
       \/ /\ marker \notin {None, app.ver} /\ KickstartForce
          /\ \/ Goes("mark") /\ UNCHANGED faults
             \/ Goes("connect") /\ Faulty("launchctl")
       \/ /\ marker \notin {None, app.ver} /\ Goes("connect") /\ Faulty("launchctl")
          /\ UNCHANGED <<proc, lock, job>>
    /\ UNCHANGED <<path, bundle, marker, acts>>

\* The write's error is dropped.
WriteMarker ==
    /\ At("mark") /\ Goes("connect")
    /\ \/ marker' = app.ver /\ UNCHANGED faults
       \/ Faulty("write") /\ UNCHANGED marker
    /\ UNCHANGED <<proc, lock, path, job, bundle, acts>>

\* What a connect and its handshake meet at the socket.
Meet(p) ==
    /\ path = p /\ Serving(p)
    /\ app' = IF <<app.ver, proc[p].ver>> \in Speaks
                THEN [app EXCEPT !.at = "run", !.status = "connected", !.client = TRUE, !.conn = p]
                ELSE [app EXCEPT !.at = "run", !.status = "incompatible", !.conn = None]

\* connect_with_retry: BOOT_CONNECT_ATTEMPTS run out with no daemon answering.
Connect ==
    /\ At("connect")
    /\ \/ \E p \in Pids : Meet(p)
       \/ ~Serves /\ Runs("disconnected")
    /\ UNCHANGED <<proc, lock, path, job, bundle, marker, faults, acts>>

\* on_conn: the connection drops.
Lose ==
    /\ At("run") /\ app.conn # None /\ ~Serving(app.conn)
    /\ app' = [app EXCEPT !.status = "disconnected", !.conn = None]
    /\ UNCHANGED <<proc, lock, path, job, bundle, marker, faults, acts>>

\* A client that was once connected tries again until it meets a daemon it
\* cannot talk to.
Reconnect ==
    /\ At("run") /\ app.client /\ app.status = "disconnected"
    /\ \E p \in Pids : Meet(p)
    /\ UNCHANGED <<proc, lock, path, job, bundle, marker, faults, acts>>

\* orchd_reconnect: the slot is emptied and bring_up_orchd runs again.
Retry ==
    /\ At("run") /\ app.status # "connected" /\ Acts
    /\ app' = [app EXCEPT !.at = "ensure", !.client = FALSE]
    /\ UNCHANGED <<proc, lock, path, job, bundle, marker, faults>>

\* upgrade_daemon behind the consent dialog: DaemonShutdown over the client the
\* application has; an old daemon does not know the request.
Upgrade ==
    /\ At("run") /\ Acts /\ Goes("force")
    /\ \/ app.conn # None /\ Serving(app.conn) /\ MoveTo(app.conn, "draining")
       \/ UNCHANGED proc
    /\ UNCHANGED <<lock, path, job, bundle, marker, faults>>

\* kickstart_force, then app.restart(); its failure is the one reported.
ForceUpgrade ==
    /\ At("force")
    /\ \/ /\ KickstartForce /\ UNCHANGED faults
          /\ app' = [AppOff EXCEPT !.at = "ensure", !.ver = bundle]
       \/ /\ Faulty("launchctl") /\ Goes("run")
          /\ KickstartForce \/ UNCHANGED <<proc, lock, job>>
    /\ UNCHANGED <<path, bundle, marker, acts>>

----------------------------------------------------------------------------
Process(p) ==
    TakeLock(p) \/ ClearPath(p) \/ Bind(p) \/ Unlink(p) \/ Exit(p)

Application ==
    \/ EnsureRunning \/ Reconcile \/ WriteMarker \/ Connect \/ Lose \/ Reconnect \/ ForceUpgrade

User == Launch \/ Quit \/ Update \/ Retry \/ Upgrade

DaemonNext ==
    \/ \E p \in Pids :
         Process(p) \/ Fail(p) \/ Stop(p) \/ Crash(p) \/ Spawn(p) \/ StartByHand(p)
    \/ Application \/ User

DaemonSpec == DaemonInit /\ [][DaemonNext]_daemon_vars

----------------------------------------------------------------------------
(* What the daemons promise *)

Processes == [Pids -> [at : Stages, ver : Versions \cup {None}]]
Jobs == [pid : Pids \cup {None}, due : BOOLEAN]
AppStages == {"off", "ensure", "reconcile", "mark", "connect", "run", "force"}
Statuses == {"connected", "disconnected", "incompatible"}
Apps == [at : AppStages, ver : Versions \cup {None}, status : Statuses, client : BOOLEAN,
         conn : Pids \cup {None}]

DaemonTypeOK ==
    /\ proc \in Processes /\ job \in Jobs /\ app \in Apps
    /\ lock \in Pids \cup {None} /\ path \in Pids \cup {None}
    /\ bundle \in Versions /\ marker \in Versions \cup {None}
    /\ faults \in 0..MaxFaults /\ acts \in 0..MaxActs

\* From the lock to its end a daemon is alone, and while one serves, the socket
\* file is its own: no starting daemon and no leaving one unlinks or rebinds
\* the socket of another.
SoleServer ==
    /\ \A p \in Pids : proc[p].at \in Holding => lock = p
    /\ \A p \in Pids : Serving(p) => path = p

\* The marker's promise, on which a launch decides to leave the daemon alone:
\* the instance launchd runs, unless on its way out, is not older than the
\* release it names.
MarkerHonest ==
    \A p \in Pids :
      marker # None /\ job.pid = p /\ proc[p].at \notin {"none", "draining", "unlinked"}
        => proc[p].ver >= marker

\* Only the first marker can lie: one that is there and honest stays so, over
\* updates, crashes, failed reloads and failed writes.
HonestyKept == [][marker # None /\ MarkerHonest => MarkerHonest']_daemon_vars

\* A start that is due, after the last fault and with no daemon but launchd's
\* about, ends with a daemon that serves: the instance on its way out neither
\* keeps the lock from its successor nor takes the socket away from it.
OnlyTheJob == \A p \in Pids : proc[p].at # "none" => job.pid = p
DueStartServes == (job.due /\ OnlyTheJob /\ faults = MaxFaults) ~> Serves
=============================================================================
