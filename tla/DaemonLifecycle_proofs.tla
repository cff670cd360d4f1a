------------------------ MODULE DaemonLifecycle_proofs ------------------------
(***************************************************************************)
(* DaemonLifecycle is type correct, one daemon at a time holds the lock    *)
(* and the socket file, and a marker that is honest stays so, for any      *)
(* processes, releases, faults and acts of the user.                       *)
(***************************************************************************)
EXTENDS DaemonLifecycle, TLAPS

USE VersionsAssumption, BoundsAssumption

\* What launchd runs is a process, and every process is of some release.
JobInv ==
    /\ job.pid # None => proc[job.pid].at # "none"
    /\ \A p \in Pids : proc[p].at # "none" => proc[p].ver \in Versions

\* Nothing is of a later release than the .app on disk.
ReleaseInv ==
    /\ app.at # "off" => app.ver \in Versions /\ app.ver <= bundle
    /\ marker # None => marker <= bundle

\* Launchd's instance p is neither gone nor on its way out.
Stays(p) == job.pid = p /\ proc[p].at \notin {"none", "draining", "unlinked"}

\* Where the marker is about to be replaced, the instance that stays is of the
\* application's release or a later one.
MarkInv ==
    app.at = "mark" /\ marker # None => \A p \in Pids : Stays(p) => proc[p].ver >= app.ver

HonestyInv == DaemonTypeOK /\ JobInv /\ ReleaseInv /\ MarkInv

\* No process becomes launchd's staying instance, or changes its release.
StaysKept == \A q \in Pids : Stays(q)' => Stays(q) /\ proc'[q].ver = proc[q].ver

----------------------------------------------------------------------------
(* Types *)

LEMMA ProcType ==
    ASSUME proc \in Processes, NEW p \in Pids, NEW at \in Stages
    PROVE  /\ [proc EXCEPT ![p].at = at] \in Processes
           /\ [proc EXCEPT ![p] = Idle] \in Processes
           /\ \A v \in Versions : [proc EXCEPT ![p] = [at |-> at, ver |-> v]] \in Processes
BY DEF Processes, Idle, Stages

LEMMA JobType ==
    ASSUME job \in Jobs
    PROVE  /\ \A due \in BOOLEAN : [job EXCEPT !.due = due] \in Jobs
           /\ \A p \in Pids \cup {None}, due \in BOOLEAN : [pid |-> p, due |-> due] \in Jobs
           /\ job.due \in BOOLEAN /\ job.pid \in Pids \cup {None}
BY DEF Jobs

LEMMA AppType ==
    ASSUME app \in Apps, NEW at \in AppStages, NEW status \in Statuses
    PROVE  /\ [app EXCEPT !.at = at] \in Apps
           /\ [app EXCEPT !.at = at, !.status = status] \in Apps
           /\ [app EXCEPT !.status = status, !.conn = None] \in Apps
           /\ [app EXCEPT !.at = at, !.status = status, !.conn = None] \in Apps
           /\ \A p \in Pids : [app EXCEPT !.at = at, !.status = status, !.client = TRUE, !.conn = p]
                \in Apps
           /\ [app EXCEPT !.at = at, !.client = FALSE] \in Apps
           /\ AppOff \in Apps
           /\ \A v \in Versions : [AppOff EXCEPT !.at = at, !.ver = v] \in Apps
           /\ app.ver \in Versions \cup {None} /\ app.conn \in Pids \cup {None}
BY DEF Apps, AppOff, AppStages, Statuses

LEMMA CountTypes ==
    ASSUME DaemonTypeOK
    PROVE  /\ \A kind : Faulty(kind) => faults' \in 0..MaxFaults
           /\ Acts => acts' \in 0..MaxActs
BY DEF DaemonTypeOK, Faulty, Acts

LEMMA EndedType ==
    ASSUME DaemonTypeOK, NEW p \in Pids, NEW due \in BOOLEAN, Ended(p, due)
    PROVE  proc' \in Processes /\ lock' \in Pids \cup {None} /\ job' \in Jobs
BY ProcType, JobType DEF DaemonTypeOK, Ended, Stages

LEMMA ForceType ==
    ASSUME DaemonTypeOK, KickstartForce
    PROVE  proc' \in Processes /\ lock' \in Pids \cup {None} /\ job' \in Jobs
<1>1. CASE job.pid # None /\ Ended(job.pid, TRUE)
  BY <1>1, EndedType, JobType DEF DaemonTypeOK
<1>2. CASE job.pid # None /\ ~Ended(job.pid, TRUE)
  <2>1. job.pid \in Pids BY <1>2, JobType DEF DaemonTypeOK
  <2>2. job' = [job EXCEPT !.due = TRUE] /\ UNCHANGED lock
    BY <1>2 DEF KickstartForce
  <2>3. proc' = [proc EXCEPT ![job.pid].at = "draining"] \/ proc' = proc
    BY <1>2 DEF KickstartForce
  <2>4. proc' \in Processes
    BY <2>1, <2>3, ProcType DEF DaemonTypeOK, Stages
  <2> QED BY <2>2, <2>4, JobType DEF DaemonTypeOK
<1>3. CASE job.pid = None
  BY <1>3, JobType DEF KickstartForce, DaemonTypeOK
<1> QED BY <1>1, <1>2, <1>3

\* One action of a process or of launchd on a process keeps the types.
LEMMA ProcessTypes ==
    ASSUME DaemonTypeOK, NEW p \in Pids,
           Process(p) \/ Fail(p) \/ Stop(p) \/ Crash(p) \/ Spawn(p) \/ StartByHand(p)
    PROVE  DaemonTypeOK'
<1>1. CASE TakeLock(p)
  BY <1>1, CountTypes, EndedType, ProcType, JobType DEF TakeLock, MoveTo, DaemonTypeOK, Stages
<1>2. CASE ClearPath(p) \/ Bind(p) \/ Unlink(p)
  BY <1>2, ProcType DEF ClearPath, Bind, Unlink, MoveTo, DaemonTypeOK, Stages
<1>3. CASE Exit(p)
  BY <1>3, CountTypes, EndedType, JobType DEF Exit, DaemonTypeOK
<1>4. CASE Fail(p)
  BY <1>4, CountTypes, EndedType, JobType DEF Fail, DaemonTypeOK
<1>5. CASE Stop(p)
  BY <1>5, CountTypes, ProcType DEF Stop, MoveTo, DaemonTypeOK, Stages
<1>6. CASE Crash(p)
  <2> PICK due \in {job.due, TRUE} : Ended(p, due)
    BY <1>6 DEF Crash
  <2> QED BY <1>6, CountTypes, EndedType, JobType DEF Crash, DaemonTypeOK
<1>7. CASE Spawn(p)
  BY <1>7, ProcType, JobType DEF Spawn, DaemonTypeOK, Stages
<1>8. CASE StartByHand(p)
  <2> PICK v \in Versions : proc' = [proc EXCEPT ![p] = [at |-> "starting", ver |-> v]]
    BY <1>8 DEF StartByHand
  <2>1. proc' \in Processes BY ProcType DEF DaemonTypeOK, Stages
  <2> QED BY <1>8, <2>1, CountTypes DEF StartByHand, DaemonTypeOK
<1> QED BY <1>1, <1>2, <1>3, <1>4, <1>5, <1>6, <1>7, <1>8 DEF Process

\* So does one of the application or the user.
LEMMA ApplicationTypes ==
    ASSUME DaemonTypeOK, Application \/ User
    PROVE  DaemonTypeOK'
<1> USE AppType, JobType, CountTypes DEF At, Goes, Runs, AppStages, Statuses
<1>1. CASE EnsureRunning
  <2>1. app' \in Apps BY <1>1 DEF EnsureRunning, DaemonTypeOK
  <2>2. job' \in Jobs
    <3>1. (job.due \/ job.pid = None) \in BOOLEAN OBVIOUS
    <3> QED BY <1>1, <3>1 DEF EnsureRunning, Kickstart, DaemonTypeOK
  <2> QED BY <1>1, <2>1, <2>2 DEF EnsureRunning, DaemonTypeOK
<1>2. CASE Reconcile
  <2>1. app' \in Apps BY <1>2 DEF Reconcile, DaemonTypeOK
  <2> QED BY <1>2, <2>1, ForceType DEF Reconcile, DaemonTypeOK
<1>3. CASE WriteMarker
  <2>1. app' \in Apps BY <1>3 DEF WriteMarker, DaemonTypeOK
  <2>2. marker' \in Versions \cup {None} BY <1>3 DEF WriteMarker, DaemonTypeOK
  <2> QED BY <1>3, <2>1, <2>2 DEF WriteMarker, DaemonTypeOK
<1>4. CASE Connect
  <2>1. app' \in Apps BY <1>4 DEF Connect, Meet, DaemonTypeOK
  <2> QED BY <1>4, <2>1 DEF Connect, DaemonTypeOK
<1>5. CASE Lose \/ Reconnect
  <2>1. CASE Lose BY <1>5, <2>1 DEF Lose, DaemonTypeOK
  <2>2. CASE Reconnect
    <3>1. PICK p \in Pids : Meet(p) BY <2>2 DEF Reconnect
    <3>2. app' \in Apps BY <3>1 DEF Meet, DaemonTypeOK
    <3> QED BY <2>2, <3>2 DEF Reconnect, DaemonTypeOK
  <2> QED BY <1>5, <2>1, <2>2
<1>6. CASE ForceUpgrade
  <2>1. app' \in Apps BY <1>6 DEF ForceUpgrade, DaemonTypeOK
  <2> QED BY <1>6, <2>1, ForceType DEF ForceUpgrade, DaemonTypeOK
<1>7. CASE Launch \/ Quit \/ Update \/ Retry
  <2>1. app' \in Apps BY <1>7 DEF Launch, Quit, Update, Retry, DaemonTypeOK
  <2> QED BY <1>7, <2>1 DEF Launch, Quit, Update, Retry, DaemonTypeOK
<1>8. CASE Upgrade
  <2>1. app' \in Apps BY <1>8 DEF Upgrade, DaemonTypeOK
  <2>2. proc' \in Processes BY <1>8, ProcType DEF Upgrade, MoveTo, Serving, DaemonTypeOK, Stages
  <2> QED BY <1>8, <2>1, <2>2 DEF Upgrade, DaemonTypeOK
<1> QED BY <1>1, <1>2, <1>3, <1>4, <1>5, <1>6, <1>7, <1>8 DEF Application, User

LEMMA TypesInductive == DaemonTypeOK /\ [DaemonNext]_daemon_vars => DaemonTypeOK'
<1> SUFFICES ASSUME DaemonTypeOK, [DaemonNext]_daemon_vars PROVE DaemonTypeOK' OBVIOUS
<1>1. CASE UNCHANGED daemon_vars BY <1>1 DEF daemon_vars, DaemonTypeOK
<1>2. CASE DaemonNext BY <1>2, ProcessTypes, ApplicationTypes DEF DaemonNext
<1> QED BY <1>1, <1>2

LEMMA TypesInitially == DaemonInit => DaemonTypeOK
BY DEF DaemonInit, DaemonTypeOK, Processes, Jobs, Apps, AppStages, Statuses, AppOff, Idle, Stages

----------------------------------------------------------------------------
(* One daemon at a time *)

\* A process that ends leaves the lock and the socket file of the others alone.
LEMMA EndedSole ==
    ASSUME DaemonTypeOK, SoleServer, NEW p \in Pids, NEW due, Ended(p, due), UNCHANGED path
    PROVE  SoleServer'
BY DEF DaemonTypeOK, Processes, SoleServer, Ended, Idle, Serving, Holding

LEMMA ForceSole ==
    ASSUME DaemonTypeOK, SoleServer, KickstartForce, UNCHANGED path
    PROVE  SoleServer'
<1>1. CASE job.pid # None /\ Ended(job.pid, TRUE)
  BY <1>1, EndedSole, JobType DEF DaemonTypeOK
<1>2. CASE ~(job.pid # None /\ Ended(job.pid, TRUE))
  <2>1. UNCHANGED lock BY <1>2 DEF KickstartForce
  <2>2. \/ proc' = proc
        \/ Serving(job.pid) /\ proc' = [proc EXCEPT ![job.pid].at = "draining"]
    BY <1>2 DEF KickstartForce
  <2> QED BY <2>1, <2>2 DEF DaemonTypeOK, Processes, SoleServer, Serving, Holding
<1> QED BY <1>1, <1>2

LEMMA SoleInductive ==
    ASSUME DaemonTypeOK, SoleServer, [DaemonNext]_daemon_vars
    PROVE  SoleServer'
<1> USE DEF DaemonTypeOK, Processes
<1>1. CASE UNCHANGED daemon_vars
  BY <1>1 DEF daemon_vars, SoleServer, Serving
<1>2. ASSUME NEW p \in Pids, TakeLock(p) PROVE SoleServer'
  <2>1. CASE lock = None
    BY <1>2, <2>1 DEF TakeLock, MoveTo, SoleServer, Serving, Holding
  <2>2. CASE lock # None
    BY <1>2, <2>2, EndedSole DEF TakeLock
  <2> QED BY <2>1, <2>2
<1>3. ASSUME NEW p \in Pids, ClearPath(p) \/ Bind(p) \/ Unlink(p) \/ Stop(p) PROVE SoleServer'
  BY <1>3 DEF ClearPath, Bind, Unlink, Stop, MoveTo, SoleServer, Serving, Holding
<1>4. ASSUME NEW p \in Pids, Exit(p) \/ Fail(p) \/ Crash(p) PROVE SoleServer'
  BY <1>4, EndedSole DEF Exit, Fail, Crash
<1>5. ASSUME NEW p \in Pids, Spawn(p) PROVE SoleServer'
  BY <1>5 DEF Spawn, SoleServer, Serving, Holding
<1>6. ASSUME NEW p \in Pids, StartByHand(p) PROVE SoleServer'
  <2> PICK v \in Versions : proc' = [proc EXCEPT ![p] = [at |-> "starting", ver |-> v]]
    BY <1>6 DEF StartByHand
  <2> QED BY <1>6 DEF StartByHand, SoleServer, Serving, Holding
<1>7. CASE Reconcile \/ ForceUpgrade
  <2>1. CASE KickstartForce /\ UNCHANGED path BY <2>1, ForceSole
  <2>2. CASE UNCHANGED <<proc, lock, path>> BY <2>2 DEF SoleServer, Serving
  <2> QED BY <1>7, <2>1, <2>2 DEF Reconcile, ForceUpgrade
<1>8. CASE Upgrade
  BY <1>8 DEF Upgrade, MoveTo, SoleServer, Serving, Holding
<1>9. CASE EnsureRunning \/ WriteMarker \/ Connect \/ Lose \/ Reconnect
             \/ Launch \/ Quit \/ Update \/ Retry
  <2>1. UNCHANGED <<proc, lock, path>>
    BY <1>9 DEF EnsureRunning, WriteMarker, Connect, Lose, Reconnect, Launch, Quit, Update, Retry
  <2> QED BY <2>1 DEF SoleServer, Serving
<1> QED
  BY <1>1, <1>2, <1>3, <1>4, <1>5, <1>6, <1>7, <1>8, <1>9
     DEF DaemonNext, Process, Application, User

\* Every reachable state is type correct.
THEOREM DaemonTypeCorrect == DaemonSpec => []DaemonTypeOK
BY TypesInitially, TypesInductive, PTL DEF DaemonSpec

\* SoleServer for any number of processes: the flock alone, released after the
\* socket file is unlinked, keeps a daemon's socket from every other's start and
\* end.
THEOREM SoleServerTheorem == DaemonSpec => []SoleServer
<1>1. DaemonInit => SoleServer
  BY DEF DaemonInit, SoleServer, Serving, Idle, Holding
<1>2. DaemonTypeOK /\ SoleServer /\ [DaemonNext]_daemon_vars => SoleServer'
  BY SoleInductive
<1> QED BY <1>1, <1>2, DaemonTypeCorrect, PTL DEF DaemonSpec

----------------------------------------------------------------------------
(* The marker *)

LEMMA EndedStays ==
    ASSUME DaemonTypeOK, JobInv, NEW p \in Pids, NEW due, Ended(p, due)
    PROVE  JobInv' /\ StaysKept
BY VersionsAssumption DEF DaemonTypeOK, Processes, Jobs, JobInv, StaysKept, Stays, Ended, Idle

\* A forced kickstart leaves no instance that stays.
LEMMA ForceStays ==
    ASSUME DaemonTypeOK, JobInv, KickstartForce
    PROVE  JobInv' /\ \A q \in Pids : ~Stays(q)'
<1> USE VersionsAssumption DEF DaemonTypeOK, Processes, Jobs, JobInv, Stays
<1>1. CASE job.pid # None /\ Ended(job.pid, TRUE)
  BY <1>1 DEF Ended, Idle
<1>2. CASE job.pid # None /\ ~Ended(job.pid, TRUE)
  <2>1. proc[job.pid].at \in {"serving", "draining", "unlinked"} /\ job' = [job EXCEPT !.due = TRUE]
    BY <1>2 DEF KickstartForce
  <2>2. proc' = IF Serving(job.pid) THEN [proc EXCEPT ![job.pid].at = "draining"] ELSE proc
    BY <1>2 DEF KickstartForce
  <2> QED BY <1>2, <2>1, <2>2 DEF Serving
<1>3. CASE job.pid = None
  BY <1>3 DEF KickstartForce
<1> QED BY <1>1, <1>2, <1>3

\* A step of one process: what stays was there before, or launchd has just
\* started it from the .app on disk.
LEMMA ProcessStays ==
    ASSUME DaemonTypeOK, JobInv, NEW p \in Pids,
           Process(p) \/ Fail(p) \/ Stop(p) \/ Crash(p) \/ Spawn(p) \/ StartByHand(p)
    PROVE  /\ JobInv' /\ UNCHANGED <<app, marker, bundle>>
           /\ StaysKept \/ \A q \in Pids : Stays(q)' => proc'[q].ver = bundle
<1> USE VersionsAssumption DEF DaemonTypeOK, Processes, Jobs
<1>1. CASE TakeLock(p)
  <2>1. CASE lock = None
    BY <1>1, <2>1 DEF TakeLock, MoveTo, JobInv, StaysKept, Stays
  <2>2. CASE lock # None
    BY <1>1, <2>2, EndedStays DEF TakeLock
  <2> QED BY <2>1, <2>2
<1>2. CASE ClearPath(p) \/ Bind(p) \/ Unlink(p) \/ Stop(p)
  BY <1>2 DEF ClearPath, Bind, Unlink, Stop, Serving, MoveTo, JobInv, StaysKept, Stays
<1>3. CASE Exit(p) \/ Fail(p) \/ Crash(p)
  BY <1>3, EndedStays DEF Exit, Fail, Crash
<1>4. CASE Spawn(p)
  BY <1>4 DEF Spawn, JobInv, StaysKept, Stays
<1>5. CASE StartByHand(p)
  <2> PICK v \in Versions : proc' = [proc EXCEPT ![p] = [at |-> "starting", ver |-> v]]
    BY <1>5 DEF StartByHand
  <2> QED BY <1>5 DEF StartByHand, Unused, JobInv, StaysKept, Stays
<1> QED BY <1>1, <1>2, <1>3, <1>4, <1>5 DEF Process

\* A step of the application or the user starts no instance; if it ends at
\* "mark" with a marker there, nothing stays or it was there already.
LEMMA ApplicationStays ==
    ASSUME DaemonTypeOK, JobInv, Application \/ User
    PROVE  JobInv' /\ StaysKept
<1> USE VersionsAssumption DEF DaemonTypeOK, Processes, Jobs
<1>1. CASE Reconcile \/ ForceUpgrade
  <2>1. CASE KickstartForce
    BY <2>1, ForceStays DEF StaysKept
  <2>2. CASE UNCHANGED <<proc, lock, job>>
    BY <2>2 DEF JobInv, StaysKept, Stays
  <2> QED BY <1>1, <2>1, <2>2 DEF Reconcile, ForceUpgrade
<1>2. CASE EnsureRunning
  <2>1. UNCHANGED proc /\ job'.pid = job.pid
    BY <1>2 DEF EnsureRunning, Kickstart
  <2> QED BY <2>1 DEF JobInv, StaysKept, Stays
<1>3. CASE Upgrade
  BY <1>3 DEF Upgrade, MoveTo, Serving, JobInv, StaysKept, Stays
<1>4. CASE WriteMarker \/ Connect \/ Lose \/ Reconnect \/ Launch \/ Quit \/ Update \/ Retry
  <2>1. UNCHANGED <<proc, job>>
    BY <1>4 DEF WriteMarker, Connect, Lose, Reconnect, Launch, Quit, Update, Retry
  <2> QED BY <2>1 DEF JobInv, StaysKept, Stays
<1> QED BY <1>1, <1>2, <1>3, <1>4 DEF Application, User

\* What such a step does to the marker and to the way to it.
LEMMA ApplicationMarks ==
    ASSUME HonestyInv, Application \/ User
    PROVE  /\ ReleaseInv' /\ bundle <= bundle'
           /\ marker' = marker \/ (app.at = "mark" /\ marker' = app.ver)
           /\ app'.at = "mark" /\ marker' # None =>
                \/ app.at = "mark" /\ app'.ver = app.ver /\ marker # None
                \/ \A q \in Pids : ~Stays(q)'
<1> USE VersionsAssumption DEF At, Goes, Runs, Apps
<1>0. /\ app \in Apps /\ bundle \in Versions /\ marker \in Versions \cup {None}
      /\ DaemonTypeOK /\ JobInv /\ ReleaseInv
  BY DEF HonestyInv, DaemonTypeOK
<1>1. CASE Reconcile
  <2>1. UNCHANGED <<bundle, marker>> BY <1>1 DEF Reconcile
  <2>2. app.at = "reconcile" /\ app' \in {[app EXCEPT !.at = "connect"], [app EXCEPT !.at = "mark"]}
    BY <1>1 DEF Reconcile
  <2>3. app'.at = "mark" => marker = None \/ KickstartForce
    BY <1>0, <1>1 DEF Reconcile
  <2>4. app'.ver = app.ver BY <1>0, <2>2
  <2>5. ReleaseInv' BY <1>0, <2>1, <2>2, <2>4 DEF ReleaseInv
  <2>6. bundle <= bundle' BY <1>0, <2>1
  <2> QED BY <1>0, <2>1, <2>3, <2>5, <2>6, ForceStays
<1>2. CASE WriteMarker
  <2>1. app.at = "mark" /\ app'.at = "connect" /\ app'.ver = app.ver
    BY <1>0, <1>2 DEF WriteMarker
  <2>2. UNCHANGED bundle /\ marker' \in {marker, app.ver}
    BY <1>2 DEF WriteMarker
  <2> QED BY <1>0, <2>1, <2>2 DEF ReleaseInv
<1>3. CASE Update
  <2>1. UNCHANGED <<app, marker>> /\ bundle' \in Versions /\ bundle' > bundle
    BY <1>3 DEF Update
  <2>2. bundle \in Nat /\ bundle' \in Nat BY <1>0, <2>1
  <2>3. marker # None => marker \in Nat BY <1>0
  <2>4. app.at # "off" => app.ver \in Nat BY <1>0 DEF ReleaseInv
  <2>5. ReleaseInv' BY <1>0, <2>1, <2>2, <2>3, <2>4 DEF ReleaseInv
  <2> QED BY <2>1, <2>2, <2>5
<1>4. CASE EnsureRunning \/ Connect \/ Lose \/ Reconnect \/ ForceUpgrade
             \/ Launch \/ Quit \/ Retry \/ Upgrade
  <2>1. UNCHANGED <<bundle, marker>>
    BY <1>4 DEF EnsureRunning, Connect, Lose, Reconnect, ForceUpgrade, Launch, Quit, Retry, Upgrade
  <2>2. /\ app'.at # "mark"
        /\ app'.at # "off" => app'.ver = bundle \/ (app.at # "off" /\ app'.ver = app.ver)
    <3>1. CASE EnsureRunning BY <1>0, <3>1 DEF EnsureRunning
    <3>2. CASE Connect \/ Reconnect
      <4>1. app.at \in {"connect", "run"} BY <3>2 DEF Connect, Reconnect
      <4>2. (\E p \in Pids : Meet(p)) \/ Runs("disconnected") BY <3>2 DEF Connect, Reconnect
      <4> QED BY <1>0, <4>1, <4>2 DEF Meet
    <3>3. CASE Lose BY <1>0, <3>3 DEF Lose
    <3>4. CASE ForceUpgrade BY <1>0, <3>4 DEF ForceUpgrade, AppOff
    <3>5. CASE Launch \/ Quit
      <4>1. app' = AppOff \/ app' = [AppOff EXCEPT !.at = "ensure", !.ver = bundle]
        BY <3>5 DEF Launch, Quit
      <4>2. AppOff.at = "off" BY DEF AppOff
      <4>3. LET launched == [AppOff EXCEPT !.at = "ensure", !.ver = bundle]
            IN  launched.at = "ensure" /\ launched.ver = bundle
        BY DEF AppOff
      <4> QED BY <4>1, <4>2, <4>3
    <3>6. CASE Retry BY <1>0, <3>6 DEF Retry
    <3>7. CASE Upgrade
      <4>1. app.at = "run" /\ app' = [app EXCEPT !.at = "force"] BY <3>7 DEF Upgrade
      <4> QED BY <1>0, <4>1
    <3> QED BY <1>4, <3>1, <3>2, <3>3, <3>4, <3>5, <3>6, <3>7
  <2> QED BY <1>0, <2>1, <2>2 DEF ReleaseInv
<1> QED BY <1>1, <1>2, <1>3, <1>4 DEF Application, User

\* HonestyInv is inductive, and under it a step keeps an honest marker honest.
LEMMA HonestyStep ==
    ASSUME HonestyInv, [DaemonNext]_daemon_vars
    PROVE  HonestyInv' /\ (marker # None /\ MarkerHonest => MarkerHonest')
<1> USE VersionsAssumption
<1>0. DaemonTypeOK' BY TypesInductive DEF HonestyInv
<1>1. CASE UNCHANGED daemon_vars
  BY <1>0, <1>1
     DEF daemon_vars, HonestyInv, JobInv, ReleaseInv, MarkInv, Stays, MarkerHonest
<1>2. ASSUME NEW p \in Pids,
             Process(p) \/ Fail(p) \/ Stop(p) \/ Crash(p) \/ Spawn(p) \/ StartByHand(p)
      PROVE  HonestyInv' /\ (marker # None /\ MarkerHonest => MarkerHonest')
  <2>1. JobInv' /\ UNCHANGED <<app, marker, bundle>>
    BY <1>2, ProcessStays DEF HonestyInv
  <2>2. ReleaseInv' BY <2>1 DEF HonestyInv, ReleaseInv
  <2>3. CASE StaysKept
    BY <1>0, <2>1, <2>2, <2>3 DEF HonestyInv, MarkInv, StaysKept, Stays, MarkerHonest
  <2>4. CASE \A q \in Pids : Stays(q)' => proc'[q].ver = bundle
    <3>1. MarkInv' BY <2>1, <2>4 DEF HonestyInv, MarkInv, ReleaseInv, Stays
    <3>2. marker # None => MarkerHonest'
      BY <2>1, <2>4 DEF HonestyInv, ReleaseInv, Stays, MarkerHonest
    <3> QED BY <1>0, <2>1, <2>2, <3>1, <3>2 DEF HonestyInv
  <2> QED BY <1>2, <2>3, <2>4, ProcessStays DEF HonestyInv
<1>3. CASE Application \/ User
  <2>1. JobInv' /\ StaysKept BY <1>3, ApplicationStays DEF HonestyInv
  <2>2. MarkInv' BY <1>3, <2>1, ApplicationMarks DEF HonestyInv, MarkInv, StaysKept, Stays
  <2>3. marker # None /\ MarkerHonest => MarkerHonest'
    BY <1>3, <2>1, ApplicationMarks DEF HonestyInv, MarkInv, StaysKept, Stays, MarkerHonest
  <2> QED BY <1>0, <1>3, <2>1, <2>2, <2>3, ApplicationMarks DEF HonestyInv
<1> QED BY <1>1, <1>2, <1>3 DEF DaemonNext

\* HonestyKept for any number of processes, releases, faults and acts: a forced
\* kickstart leaves no older instance behind, what launchd starts is the .app on
\* disk, and no marker names a release later than that.
THEOREM HonestyTheorem == DaemonSpec => HonestyKept
<1>1. DaemonInit => HonestyInv
  BY TypesInitially, VersionsAssumption
     DEF DaemonInit, HonestyInv, JobInv, ReleaseInv, MarkInv, Idle, AppOff
<1>2. HonestyInv /\ [DaemonNext]_daemon_vars => HonestyInv'
  BY HonestyStep
<1>3. HonestyInv /\ [DaemonNext]_daemon_vars
        => [marker # None /\ MarkerHonest => MarkerHonest']_daemon_vars
  BY HonestyStep
<1> QED BY <1>1, <1>2, <1>3, PTL DEF DaemonSpec, HonestyKept

=============================================================================
