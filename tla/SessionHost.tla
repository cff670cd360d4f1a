----------------------------- MODULE SessionHost -----------------------------
(***************************************************************************)
(* The life of the daemon bpa-sessiond around its sessions: the requests   *)
(* that create, close and remove them, the wait thread of each, what is    *)
(* written to the database by whom and when, shutdown, crash and restart.  *)
(*                                                                         *)
(*   crates/sessiond/src/pty_supervisor.rs   Supervisor                    *)
(*   crates/sessiond/src/socket_server.rs    dispatch, flushes, callbacks  *)
(*   crates/sessiond/src/boot.rs             rehydrate, drain              *)
(*   crates/sessiond/src/persistence.rs      the rows and their keys       *)
(*                                                                         *)
(* A step is what a task or thread does between two awaits, joins or locks *)
(* that another one can get in between.  A lifecycle is "live" (Starting,  *)
(* AtPrompt, Running, or the Exited of a command) or "final" (what the     *)
(* wait thread records).  Scrollback is the number of chunks in it.  The   *)
(* streams of the attached clients are AttachStream's.                     *)
(***************************************************************************)
EXTENDS Naturals, FiniteSets

CONSTANTS
  Sessions,   (* session ids; each is the UUID of at most one create       *)
  Workspaces,
  WsOf,       (* the workspace each session is created in                  *)
  NoSession, NoWorkspace,
  NoRow,      (* no row in the session table                               *)
  MaxOut,     (* bound: chunks of output per session                       *)
  MaxCloses,  (* bound: KillSession requests                               *)
  MaxSweeps,  (* bound: flush_scrollback_once calls                        *)
  MaxBoots    (* bound: daemon processes                                   *)

ASSUME HostAssumption ==
  /\ WsOf \in [Sessions -> Workspaces]
  /\ NoSession \notin Sessions /\ NoWorkspace \notin Workspaces
  /\ MaxOut \in Nat /\ MaxCloses \in Nat /\ MaxSweeps \in Nat /\ MaxBoots \in Nat \ {0}

VARIABLES
  child,   (* the session's direct child: "none", "alive", "dead"          *)
  reading, (* its reader thread runs                                       *)
  wait,    (* its wait thread: "none", "wait", "callback", "done"          *)
  active, life, ring, (* Shared::is_active, lifecycle, scrollback          *)
  map,     (* Supervisor::sessions: "no", "pty", "replay" (no PTY)         *)
  fin,     (* the final flush task of on_exited, with what it captured     *)
  create,  (* the CreateSession request of the session, with its meta      *)
  live, closing, pend, (* ServerDeps: live_sessions, closing_workspaces,   *)
                       (* pending_final_flushes                            *)
  close,   (* close_session or kill in progress, per caller                *)
  remove,  (* the RemoveWorkspace request in progress                      *)
  sweep,   (* flush_scrollback_once in progress; bound: one at a time      *)
  boot,    (* boot::run: "serving", "killing", "await", "exited"; or       *)
           (* "crashed"                                                    *)
  down,    (* its shutdown: ids left to kill, all ids, handles awaited     *)
  ws, row, (* database: workspace, session with its scrollback             *)
  gone,    (* history: sessions whose row was deleted                      *)
  closes, sweeps, boots (* counters for the bounds                         *)

procVars == <<child, reading, wait, active, life, ring>>
hostVars == <<live, closing, pend>>
dbVars   == <<ws, row, gone>>
countVars == <<closes, sweeps, boots>>
vars == <<child, reading, wait, active, life, ring, map, fin, create, live, closing, pend,
          close, remove, sweep, boot, down, ws, row, gone, closes, sweeps, boots>>

Closers  == {"client", "remove", "boot"}
Lives    == {"live", "final"}
Up == boot \in {"serving", "killing", "await"}

NoFlush  == [pc |-> "none", life |-> "live", ring |-> 0]
NoClose  == [pc |-> "idle", sess |-> NoSession]
NoRemove == [pc |-> "idle", ws |-> NoWorkspace, todo |-> {}, took |-> {}, known |-> {}, phase |-> 1]
NoSweep  == [pc |-> "idle", todo |-> {}, sess |-> NoSession, life |-> "live", ring |-> 0]
NotDown  == [todo |-> {}, ids |-> {}, took |-> {}]

Rows     == [life : Lives, ring : 0..MaxOut]
Flushes  == [pc : {"none", "missed", "meta", "scroll", "done"}, life : Lives, ring : 0..MaxOut]
Creates  == [pc : {"new", "exists", "spawn", "insert", "meta", "persist", "done", "failed"},
             life : Lives]
Closes   == [pc : {"idle", "signal", "reap", "honest", "delete"}, sess : Sessions \cup {NoSession}]
Removals == [pc : {"idle", "mark", "sweep", "await", "delete", "strays"},
             ws : Workspaces \cup {NoWorkspace}, todo : SUBSET Sessions,
             took : SUBSET Sessions, known : SUBSET Sessions, phase : {1, 2}]
Sweeps   == [pc : {"idle", "next", "upsert", "snapshot", "append"}, todo : SUBSET Sessions,
             sess : Sessions \cup {NoSession}, life : Lives, ring : 0..MaxOut]
Drains   == [todo : SUBSET Sessions, ids : SUBSET Sessions, took : SUBSET Sessions]

ASSUME RowAssumption == NoRow \notin Rows

TypeOK ==
  /\ child \in [Sessions -> {"none", "alive", "dead"}]
  /\ reading \in [Sessions -> BOOLEAN]
  /\ wait \in [Sessions -> {"none", "wait", "callback", "done"}]
  /\ active \in [Sessions -> BOOLEAN]
  /\ life \in [Sessions -> Lives]
  /\ ring \in [Sessions -> 0..MaxOut]
  /\ map \in [Sessions -> {"no", "pty", "replay"}]
  /\ fin \in [Sessions -> Flushes]
  /\ create \in [Sessions -> Creates]
  /\ live \subseteq Sessions /\ closing \subseteq Workspaces /\ pend \subseteq Sessions
  /\ close \in [Closers -> Closes]
  /\ remove \in Removals
  /\ sweep \in Sweeps
  /\ boot \in {"serving", "killing", "await", "exited", "crashed"}
  /\ down \in Drains
  /\ ws \subseteq Workspaces
  /\ row \in [Sessions -> Rows \cup {NoRow}]
  /\ gone \subseteq Sessions
  /\ closes \in 0..MaxCloses /\ sweeps \in 0..MaxSweeps /\ boots \in 1..MaxBoots

Init ==
  /\ child = [s \in Sessions |-> "none"] /\ reading = [s \in Sessions |-> FALSE]
  /\ wait = [s \in Sessions |-> "none"]
  /\ active = [s \in Sessions |-> FALSE]
  /\ life = [s \in Sessions |-> "live"]
  /\ ring = [s \in Sessions |-> 0]
  /\ map = [s \in Sessions |-> "no"]
  /\ fin = [s \in Sessions |-> NoFlush]
  /\ create = [s \in Sessions |-> [pc |-> "new", life |-> "live"]]
  /\ live = {} /\ closing = {} /\ pend = {}
  /\ close = [k \in Closers |-> NoClose]
  /\ remove = NoRemove
  /\ sweep = NoSweep
  /\ boot = "serving" /\ down = NotDown
  /\ ws = Workspaces /\ row = [s \in Sessions |-> NoRow] /\ gone = {}
  /\ closes = 0 /\ sweeps = 0 /\ boots = 1

-----------------------------------------------------------------------------
(* Database.  A definition marked `Bug:' is a faulty variant of the one    *)
(* that follows it, for checking that the properties can fail.             *)

\* Bug: foreign keys are not enforced (SQLite's default).
RowsAlways(s) == TRUE

\* session.workspace_id REFERENCES workspace(id), and foreign_keys is ON.
HasWorkspace(s) == WsOf[s] \in ws

\* Db::upsert_session leaves the stored scrollback alone; a failure is logged and swallowed.
Upsert(s, l) ==
  row' = IF ~HasWorkspace(s) THEN row
         ELSE [row EXCEPT ![s] = [life |-> l, ring |-> IF row[s] = NoRow THEN 0 ELSE row[s].ring]]

\* Db::append_scrollback replaces the blob at seq 0; it references the session's row.
Append(s, r) == row' = IF row[s] = NoRow THEN row ELSE [row EXCEPT ![s].ring = r]

-----------------------------------------------------------------------------
(* A session's child and threads.                                          *)

\* The reader pushes a chunk; an OSC 133 mark in it may overwrite the lifecycle, at any time.
ReaderChunk(s) ==
  /\ Up /\ reading[s] /\ ring[s] < MaxOut
  /\ ring' = [ring EXCEPT ![s] = @ + 1]
  /\ \E l \in {life[s], "live"} : life' = [life EXCEPT ![s] = l]
  /\ UNCHANGED <<child, reading, wait, active, map, fin, create, hostVars, close, remove, sweep,
                 boot, down, dbVars, countVars>>

\* Nobody holds the slave any more: not before the child exits, unless it closed its own tty, and
\* perhaps never, when a descendant outlives it.
ReaderEof(s) ==
  /\ Up /\ reading[s]
  /\ reading' = [reading EXCEPT ![s] = FALSE]
  /\ active' = [active EXCEPT ![s] = FALSE]
  /\ UNCHANGED <<child, wait, life, ring, map, fin, create, hostVars, close, remove, sweep,
                 boot, down, dbVars, countVars>>

ChildExit(s) ==
  /\ Up /\ child[s] = "alive"
  /\ child' = [child EXCEPT ![s] = "dead"]
  /\ UNCHANGED <<reading, wait, active, life, ring, map, fin, create, hostVars, close, remove,
                 sweep, boot, down, dbVars, countVars>>

WaitReturns(s) ==
  /\ Up /\ wait[s] = "wait" /\ child[s] = "dead"
  /\ wait' = [wait EXCEPT ![s] = "callback"]
  /\ active' = [active EXCEPT ![s] = FALSE]
  /\ life' = [life EXCEPT ![s] = "final"]
  /\ UNCHANGED <<child, reading, ring, map, fin, create, hostVars, close, remove, sweep,
                 boot, down, dbVars, countVars>>

\* Bug: the task is detached and its handle forgotten (before H1).
TrackNothing(s) == pend' = pend

\* track_final_flush: finished handles are swept, this one is added.
Track(s) == pend' = {t \in pend : fin[t].pc # "done"} \cup {s}

\* on_exited captures meta and scrollback on this thread, then spawns the flush task; a session
\* that is not in the map has nothing to capture.
OnExited(s) ==
  /\ Up /\ wait[s] = "callback"
  /\ wait' = [wait EXCEPT ![s] = "done"]
  /\ IF map[s] = "no"
     THEN fin' = [fin EXCEPT ![s].pc = "missed"] /\ UNCHANGED pend
     ELSE /\ fin' = [fin EXCEPT ![s] = [pc |-> "meta", life |-> life[s], ring |-> ring[s]]]
          /\ Track(s)
  /\ UNCHANGED <<child, reading, active, life, ring, map, create, live, closing, close, remove,
                 sweep, boot, down, dbVars, countVars>>

\* flush_session_final, one database lock at a time.
FinalMeta(s) ==
  /\ Up /\ fin[s].pc = "meta"
  /\ Upsert(s, fin[s].life)
  /\ fin' = [fin EXCEPT ![s].pc = "scroll"]
  /\ UNCHANGED <<procVars, map, create, hostVars, close, remove, sweep, boot, down, ws, gone, countVars>>

FinalScrollback(s) ==
  /\ Up /\ fin[s].pc = "scroll"
  /\ Append(s, fin[s].ring)
  /\ fin' = [fin EXCEPT ![s].pc = "done"]
  /\ UNCHANGED <<procVars, map, create, hostVars, close, remove, sweep, boot, down, ws, gone, countVars>>

-----------------------------------------------------------------------------
(* CreateSession.                                                          *)

CreateStep(s, from, to) ==
  /\ Up /\ create[s].pc = from
  /\ create' = [create EXCEPT ![s].pc = to]

\* The gate of a workspace being removed.
CreateGate(s) ==
  /\ \/ WsOf[s] \in closing /\ CreateStep(s, "new", "done")
     \/ WsOf[s] \notin closing /\ CreateStep(s, "new", "exists")
  /\ UNCHANGED <<procVars, map, fin, hostVars, close, remove, sweep, boot, down, dbVars, countVars>>

\* workspace_exists
CreateExists(s) ==
  /\ CreateStep(s, "exists", IF HasWorkspace(s) THEN "spawn" ELSE "done")
  /\ UNCHANGED <<procVars, map, fin, hostVars, close, remove, sweep, boot, down, dbVars, countVars>>

\* An error return of Supervisor::create. Nothing was spawned, or what was stays behind: the child
\* (after spawn_command), its reader, which holds the PTY open (after that thread's spawn), and
\* its wait thread. It is not killed and gets into no map; the client is given no id.
CreateFails(s) ==
  /\ CreateStep(s, "spawn", "failed")
  /\ \E left \in {{}, {"child"}, {"child", "reader"}, {"child", "reader", "wait"}} :
       /\ child' = [child EXCEPT ![s] = IF "child" \in left THEN "alive" ELSE @]
       /\ reading' = [reading EXCEPT ![s] = "reader" \in left]
       /\ wait' = [wait EXCEPT ![s] = IF "wait" \in left THEN "wait" ELSE @]
       /\ active' = [active EXCEPT ![s] = "reader" \in left]
  /\ UNCHANGED <<life, ring, map, fin, hostVars, close, remove, sweep, boot, down, dbVars, countVars>>

\* Supervisor::create up to the map: child, reader, wait and ticker threads run from here on.
CreateSpawn(s) ==
  /\ CreateStep(s, "spawn", "insert")
  /\ child' = [child EXCEPT ![s] = "alive"]
  /\ reading' = [reading EXCEPT ![s] = TRUE]
  /\ wait' = [wait EXCEPT ![s] = "wait"]
  /\ active' = [active EXCEPT ![s] = TRUE]
  /\ UNCHANGED <<life, ring, map, fin, hostVars, close, remove, sweep, boot, down, dbVars, countVars>>

CreateInsert(s) ==
  /\ CreateStep(s, "insert", "meta")
  /\ map' = [map EXCEPT ![s] = "pty"]
  /\ UNCHANGED <<procVars, fin, hostVars, close, remove, sweep, boot, down, dbVars, countVars>>

\* Bug: only the database knows the session.
ListedByRow(s) == live' = live

\* Tracked in memory, whatever becomes of the row.
ListedLive(s) == live' = live \cup {s}

\* meta(): fails for a session that was killed in the meantime.
CreateMeta(s) ==
  /\ \/ /\ map[s] = "no" /\ CreateStep(s, "meta", "done") /\ UNCHANGED live
     \/ /\ map[s] # "no" /\ Up /\ create[s].pc = "meta"
        /\ create' = [create EXCEPT ![s] = [pc |-> "persist", life |-> life[s]]]
        /\ ListedLive(s)
  /\ UNCHANGED <<procVars, map, fin, closing, pend, close, remove, sweep, boot, down, dbVars, countVars>>

CreatePersist(s) ==
  /\ CreateStep(s, "persist", "done")
  /\ Upsert(s, create[s].life)
  /\ UNCHANGED <<procVars, map, fin, hostVars, close, remove, sweep, boot, down, ws, gone, countVars>>

-----------------------------------------------------------------------------
(* Supervisor::kill and close_session, for the request, the removal of a   *)
(* workspace and the shutdown.                                             *)

\* Bug: every tracked session is closed as if it had no process.
ClosedHonestly(s) == map[s] # "no"

\* require_pty fails: a rehydrated entry has no process to kill.
WithoutPty(s) == map[s] = "replay"

\* Where a close of s starts; shutdown_all calls kill only.
CloseOf(k, s) ==
  IF WithoutPty(s) THEN (IF k = "boot" THEN NoClose ELSE [pc |-> "honest", sess |-> s])
  ELSE IF map[s] = "pty" THEN [pc |-> "signal", sess |-> s] ELSE NoClose

Kill(s) ==
  /\ Up /\ close["client"] = NoClose /\ closes < MaxCloses
  /\ closes' = closes + 1
  /\ close' = [close EXCEPT !["client"] = CloseOf("client", s)]
  /\ UNCHANGED <<procVars, map, fin, create, hostVars, remove, sweep, boot, down, dbVars, sweeps, boots>>

\* SIGTERM, the grace period, SIGKILL, killer.kill().
CloseSignal(k) ==
  /\ Up /\ close[k].pc = "signal"
  /\ child' = [child EXCEPT ![close[k].sess] = "dead"]
  /\ close' = [close EXCEPT ![k].pc = "reap"]
  /\ UNCHANGED <<reading, wait, active, life, ring, map, fin, create, hostVars, remove, sweep,
                 boot, down, dbVars, countVars>>

\* Bug: the reader is joined without a bound (before BL-172).
ReaderGone(s) == wait[s] = "done" /\ ~reading[s]

\* Bug: the wait thread is not joined.
NotJoined(s) == TRUE

\* The wait thread is joined, and the reader for at most READER_JOIN_TIMEOUT. The handle stays
\* locked during the join, so a second kill of the session waits for it too.
Joined(s) == wait[s] = "done"

\* RemoveWorkspace takes a closed session off live_sessions, the request does not.
Unlisted(k, s) == IF k = "remove" THEN live \ {s} ELSE live

CloseReap(k) ==
  /\ Up /\ close[k].pc = "reap" /\ Joined(close[k].sess)
  /\ map' = [map EXCEPT ![close[k].sess] = "no"]
  /\ live' = Unlisted(k, close[k].sess)
  /\ close' = [close EXCEPT ![k] = NoClose]
  /\ UNCHANGED <<procVars, fin, create, closing, pend, remove, sweep, boot, down, dbVars, countVars>>

\* meta() again, then remove_inactive.
CloseHonest(k) ==
  /\ Up /\ close[k].pc = "honest"
  /\ LET s == close[k].sess IN
     IF map[s] = "no"
     THEN /\ close' = [close EXCEPT ![k] = NoClose]
          /\ live' = Unlisted(k, s) /\ UNCHANGED map
     ELSE /\ close' = [close EXCEPT ![k].pc = "delete"]
          /\ map' = [map EXCEPT ![s] = "no"]
          /\ live' = live \ {s}
  /\ UNCHANGED <<procVars, fin, create, closing, pend, remove, sweep, boot, down, dbVars, countVars>>

CloseDelete(k) ==
  /\ Up /\ close[k].pc = "delete"
  /\ row' = [row EXCEPT ![close[k].sess] = NoRow]
  /\ gone' = gone \cup {close[k].sess}
  /\ close' = [close EXCEPT ![k] = NoClose]
  /\ UNCHANGED <<procVars, map, fin, create, hostVars, remove, sweep, boot, down, ws, countVars>>

-----------------------------------------------------------------------------
(* RemoveWorkspace.                                                        *)

\* workspace_session_ids: the first victims are the rows.
RemoveBegin(w) ==
  /\ Up /\ remove.pc = "idle" /\ w \in ws
  /\ remove' = [NoRemove EXCEPT !.pc = "mark", !.ws = w,
                                !.todo = {s \in Sessions : WsOf[s] = w /\ row[s] # NoRow}]
  /\ UNCHANGED <<procVars, map, fin, create, hostVars, close, sweep, boot, down, dbVars, countVars>>

\* Sessions of w that live_sessions names and the supervisor still tracks.
TrackedIn(w) == {s \in live : WsOf[s] = w /\ map[s] # "no"}

\* begin_closing_workspace; the other victims are tracked without a row.
\* remove.known is history: the sessions a client had been given by now.
RemoveMark ==
  /\ Up /\ remove.pc = "mark"
  /\ closing' = closing \cup {remove.ws}
  /\ remove' = [remove EXCEPT !.pc = "sweep", !.todo = @ \cup TrackedIn(remove.ws),
                  !.known = {s \in Sessions : WsOf[s] = remove.ws /\ create[s].pc = "done"}]
  /\ UNCHANGED <<procVars, map, fin, create, live, pend, close, sweep, boot, down, dbVars, countVars>>

\* close_session of the next victim.
RemoveNext(s) ==
  /\ Up /\ remove.pc = "sweep" /\ s \in remove.todo /\ close["remove"] = NoClose
  /\ close' = [close EXCEPT !["remove"] = CloseOf("remove", s)]
  /\ live' = IF map[s] = "no" THEN live \ {s} ELSE live
  /\ remove' = [remove EXCEPT !.todo = @ \ {s}]
  /\ UNCHANGED <<procVars, map, fin, create, closing, pend, sweep, boot, down, dbVars, countVars>>

\* await_pending_final_flushes: take every handle ...
RemoveTake ==
  /\ Up /\ remove.pc = "sweep" /\ remove.todo = {} /\ close["remove"] = NoClose
  /\ remove' = [remove EXCEPT !.pc = "await", !.took = pend]
  /\ pend' = {}
  /\ UNCHANGED <<procVars, map, fin, create, live, closing, close, sweep, boot, down, dbVars, countVars>>

Flushed(handles) == \A s \in handles : fin[s].pc = "done"

\* ... and await them; after the second drain the guard is dropped and the request acknowledged.
RemoveAwait ==
  /\ Up /\ remove.pc = "await" /\ Flushed(remove.took)
  /\ IF remove.phase = 1
     THEN remove' = [remove EXCEPT !.pc = "delete", !.took = {}] /\ UNCHANGED closing
     ELSE remove' = NoRemove /\ closing' = closing \ {remove.ws}
  /\ UNCHANGED <<procVars, map, fin, create, live, pend, close, sweep, boot, down, dbVars, countVars>>

\* delete_workspace
RemoveDelete ==
  /\ Up /\ remove.pc = "delete"
  /\ ws' = ws \ {remove.ws}
  /\ row' = [s \in Sessions |-> IF WsOf[s] = remove.ws THEN NoRow ELSE row[s]]
  /\ gone' = gone \cup {s \in Sessions : WsOf[s] = remove.ws}
  /\ remove' = [remove EXCEPT !.pc = "strays"]
  /\ UNCHANGED <<procVars, map, fin, create, hostVars, close, sweep, boot, down, countVars>>

\* Bug: no sweep after the deletion.
NoStrays == {}

Strays == TrackedIn(remove.ws)

RemoveStrays ==
  /\ Up /\ remove.pc = "strays"
  /\ remove' = [remove EXCEPT !.pc = "sweep", !.phase = 2, !.todo = Strays,
                              !.known = @ \cup TrackedIn(remove.ws)]
  /\ UNCHANGED <<procVars, map, fin, create, hostVars, close, sweep, boot, down, dbVars, countVars>>

-----------------------------------------------------------------------------
(* flush_scrollback_once, of the ticker or of DaemonShutdown{drain}.        *)

SweepBegin ==
  /\ boot = "serving" /\ sweep.pc = "idle" /\ sweeps < MaxSweeps
  /\ sweeps' = sweeps + 1
  /\ sweep' = [NoSweep EXCEPT !.pc = "next", !.todo = {s \in Sessions : row[s] # NoRow}]
  /\ UNCHANGED <<procVars, map, fin, create, hostVars, close, remove, boot, down, dbVars, closes, boots>>

\* meta(): only a session that is tracked and active is persisted.
SweepMeta(s) ==
  /\ Up /\ sweep.pc = "next" /\ s \in sweep.todo
  /\ sweep' = IF map[s] # "no" /\ active[s]
              THEN [sweep EXCEPT !.pc = "upsert", !.todo = @ \ {s}, !.sess = s, !.life = life[s]]
              ELSE [sweep EXCEPT !.todo = @ \ {s}]
  /\ UNCHANGED <<procVars, map, fin, create, hostVars, close, remove, boot, down, dbVars, countVars>>

SweepUpsert ==
  /\ Up /\ sweep.pc = "upsert"
  /\ Upsert(sweep.sess, sweep.life)
  /\ sweep' = [sweep EXCEPT !.pc = "snapshot"]
  /\ UNCHANGED <<procVars, map, fin, create, hostVars, close, remove, boot, down, ws, gone, countVars>>

SweepSnapshot ==
  /\ Up /\ sweep.pc = "snapshot"
  /\ sweep' = IF map[sweep.sess] # "no"
              THEN [sweep EXCEPT !.pc = "append", !.ring = ring[sweep.sess]]
              ELSE [sweep EXCEPT !.pc = "next"]
  /\ UNCHANGED <<procVars, map, fin, create, hostVars, close, remove, boot, down, dbVars, countVars>>

SweepAppend ==
  /\ Up /\ sweep.pc = "append"
  /\ Append(sweep.sess, sweep.ring)
  /\ sweep' = [sweep EXCEPT !.pc = "next"]
  /\ UNCHANGED <<procVars, map, fin, create, hostVars, close, remove, boot, down, ws, gone, countVars>>

SweepEnd ==
  /\ Up /\ sweep.pc = "next" /\ sweep.todo = {}
  /\ sweep' = NoSweep
  /\ UNCHANGED <<procVars, map, fin, create, hostVars, close, remove, boot, down, dbVars, countVars>>

-----------------------------------------------------------------------------
(* boot::run: shutdown, crash, restart. Requests in flight go on until the *)
(* runtime is dropped.                                                     *)

\* SIGTERM or DaemonShutdown; serve aborts the ticker, not a DaemonShutdown's sweep; shutdown_all
\* lists the sessions.
Shutdown ==
  /\ boot = "serving"
  /\ boot' = "killing"
  /\ sweep' \in {sweep, NoSweep}
  /\ down' = [todo |-> {s \in Sessions : map[s] # "no"},
              ids |-> {s \in Sessions : map[s] # "no"}, took |-> {}]
  /\ UNCHANGED <<procVars, map, fin, create, hostVars, close, remove, dbVars, countVars>>

ShutdownNext(s) ==
  /\ boot = "killing" /\ s \in down.todo /\ close["boot"] = NoClose
  /\ close' = [close EXCEPT !["boot"] = CloseOf("boot", s)]
  /\ down' = [down EXCEPT !.todo = @ \ {s}]
  /\ UNCHANGED <<procVars, map, fin, create, hostVars, remove, sweep, boot, dbVars, countVars>>

ShutdownTake ==
  /\ boot = "killing" /\ down.todo = {} /\ close["boot"] = NoClose
  /\ boot' = "await"
  /\ down' = [down EXCEPT !.took = pend]
  /\ pend' = {}
  /\ UNCHANGED <<procVars, map, fin, create, live, closing, close, remove, sweep, dbVars, countVars>>

\* The process is gone, with all it had in memory; its children get SIGHUP.
PowerOff ==
  /\ child' = [s \in Sessions |-> IF child[s] = "none" THEN "none" ELSE "dead"]
  /\ reading' = [s \in Sessions |-> FALSE] /\ active' = [s \in Sessions |-> FALSE]
  /\ wait' = [s \in Sessions |-> "none"]
  /\ life' = [s \in Sessions |-> "live"]
  /\ ring' = [s \in Sessions |-> 0]
  /\ map' = [s \in Sessions |-> "no"]
  /\ fin' = [s \in Sessions |-> NoFlush]
  /\ create' = [s \in Sessions |-> [pc |-> IF create[s].pc = "new" THEN "new" ELSE "done", life |-> "live"]]
  /\ live' = {} /\ closing' = {} /\ pend' = {}
  /\ close' = [k \in Closers |-> NoClose] /\ remove' = NoRemove
  /\ sweep' = NoSweep /\ down' = NotDown
  /\ UNCHANGED <<dbVars, countVars>>

\* The flushes are awaited, the database checkpointed, the process exits.
Exit ==
  /\ boot = "await" /\ Flushed(down.took)
  /\ boot' = "exited"
  /\ PowerOff

Crash ==
  /\ Up /\ boot' = "crashed"
  /\ PowerOff

\* A new process: cold_rehydrate_sessions makes every row a replay-only entry; query_sessions
\* turns a persisted Running (not an AtPrompt) into Exited.
Restart ==
  /\ ~Up /\ boots < MaxBoots
  /\ boots' = boots + 1 /\ boot' = "serving"
  /\ map' = [s \in Sessions |-> IF row[s] = NoRow THEN "no" ELSE "replay"]
  /\ \E ran \in SUBSET {s \in Sessions : row[s] # NoRow} :
       life' = [s \in Sessions |-> IF s \in ran THEN "final" ELSE
                                   IF row[s] = NoRow THEN "live" ELSE row[s].life]
  /\ ring' = [s \in Sessions |-> IF row[s] = NoRow THEN 0 ELSE row[s].ring]
  /\ UNCHANGED <<child, reading, wait, active, fin, create, hostVars, close, remove, sweep, down,
                 dbVars, closes, sweeps>>

-----------------------------------------------------------------------------
Thread(s) == WaitReturns(s) \/ OnExited(s) \/ FinalMeta(s) \/ FinalScrollback(s)
Create(s) == \/ CreateGate(s) \/ CreateExists(s) \/ CreateSpawn(s) \/ CreateFails(s)
             \/ CreateInsert(s) \/ CreateMeta(s) \/ CreatePersist(s)
CloseStep(k) == CloseSignal(k) \/ CloseReap(k) \/ CloseHonest(k) \/ CloseDelete(k)
RemoveStep == \/ RemoveMark \/ RemoveTake \/ RemoveAwait \/ RemoveDelete \/ RemoveStrays
              \/ \E s \in Sessions : RemoveNext(s)
Sweep == \/ SweepBegin \/ SweepUpsert \/ SweepSnapshot \/ SweepAppend \/ SweepEnd
         \/ \E s \in Sessions : SweepMeta(s)
ShutdownStep == ShutdownTake \/ Exit \/ \E s \in Sessions : ShutdownNext(s)

Next ==
  \/ \E s \in Sessions : \/ ReaderChunk(s) \/ ReaderEof(s) \/ ChildExit(s)
                         \/ Thread(s) \/ Create(s) \/ Kill(s)
  \/ \E k \in Closers : CloseStep(k)
  \/ \E w \in Workspaces : RemoveBegin(w)
  \/ RemoveStep
  \/ Sweep
  \/ Shutdown \/ ShutdownStep \/ Crash \/ Restart

Spec == Init /\ [][Next]_vars

(* Threads are scheduled and tasks polled; the database answers. Children  *)
(* and readers end when they please, clients ask for what they please.     *)
Fairness ==
  /\ \A s \in Sessions : WF_vars(Thread(s))
  /\ \A k \in Closers : WF_vars(CloseStep(k))
  /\ WF_vars(RemoveStep) /\ WF_vars(ShutdownStep)

FairSpec == Spec /\ Fairness

-----------------------------------------------------------------------------
(* Properties.                                                             *)

\* While the daemon runs, a child that is alive can be reached: its session is in the
\* supervisor's map, or the create that spawned it is about to put it there. No kill, removal or
\* rehydration forgets a session whose child it has not seen die. One child is out of reach and
\* stays so: that of a create which failed after it had spawned it (CreateFails).
LiveIsTracked ==
  Up => \A s \in Sessions :
    child[s] = "alive" => map[s] = "pty" \/ create[s].pc \in {"insert", "failed"}

\* What an honest close or the removal of its workspace deleted stays deleted, whatever persist,
\* sweep or final flush of that session is still in flight, and across restarts.
NoResurrection == \A s \in gone : row[s] = NoRow

\* A session whose creation was answered and that still runs is in ListSessions: by its row or, if
\* the persist failed, by live_sessions.
ListedWhileLive ==
  Up => \A s \in Sessions :
    create[s].pc = "done" /\ map[s] = "pty" /\ child[s] = "alive" => s \in live \/ row[s] # NoRow

\* A clean exit abandons no final flush of a session that shutdown_all saw, except one whose
\* handle a RemoveWorkspace in flight had taken to await it itself.
ShutdownDrains ==
  [][boot = "await" /\ boot' = "exited" =>
       \A s \in down.ids : fin[s].pc \in {"meta", "scroll"} => s \in remove.took]_vars

\* on_exited finds the session gone only when the child died before create had put it there, or
\* create failed: kill removes it strictly after the callback has captured the final state.
CaptureBeforeReap ==
  [][\A s \in Sessions :
       fin[s].pc = "none" /\ fin'[s].pc = "missed" => create[s].pc \in {"insert", "failed"}]_vars

\* When RemoveWorkspace is acknowledged, every session a client had been given when it was marked
\* closing, and every one tracked when the row was deleted, is dead, untracked and has no row.
RemovalIsComplete ==
  [][remove.pc = "await" /\ remove.phase = 2 /\ remove'.pc = "idle" /\ Up' =>
       \A s \in remove.known : child[s] # "alive" /\ map[s] = "no" /\ row[s] = NoRow]_vars

\* A close ends although a descendant may hold the PTY for ever: only the wait thread is joined
\* without a bound, and its child was killed.
CloseReturns == \A k \in Closers : (close[k].pc # "idle") ~> (close[k].pc = "idle" \/ ~Up)

\* The daemon's drain ends, whatever requests are in flight.
ShutdownCompletes == (boot = "killing") ~> ~Up

\* flush_session_final's doc: "calling this after (or racing) a flush tick for the same session
\* converges on the same final state": what the final flush wrote, a tick does not take back.
FinalFlushConverges ==
  [][\A s \in Sessions :
       fin[s].pc = "done" /\ sweep' # sweep /\ row[s] # NoRow /\ row'[s] # NoRow =>
         /\ row[s].life = "final" => row'[s].life = "final"
         /\ row'[s].ring >= row[s].ring]_vars

\* closing_workspaces' doc: a create can no longer "survive as an orphaned live shell inside a
\* deleted workspace".
NoOrphanInRemovedWorkspace ==
  Up /\ remove.pc = "idle" =>
    \A s \in Sessions : create[s].pc = "done" /\ child[s] = "alive" => HasWorkspace(s)
=============================================================================
