# A TLA+ verification of builder-pro-ai

builder-pro-ai is a desktop workbench. Two daemons outlive its window:
`bpa-sessiond` owns terminals, `bpa-orchd` owns projects, tasks, a knowledge
graph and tool connections. The desktop app (`src-tauri`, the "Core") is a client of
both and brings them up; a React frontend (`src/`) is a client of the Core. This
directory holds TLA+ modules of the terminal sessions and the way to them from the window,
of the life of a daemon, and of what orchd keeps, calls and writes, with the TLC runs that check them and
the proofs that TLAPS checks.

- [Inventory](#inventory): the system, part by part
- [Modules](#modules): what models what
- [Runs](#runs): what is checked, on which instance, and what it shows
- [Findings](#findings)
- [Proofs](#proofs)
- [Limits](#limits): what is not modelled, and what the models leave out
- [Plan](#plan)

## Inventory

### bpa-sessiond (`crates/sessiond`)

| part | state | operations | correct means |
|---|---|---|---|
| PTY threads (`pty_supervisor.rs`) | per session: the scrollback ring, `is_active`, lifecycle, the `sinks` list of (sub_id, Sender); a reader thread, a wait thread, a ticker | read a chunk, fan it out, end of stream, reap the child, `on_exited` | every attached client sees what the child wrote, in order, to the end; nobody waits for a stream that has ended |
| `Supervisor` (same file) | `sessions: HashMap<id, entry>` | `create`, `kill`, `remove_inactive`, `subscribe_output`, `unsubscribe_output`, `snapshot_scrollback`, `rehydrate_inactive`, `shutdown_all` | no live child is forgotten; a kill returns |
| `AttachRegistry` (`attach.rs`) | `entries: HashMap<(session, conn), Live or ReplayOnly>`, `next_sub_id`; a forwarder task per attachment | `attach`, `detach`, `detach_all_for_conn`, `detach_all`, `remove_session` | one stream per connection and session; a replaced, detached or lost one ends and frees its thread |
| Request handling (`socket_server.rs`) | `live_sessions`, `closing_workspaces`, `pending_final_flushes`; per connection an outbound queue of `CLIENT_OUTQ_CAP` frames | dispatch of every `Request`, `install_push_callbacks`, `flush_scrollback_once`, `flush_session_final`, `make_push_sink`, connection cleanup | what is deleted stays deleted; what is live is listed; an acknowledged removal is complete; a slow client holds nobody up |
| Database (`persistence.rs`) | SQLite: workspace, roots, session, scrollback, command_events | upserts, `append_scrollback`, `delete_session`, `delete_workspace`, migrations | foreign keys refuse late writes |
| Boot (`boot.rs`) | the accept loop, the shutdown channel | `bind_fresh`, `cold_rehydrate_sessions`, `run` to the drain and the checkpoint | a clean exit loses no final state; a restart shows what was stored |
| Terminal state (`scrollback.rs`, `osc_parser.rs`, `live_grid.rs`) | bounded ring, OSC carry, cell grid | push, strip, query | bytes; no concurrency of its own |

Parts talk through three kinds of shared state: the mutexes of one session
(`sinks`, `scrollback`, `is_active`, lifecycle), each taken for an instant and never
two at once; the one async mutex around the database, which every task
waits for; and channels (an unbounded std channel per attachment, a bounded
tokio channel per connection). `on_exited` runs on the session's own wait thread, so
the registry, the database tasks and `kill` meet there.

### The Core (`src-tauri`)

| part | state | operations | correct means |
|---|---|---|---|
| `socket_client.rs` | `cmd_tx` channel, `pending` by correlation id, `live`, `HandshakeSuspectCounter` | `connect_with_retry`, `request`, `connection_task` | an answer reaches its own caller; nothing is sent twice; a lost connection fails what was in flight |
| `orchd_client.rs` | the same shape, to the other daemon | the same | the same |
| `broker.rs` | Tauri channels by session; whether a disconnect was seen | dispatch of pushes and connection events, register and remove a channel | output goes to the pane that asked; a reconnect is announced |
| `commands.rs` | a write lock per session; the roots of the workspaces (BL-109) | `attach_session`, `write_stdin`, the workspace commands, `ensure_registered_root` | pastes do not mix; the copy of the roots follows the daemon |
| `terminal-manager.ts` (frontend) | per session an entry: attach state and generation | `attach`, `resetAllAttachments`, `dispose` | what is shown as attached is fed |
| `lib.rs`, `launchd.rs`, `commands.rs` (bring-up, upgrade) | the client handle, the status shown, the marker file of the release last applied | bring up each daemon, reload it after an update, upgrade and retry on request | the daemon that runs is the one the release asks for; a start that is due happens |
| `power.rs`, `fs_watcher.rs`, `stats.rs`, other commands | little; power assertions, watchers | command wrappers, OS calls | |

### Shared crates

`protocol` (frames with a length prefix, preamble, message types), `daemon-core`
(singleton lock with take-over of a stale socket, version handshake, migration
runner, `Broadcaster`), `paths`, `secrets`, `mcp` (client side of the tool
protocol).

### bpa-orchd (`crates/orchd`)

| part | state | operations | correct means |
|---|---|---|---|
| store (`persistence.rs`) | SQLite: projects, workspace links, goals, ideas, insights, tasks, rows of rules, docs, workflows, policies, consents, invocations | CRUD, moves in the goal and task trees, accept of an insight, archive | trees without cycles inside one project; an archived project is frozen |
| graph (`graph.rs`) | nodes and edges | node and edge verbs, entity references seeded by other verbs, cascades, project listing | edges have ends; whoever shows a changed graph is told |
| files (`persistence.rs`, `ruleset_files.rs`, `skills/`) | rules, docs, workflow definitions, skills: a file each and a row with its hash | save, accept, move, delete, boot seeding | a file an owner edited is not lost; an archived project's files stay |
| trust and MCP (`trust.rs`, `mcp/`) | servers, consents, tool cache, policies, invocations, one lock per policy | the gate, `connect`, `call_tool` | no call without consent for what it calls; caps hold under concurrency; no lock is kept |
| connectors (`connectors/`) | accounts; OAuth logins in progress; the Keychain | begin, complete, add key, `token_for` with refresh, delete, invoke | the Keychain holds what the rows name |
| research (`research/`) | runs, the detached driver of each | start, drive, reconcile at boot | a run ends in one final status |
| export and import (`export.rs`) | | dump, restore in one transaction | a backup restores |
| server, boot | connections, the broadcaster | as in sessiond | as in sessiond |

Every verb that only reads and writes the store runs under one async mutex and in one
SQLite transaction. What is hard begins where a verb leaves it: a network call between two
lock phases, a file or a Keychain entry that does not roll back, a detached task.

### What is hard

- **Interleaving.** A session's end is four events (child exits, wait thread
  notices, reader reads to the end, somebody kills) in every order, against attach,
  detach, sweep, removal and shutdown. A call through the gate reads the store, dials, and
  writes its row after the owner has changed servers, policies and consents.
- **Answers that come late**, for a connection, an entry or a command that has been replaced.
- **Checked, then used.** `is_active`, `live`, `workspace_exists`, the policy a call queues for,
  the account a refresh was begun for.
- **Bounded queues** in both directions of a socket, with a client that does not
  read while it writes.
- **Crash and restart** between spawn, persist, sweep, final flush and delete; between a file's
  write and its row; between a kickstart and its marker.
- **Two instances** of a daemon about one lock and one socket file.
- **Threads that may never end**, because a descendant of the shell holds the PTY.
- **Long legal sequences**: moves in a tree that close a cycle, cascades, archive and restore.

Every place is listed with its line under `hazards` in `PROJECT.json`, with the
properties that cover it or the reason why none does.

## Modules

A module per component; the `MC` modules extend the components that TLC checks together (but for
`SessionHost` in `MCDaemon` and `OwnerFiles` and `Credentials` in `MCOrchd`, which are instances), and
the `_proofs` modules hold the theorems.

| module | component | `MC` modules |
|---|---|---|
| `AttachStream` | one session and the connections attached to it | `MCLive`, `MCLinks` |
| `SessionHost` | the daemon around its sessions | `MCSessionHost`, `MCDaemon` |
| `ClientLink` | one client and the daemon's end of its connection | `MCLive`, `MCLinks`, `MCClientLink` |
| `RequestLink` | what `request` promises its callers; `ClientLink` implements it | (through `ClientLink`) |
| `Terminals` | a session in the window and the Core: attachment, channel, stdin | `MCDaemon` |
| `WorkspaceRoots` | sessiond's workspaces and the Core's copy of their roots | `MCLive` |
| `DaemonLifecycle` | lock, socket file, launchd job and application | `MCDaemon` |
| `DomainStore` | the domain rows of orchd | `MCStore` |
| `GraphStore` | extends `DomainStore` with the graph, export and import | `MCStore` |
| `OwnerFiles` | files of the owner and their rows | `MCOrchd` |
| `McpGate` | outside calls: trust, policies, research | `MCOrchd` |
| `Credentials` | accounts, bearers and the Keychain | `MCOrchd` |

An `MC` module that holds several components has a variable `part`: a behaviour is of one of them
and the others keep their initial state, so that their state spaces add up and do not
multiply.

A definition whose comment begins with `Bug:` is a faulty variant of the definition
below it. No action uses it. It is there to show that a property fails when
the code has that fault (`mutants` in `PROJECT.json` pairs each property with one).

### AttachStream: one session and the connections attached to it

A chunk is the result of one `read()` of the PTY master and is represented by its
number, so the scrollback ring is the number of chunks pushed.

| in the code | in the model |
|---|---|
| reader thread: push to the ring, `sinks.retain(send)`, EOF, `sinks.clear()` | `ReaderPush`, `ReaderCast`, `ReaderEof`, `ReaderClear`, one per lock taken; `rpc` is where it is |
| wait thread, `on_exited`, `AttachRegistry::remove_session` | `WaitReap`, `WaitCallback`; `wpc` |
| `Supervisor::kill`: the entry leaves the map | `KillReap`, `tracked` |
| `attach`: `meta()`, `subscribe_output`, `snapshot_scrollback`, send of the `Replay`, `entries.insert` | `AttachBegin`, `AttachSubscribe`, `AttachSnapshot`, `AttachReplay`, `AttachInsert`, and `AttachReplayOnly` for the other branch; `apc` is where the connection's attach is |
| `detach`, `detach_all_for_conn`, `detach_all` | `Detach`, `DetachAllForConn`, `DetachAll` |
| forwarder: look at cancel, `recv_timeout`, look again, `blocking_send` | `FwdPoll`, `FwdTake`, `FwdTimeout`, `FwdSend`, `FwdSendGone`, `FwdReturn`; `fwd[s]` is where it is, `poll`, `recv` or `send` |
| the push sink's task finds the outbound queue full | `PushSinkOverflow` |
| the shell and its descendants | `PtyWrite`, `ChildExit`, `SlaveClose` |

`seen`, `late`, `inhand` and `owner` are history: the last chunk the client was shown, how many
outputs were sent after cancel, whether the forwarder was past its last look at the flag when cancel
was set, and for whom a sub_id was allocated.

### SessionHost: the daemon around its sessions

A step is what one task or thread does between two awaits, joins or locks at which another
can get in between. Every request is a small program whose `pc` says where
it is: `create[s]`, `close[k]` (for a client, a removal, the shutdown), `remove`, `sweep`,
`fin[s]` (the detached final flush), `boot`.

| in the code | in the model |
|---|---|
| `CreateSession` | `CreateGate`, `CreateExists`, `CreateSpawn` or `CreateFails`, `CreateInsert`, `CreateMeta`, `CreatePersist` |
| `Supervisor::kill`, `close_session`, `shutdown_all` | `Kill`, `CloseSignal`, `CloseReap`, `CloseHonest`, `CloseDelete`, `ShutdownNext` |
| `RemoveWorkspace` | `RemoveBegin`, `RemoveMark`, `RemoveNext`, `RemoveTake`, `RemoveAwait`, `RemoveDelete`, `RemoveStrays` |
| `flush_scrollback_once` | `SweepBegin`, `SweepMeta`, `SweepUpsert`, `SweepSnapshot`, `SweepAppend`, `SweepEnd` |
| wait thread, `on_exited`, `flush_session_final` | `WaitReturns`, `OnExited`, `FinalMeta`, `FinalScrollback` |
| reader and child | `ReaderChunk`, `ReaderEof`, `ChildExit` |
| `boot::run`, `cold_rehydrate_sessions` | `Shutdown`, `ShutdownTake`, `Exit`, `Crash`, `Restart` |
| SQLite with `foreign_keys` on | `Upsert` and `Append`, which fail without the row they reference |

A session's lifecycle is `live` or `final`, its scrollback a number of chunks. `gone`
(sessions whose row was deleted) and `remove.known` (sessions a client had been
given when the removal began) are history.

### ClientLink: one client and the daemon's end of its connection

| in the code | in the model |
|---|---|
| `connect_with_retry`, `HandshakeSuspectCounter` | `BootAccept`, `BootRefused`, `BootTransient`, `BootIncompatible` |
| `connect_with_backoff` in the task | `DialAccept`, `DialRefused`, `DialTransient`, `DialIncompatible` |
| `request_inner`: `live`, `cmd_tx.send`, the timeout | `Gate`, `Send`, `Timeout` |
| `run_connection` | `Take`, `Written`, `Read`, `Eof`; `task` |
| the loop around it | `NotLive`, `Drain`, `FireDisconnected`, `FireConnected`, `DropClient` |
| `handle_client`: dispatch, `try_send` of the reply, leaving | `Dispatch`, `Reply`, `Leave`, `Close` |
| its writer task | `WriterTake`, `WriterWrite` |
| `Broadcaster::broadcast`, `make_push_sink` | `Broadcast`, `SinkPush` |
| the kernel's buffers | `up`, `down`, sequences of at most `SockCap` frames |

A frame carries the correlation id and, as history, the request it answers (`of`);
`via` and `answer` record which connection a caller saw and whose answer it got;
`refused` that an attempt at boot found nobody listening.

**`RequestLink`** is the abstract specification: a request is new, asked, then answered, failed or
refused; it is dispatched at most once; the answer is the one to that dispatch. The mapping takes
a caller in `send` or `wait` to `asked`. That ids are counted, that the pending map is
drained at a drop and that a frame too large is failed are all in the way from one to the other.

### Terminals: a session in the window and the Core

| in the code | in the model |
|---|---|
| `TerminalManager.attach` and its completions | `Attach`, `Resolved`, `Rejected`; `Current` is the check of entry, generation and state |
| `resetAllAttachments` on `daemon://reconnected`; `dispose` and a new entry | `Reconnected`, `Reopen` |
| `attach_session`: register the channel, ask, remove it on failure | `AttachSession`, `Dispatch`, `DaemonAttaches`, `AttachFails`, `RemoveAttachment` |
| `write_stdin_locked`: the lock, a request per chunk | `WriteStdin`, `Lock`, `SendChunk`, `GiveUp`; `wire` |
| `Supervisor::write_stdin` | `DaemonWrites` |
| connection lost and back, `map_conn_state` | `Drop`, `ConnectAgain`; `owed` counts the events the window has yet to handle |
| `ChildExited` in the broker | `Evict` |

An attempt and a writer are each one call of a command. `ClientLink` and `AttachStream` are seen from
above: a connection is its number, an attachment of the daemon the connection it `feeds`.

### WorkspaceRoots: workspaces and the Core's copy

| in the code | in the model |
|---|---|
| the five workspace requests in `dispatch_inner`, one transaction and its broadcast | `ServeList`, `ServeChange`, `ServeRefused`; `Other` for other clients; `Announce` for `WorkspaceRemoved`, which comes after the strays are killed |
| `Broadcaster::broadcast` skips a full queue | `Pushed` |
| the workspace commands, their replies | `AskList`, `AskChange`, `Return`, `TimeOut` |
| `load_`, `upsert_`, `remove_workspace_roots` | `Load`, `Upsert` |
| pushes on the connection's task | `Receive` |

`alone` and `settled` are history: which commands in flight share their workspaces with nobody, and
which workspaces such a command was the last to touch.

### DaemonLifecycle: a daemon's life and replacement

| in the code | in the model |
|---|---|
| `main`, `acquire_lock_at`, `bind_fresh`, `run`, exit | `TakeLock`, `ClearPath`, `Bind`, `Fail`, `Stop`, `Unlink`, `Exit`; `proc[p].at` |
| launchd: KeepAlive, kickstart, kickstart -k | `Spawn`, `Kickstart`, `KickstartForce`; `job` is the instance it runs and whether a start is due |
| `setup`, `ensure_daemon_running`, `reconcile_daemon_version` | `Launch`, `EnsureRunning`, `Reconcile`, `WriteMarker`; `app.at` |
| `bring_up_daemon`, `bring_up_orchd`, the statuses | `Connect`, `Meet`, `Application`, `Lose`, `Reconnect` |
| `upgrade_daemon_core`, `orchd_reconnect` | `Upgrade`, `ForceUpgrade`, `Retry` |
| the user, the updater, faults | `Quit`, `Update`, `Crash`, `StartByHand`; each fault costs one of `MaxFaults` |

### DomainStore and GraphStore: what orchd keeps

One action per verb: it is one transaction under one mutex, and a refused verb is no step. A row keeps
what verbs decide by (kind, project, parent, status) and one bit for all other columns. The
accept of an insight, which makes goals, tasks and a graph node, is one action in both modules:
`GraphStore` conjoins a domain action with what it does to the graph and to
`pushed`, the projects that were sent `GraphChanged`. Export is the pair of operators `Bundle` and
import of the bundles in one transaction; the two backup properties compare them with the store.

### OwnerFiles: rules, docs, workflows, skills

The file is the truth and the row holds its hash. A verb holds the mutex but its file write
does not roll back: `verb.pc` is between writing, removing the old file and the commit, and edits from outside
and crashes come in between. `owed` is history: files orchd wrote and nobody asked to remove.

### McpGate: calls to the outside

| in the code | in the model |
|---|---|
| verbs on servers, tools, consents, policies, accounts, ideas | one action each, with the cascades of the foreign keys |
| `McpCallTool`, `ConnectorInvoke`: `policy_cap_guard`, the gate, the dial, the row | `Attempt`, `AcquireLock`, `Admit` or `Refuse`, `Record` |
| `McpConnect` | `Connect`, `Admit`, `CacheTools` or `ConnectFails` |
| `start_research_run`, `run_research` | `StartRun`, `SetRunning`, the same gate without a lock, `Settle` |
| the window of a minute | `Age` |
| death of orchd and the next boot | `Crash` |

### Credentials: rows and Keychain

A Keychain entry is a pair of owner and slot. A login, a refresh and `McpSetServerBearer` write it
without the mutex; a delete holds the mutex from lookup to commit and removes the entries first, one
per step (`DeleteBegin`, `DeleteEntry`, `DeleteRow`). Tokens have no value: entries are
there or not. `leaky` and `hollow` are history: what the code leaves open, see finding 7.

### How the modules fit together

`AttachStream` treats a connection as `up`, `overflow` or `down`; these are `ClientLink`'s
`peer = "serve"` without and with `notified`, and `cleanup`/`closed`. `SessionHost`
treats a session's threads as `AttachStream` does (`wait` is `wpc`, `reading` is
`rpc # "done"`, `map = "pty"` is `tracked`) but sees many sessions and no clients.
`DaemonLifecycle`'s `draining` is `SessionHost`'s shutdown and its `serving` is a daemon
that `ClientLink` can dial; a force-upgrade or crash there is `Leave` and `Close` here.
`Terminals` and `WorkspaceRoots` stand on `ClientLink`: its drop and reconnect are `Drop` and
`ConnectAgain`, or `Cut`, here, its timeout `AttachFails`, `GiveUp` and `TimeOut`.
`McpGate`'s `DeleteAccount` and `Credentials`' delete are the same verb, seen by its
cascade and by its Keychain entries. `GraphStore` and `DomainStore` are composed for real, since
nearly every domain verb writes the graph. The others share a few flags, and are
checked separately: composing them would multiply their state spaces without an interaction that
one of them leaves out.

## Runs

Each run ends within four minutes on two workers. Deadlock is not checked: a session ends,
requests and attempts are used up, and then the system rightly stops.

| run | instance | shows |
|---|---|---|
| `live` | one connection, three chunks; or three requests, three pushes, every queue of length one; or two commands on two workspaces and a change by another client or a cut or timeout, a queue of two | `NoGap`, `GracefulDrain`: a client sees the ring and then every chunk after it, and the whole stream if it stays. `LateOutputBound`: after a detach no output but the one already past the re-check, if there was one. `ForwardersTerminate`, `DisconnectReleases`: no forwarder thread stays behind. `InFlightResolves`, `SlowClientReconnects`: full queues end in an answer, a failure or a reconnect. `OwnWordHolds`: after a command that met no other, the copy of the roots is what the daemon has, whatever pushes were skipped |
| `links` | three of four requests, one too large, over two connections; or two connections co-attached to one session | `RequestsServed`: `ClientLink` implements `RequestLink`. `NoneStranded`, `BootEscalates`. `NoOrphanForwarder`, `CancelledIsCutOff`, `NoSinkWithoutProducer`: re-attach, detach and disconnect retire the right stream and no other |
| `session_host` | one session with everything (at most two of a client close, a sweep and a restart), or two of one workspace whose creates follow one another, without these | `LiveIsTracked`: no live child is out of reach but that of a create which failed (finding 13). `NoResurrection`, `ListedWhileLive`, `CaptureBeforeReap`, `ShutdownDrains`, `RemovalIsComplete` |
| `daemons` | two processes, two releases, three acts of the user, one fault of any kind; or one session that closes or lives over a restart; or three attempts to attach or two pastes of two chunks, over three connections | `SoleServer`, `HonestyKept`, `AttachedIsCurrent`, `PastesDoNotMix`, and under fairness `DueStartServes`, `CloseReturns`, `ShutdownCompletes` |
| `store` | two projects; every domain verb on three rows, or every graph verb on three nodes | `TreesHold`, `ArchivedFrozen`: no sequence of moves closes a cycle, crosses projects or touches what is archived. `GraphSound`, `PushCoversChange`, `ArchivedGraphKept`. `LocalBackupRestores`: a backup without cross-project edges restores |
| `orchd` | two attempts under one policy or one server, one verb; one entry of a file kind with one edit or crash; the secrets of one account with two refreshes, or of one server, with one fault | `LockServes`, `RunHasDriver`, `CapHolds`. `NothingLost`, `ArchivedFilesKept`. `SecretsMatchRows` |
| `session_converges` | one session, one sweep | finding 1 |
| `session_orphan` | one session, one removal | finding 2 |
| `client_stale` | one request, two connections | finding 3 |
| `client_hang` | two requests, a channel of one | finding 4 |
| `backup` | two projects, one edge | finding 5 |
| `caps` | a tool call and a research run | finding 6 |

### Bounds, and why they are enough

- `MaxChunks = 3`: one chunk before the snapshot, one between snapshot and replay,
  one after; a gap or a reordering needs two neighbours in one channel.
- `MaxSubs = 2` with two connections: a re-attach by one, or one attachment of each. A
  third would need three attachments of one session to interact, and every step of
  the registry looks at one key at a time. The proofs have no such bound. One of the two connections
  is not lost (`OneStays`): with both gone, each goes the way of the single one in `live`. The `VIEW`
  of `links` drops `seen`, `late` and `inhand`, which guard no step and which its properties do not read, so
  that states equal but for them are equal in all that is checked.
- `MaxOut = 1` per session: scrollback that is older differs from scrollback that is
  newer. Two of anything adds no order that one does not have.
- `MaxSweeps`, `MaxCloses`: one sweep and one client close at a time (one flusher task; a
  second client close only repeats `Kill`, while removal and shutdown close
  concurrently with it). `MaxBoots = 2`: a crash and what the next process makes of it.
- `OneOrTight` (`session_host`): two sessions only for the creates against removal and shutdown,
  which is where two of them differ from one twice.
- `MaxConns = 2`: one reconnect, so that a stale frame, id or command could meet a new
  connection. `CmdCap`, `OutCap`, `SockCap` of one or two instead of 256, 1024 and some
  kilobytes: every queue gets full. `SuspectCap = 2` instead of 8 with
  `BootAttempts = 1` below it.
- `Impatient`: the requests whose 30 seconds may elapse. One in the
  safety run, none in the liveness run, since a property that relies on the timeout would
  say nothing about the rest.
- `daemons`: two processes are the leaving one and its successor; a third waits for the same
  lock. Three acts reach update, upgrade and retry in one behaviour; the single fault may be of each
  kind, in each state.
- `Terminals`: a third attempt is the one that is current when the answers to two earlier ones come
  late; three connections are two reconnects, the second before the first is handled. An attempt and a
  write share the connection alone, so a behaviour has one or the other (`Apart`).
- `WorkspaceRoots`: two commands that overlap, and another client's change or a fault, not both; a queue of two
  is full with a push and a reply.
- `store`: `MaxDepth = 2` is reached by three rows, so that the walk's bound is met. A cycle in
  a tree needs two rows, a cascade three; a ghost node needs an edge between two projects.
  `GraphBound` stores rewrites the graph cannot tell apart once and does not go on from them.
- `orchd`: two attempts are a race for a cap of one. One policy, because an attempt
  is judged by one; the case of a second is what `CapHolds` leaves out by its premise. A file verb touches
  one entry. A refresh, another one and a delete are three actors on one account.

### Fairness

Weak fairness of what the operating system, tokio or launchd schedules: threads run, tasks are
polled, the database answers, `recv_timeout` returns. In `AttachStream` the
reader, the wait thread, an attach in flight and each forwarder; in `SessionHost` a session's
wait thread and final flush, each close, the removal and the drain; in
`ClientLink` the connection task, the handler, the writer and the bounded wait of its
cleanup, and a caller's `send`; in `DaemonLifecycle` each process, launchd's spawn of a start that
is due, and the application's own steps. Not fair: the shell, its descendants, the clients, the user, faults,
a caller's timeout, reading of the last output (a descendant may hold the PTY for
ever, and `CloseReturns` says that a close ends even so).

No action needs strong fairness: a waiting step, once enabled, is disabled only by progress of
the same actor. A caller's `send` is the exception (others may take the
room first), which is why no property that the code keeps relies on it. The store, the files,
the gate and the Keychain have safety properties only: whether a call ever returns is up to the
peer and to a timeout around it; nor does the window promise that an attach succeeds.

## Findings

Six places where a comment promises more than the code does. Each is a run whose
single property states the comment and that TLC refutes.

1. `session_converges`: a flush tick that looked at a session before it exited
   writes its older lifecycle or scrollback over what `flush_session_final` wrote; the tick
   takes the meta and the snapshot before it waits for the database
   (`socket_server.rs:460-463` says they converge).
2. `session_orphan`: a create that passed the gate and `workspace_exists` before the
   closing mark may enter `live_sessions` after the removal has listed the strays, and
   then lives on in a workspace that is gone (`socket_server.rs:108-112`).
   `RemovalIsComplete` says what does hold.
3. `client_stale`: `live` is read once, before the command is enqueued; after a drop the
   command is dispatched on the next connection (`socket_client.rs:238-242`).
   `RequestsServed` holds all the same.
4. `client_hang`: the timeout covers the reply and not the wait for room in the
   command channel (`socket_client.rs:435-438`).
5. `backup`: an edge between two projects is in the bundle of each, and a whole-store import
   meets its id twice and rolls back (`graph.rs:989-991`). `LocalBackupRestores` is what holds.
6. `caps`: a research run passes the gate without its policy's lock, so a run and a call
   both pass a cap with room for one (`trust.rs:281-286`). `CapHolds` is what holds.

Met while modelling, and written into the properties that hold rather than given a run:

7. A delete of an account that overtakes a refresh in its network phase leaves the new tokens in the
   Keychain with no row, which `accounts.rs:726-729` says does not happen; `McpSetServerBearer`
   against `McpDeleteServer` is the same race; and `McpDeleteServer` of an archived project's
   server deletes the bearer, then refuses (`SecretsMatchRows` exempts these by
   `leaky` and `hollow`).
8. The first version marker can lie: a first launch that ends, or fails to write, between the
   kickstart and the marker leaves a running daemon and none, and after an update the absent marker is taken
   for a first launch (`lib.rs:299-304`). `HonestyKept` is what holds.
9. `launchd.rs:299-305` says that only `upgrade_daemon_core` calls `kickstart_force`;
   `reconcile_daemon_version` does too, at every launch after an update.
10. A daemon run by hand that drains while launchd's instance fails to get the lock leaves no daemon:
    the loser exits with success and is not started again (`DueStartServes` speaks of launchd's alone).

11. The manager's `attached` is "the firehose is live" (`terminal-manager.ts:85`), but the channel may be
    gone: an attempt that failed late, after its caller's generation was reset, removes the session's
    channel from the broker's map, whichever attempt registered it (`commands.rs:1132-1142`).
    `AttachedIsCurrent` speaks of the connection and not of the channel.
12. The updates from a command's own reply are there so that "the reply-vs-broadcast ordering can never
    leave a just-created workspace unguardable" (`commands.rs:252-253`). A list that the daemon answered
    before a create, and whose task goes on after the create's, replaces the copy by one without the
    new workspace; an upsert whose task goes on late puts back a root removed since. `OwnWordHolds` is
    stated for commands that overlap with none on the same workspaces.
13. `Supervisor::create` may fail when the child runs already: `try_clone_reader` or `take_writer`
    (`pty_supervisor.rs:386-394`) or the spawn of the reader, wait or ticker thread (506, 542, 568). It neither
    kills the child nor enters it into the map. After 542 and 568 the reader thread holds the PTY open, so
    the child lives on without even a hangup, and no request, removal or shutdown can name it; after 568
    its wait thread may call `on_exited`, which finds no session. `CreateFails` is that outcome;
    `LiveIsTracked` says that there is no other way to lose a child, and exempts this one.
14. "Detach/supersede must be effective immediately (no further Output reaches the client)"
    (`attach.rs:300-304`). A forwarder that has passed the re-check at line 305 when `retire` sets `cancel` still
    sends the chunk it has, which may take as long as the outbound queue stays full, and `abort` does not
    stop a blocking task that runs. `LateOutputBound` is what holds: that chunk and no other, and none
    where the forwarder was anywhere else, waiting in `recv_timeout` or holding a chunk before the re-check.

## Proofs

Forty-two theorems, each for every value of the constants: every invariant and every safety property of
the passing runs is one of them. They rest on named assumptions on constants alone: bounds are naturals
and markers are not among what they mark (`StreamAssumption`, `HostAssumption`, `RowAssumption`,
`LinkAssumption`, `RootsAssumption`, `NoneAssumption`, `DepthAssumption`, `VersionsAssumption`,
`BoundsAssumption`, `RowsAssumption`, `VerbsAssumption`, `ContentsAssumption`, `FaultsAssumption`), each
session has a workspace (in `HostAssumption`), no account is a server (`OwnersAssumption`), and the calls
are finitely many (`CallsAssumption`).

| module | theorem | for every |
|---|---|---|
| `AttachStream_proofs` | `TypeCorrect`, `NoSinkTheorem`, `LateOutputTheorem`, `CutOffTheorem`, `NoOrphanTheorem`, `NoGapTheorem`, `DrainTheorem` | number of connections, chunks, attachments |
| `SessionHost_proofs` | `HostTypeCorrect`, `TrackedTheorem`, `ResurrectionTheorem`, `ListedTheorem`, `CaptureTheorem`, `DrainsTheorem`, `RemovalTheorem` | number of sessions, workspaces, closes, sweeps, restarts |
| `ClientLink_proofs` | `LinkTypeCorrect`, `StrandedTheorem`, `EscalatesTheorem`, `RequestsTheorem` (the refinement) | number of requests, connections, pushes, any queue bounds |
| `Terminals_proofs` | `TerminalTypeCorrect`, `AttachedTheorem`, `PastesTheorem` | number of attempts, writers, chunks, connections |
| `WorkspaceRoots_proofs` | `RootsTypeCorrect`, `OwnWordTheorem` | number of workspaces, roots, commands, any queue bound |
| `DaemonLifecycle_proofs` | `DaemonTypeCorrect`, `SoleServerTheorem`, `HonestyTheorem` | number of processes, releases, acts, faults |
| `GraphStore_proofs` | of `DomainStore`: `DomainTypeCorrect`, `TreesTheorem`, `FrozenTheorem`; of `GraphStore`: `GraphTypeCorrect`, `SoundTheorem`, `PushTheorem`, `ArchivedGraphTheorem`, `BackupTheorem` | number of rows, projects, nodes and edges, any depth bound |
| `MCOrchd_proofs` | of `McpGate`: `GateTypeCorrect`, `LockTheorem`, `DriverTheorem`, `CapTheorem`; of the three parts: `OrchdTypeCorrect`, `NothingLostTheorem`, `SecretsTheorem`, `FilesKeptTheorem` | number of servers, accounts, policies, calls, documents, contents, faults |

Type correctness is a theorem of every module, and of the runs only `orchd` checks it (`OrchdTypeOK`).

Hardly any of the properties is inductive. What each needs besides, and why:

**AttachStream.** `TypeOK` fails to be inductive at `ReaderCast`, which appends `ring` to the channels
(a chunk only if the ring is not empty), and at `FwdSend`, which takes the head of a
channel (which exists only if the forwarder took it). `Control` states both, and
`TypeInv == TypeOK /\ Control`. On it stand four strengthenings:

- `EndOfStream`, for `NoSinkWithoutProducer`: `is_active` is false from the moment the
  reader leaves its loop. Only the re-check of `is_active` under the sinks lock
  (`Subscribes`) keeps it.
- `LateInv`, for `LateOutputBound`: before cancel nothing is late, and a cancelled forwarder that is still
  sending has the chunk it had in hand then, so far unsent (`late < inhand`). It looks at `cancel` again
  after the next one arrives, and so never sends that.
- `Registry`, for `CancelledIsCutOff` and `NoOrphanForwarder`. A sub_id at or past `nextSub` is
  nowhere (`Fresh`); an entry and an attach in flight name attachments of their own
  connection, and never the same one (`Owned`, `InHand`); a cancelled one is named by nobody (`Cut`);
  an uncancelled one is named until `remove_session` (`Named`). With this the
  argument is local: a step that cancels takes the name out of the one place it is in.
- `Stream`, for `NoGap` and `GracefulDrain`. `Upcoming` is the chunk the next cast will
  send. The channel of an attachment that still gets it (`Fed`) is an interval that ends
  just before `Upcoming` (`Flow`), and from the snapshot on what the client has seen overlaps
  it or touches it. The attach steps keep that because the snapshot is read after subscribing;
  with the two swapped a chunk cast in between would be in neither. For the drain
  `ReaderAt` adds that a reader at its end has pushed all that was written, and `Drained` that
  whoever returns uncancelled has shown all of it.

**SessionHost.** The invariant is `Inv == TypeOK /\ HostInv`, seven named conjuncts that need each
other:

- `LiveIsTracked` needs `Reaped` (a wait thread that has returned has seen its child die), because
  `CloseReap` takes a session off the map when `wait` is `"done"`; and `Replayed`, because
  `CloseHonest` takes off one that has no child. What a failed create leaves behind is in
  neither: its session never enters the map, and the create stays `"failed"` for as long as the process runs.
- `NoResurrection` is `Deleted` without its reason: a deleted row has no writer, since
  either the workspace went with it and the foreign key refuses every upsert, or
  the session is `Quiet` (its create is over, it has no child, no wait thread, no final flush, and
  no sweep holds it).
- `Quiet` comes from `Replayed`: an entry without PTY, and the session an honest close is
  deleting, belong to an earlier process.
- `Replayed` is established by `Restart`, which needs `PoweredOff` (a process that
  is gone has nothing in flight) and `Unborn` (a session with a row is one whose create has begun).
- `Named` says that a close, a sweep or a removal in progress names a session or workspace.

`TypeOK` is in the invariant because `SweepSnapshot` and `RemoveMark` are type
correct only by `Named`.

What the ends of a session, of a workspace and of the daemon promise is proved of `Inv /\ EndInv`:

- `ListedWhileLive` needs `Listed`: a session in the map with a process is in `live_sessions` unless its
  create is at the metadata, and one in `live_sessions` has come that far.
- `CaptureBeforeReap` needs `WaitTracked`: until its callback has captured the final state a session stays
  in the map, once its create has put it there (a failed one never does), for every kill joins the wait thread before it takes the
  entry.
- `RemovalIsComplete` needs `Victims`: from the mark on, a session without a process shown in the workspace is
  among the victims; from the sweep on, a session that a client knew when the removal began is out of the
  map, still to do, or in the close the removal waits for. `Shown` (what is shown without a process
  has its row until it is closed) makes the list that `remove_workspace` reads from the database complete.
- `ShutdownDrains` needs `Draining`: of the sessions `shutdown_all` saw, each is still to do, being closed, or
  has a wait thread that has returned; and `Awaitable`: the handle of a final flush that runs is in the
  pending list, or whoever took it is still awaiting it, so a removal and the shutdown
  that take handles from the same list leave none to nobody.

**ClientLink.** The invariant is `LinkInv == TypeInv /\ FrameInv /\ WaitInv`.

- `TypeInv` adds to `LinkTypeOK` what makes it inductive. `Counted`: no more ids have been given than
  requests have left the channel, so there is always a next one. `Queued`: a request is in
  the channel at most once. `Known`: what is pending has left the channel under an id that
  was given. `Suspected` bounds the streak of failed handshakes, `Writes` says when a frame is half written.
- `FrameInv` is about frames. `Wire` is what may still be dispatched and `Responses` what was answered and not
  yet read. `Faithful`: a frame's id leads to the request it was given to, or to nobody any
  more. `Distinct`, `Unrun` and `RanOnce`: a request is on the wire once, not yet run, or has a
  response, having run once. `Untouched`: what has not left the channel has not run. `Answered`.
- `WaitInv`: who waits is in the channel or pending (`Reach`), and nothing is pending while the task
  redials or is gone (`Idle`).

With it each action maps to an action of `RequestLink` or to a stutter; only `Send`'s failure, `Take`,
`Read`, `Dispatch`, `Timeout` and the drain change what the abstraction sees.

**Terminals.** `AttachedIsCurrent` needs `AttachInv`: an acknowledged attempt for the entry and generation there
are means that the daemon feeds the connection there is, unless that is down or a reset is owed
(`AckedIsCurrent`); and no attempt is of a later entry or generation than there is (`Older`), so that one that
was superseded never counts again. `PastesDoNotMix` needs `PasteInv`. `Exclusive` and `OneLock`: one writer
holds the session's lock, of which there is one until the Core has heard of the child's end (which
then reads nothing). `OneAsked`: of a writer that has not failed, the wire holds the one chunk
whose reply it awaits. `Behind`: what it has written comes before what it has yet to write. `LastAtIt`: while
it holds the lock nobody has written behind it. A writer that fails gives up its claim: a
chunk that it left on the wire may come between another's, which is why the property speaks of writers
that were not told of a failure.

**WorkspaceRoots.** `OwnWordHolds` needs `CopyInv`. `Current` follows an answer on its way, for a command
that shares its workspaces with nobody: in the daemon's hand, among the frames, in the command's hand, it
says what the database says, and so does every push behind it; and once the command is over, the copy
does (`settled`). `Solitude` says that no other command in flight touches such a workspace, `Pending` and
`Answered` that a request is in one place and an answer about the workspaces asked for, `Born` that a workspace
being created has no roots and is not one being removed. A push that was skipped is one frame less that has
to agree, so the bound of the queue plays no part.

**DaemonLifecycle.** `SoleServer` is inductive with the types: the lock is held from before the socket
file is cleared until after it is unlinked. `HonestyKept` needs `HonestyInv`: `JobInv` (launchd's
instance is a process), `ReleaseInv` (application and marker are not of a later release than the bundle) and
`MarkInv` (where the marker is about to be replaced, launchd's instance, unless it is on its way out, is
of the application's release or a later one).

**DomainStore.** `StoreInv` conjoins `TypeOK`, `Known`, `ParentsHold`, `Acyclic` and `OneRoot`. `Known` is what
the verbs rely on without saying so (an id not issued has no row; a row's project exists). That a tree has no cycle is
stated without recursion, by the parents of every set of rows (a nonempty set of rows whose parents
all lie in the set does not exist); a move keeps it because the walk from the new parent, which
is bounded by `MaxDepth`, did not meet the moved row.

**GraphStore.** `GraphInv` conjoins `StoreInv`, `GraphTypeOK`, `NodesKnown` and `GraphSound`. The many verbs have five
shapes of step (`Same`, `Inserts`, `Writes`, `Removes`, `Relinks`), each with a lemma, and each verb a
lemma that says which shape it is. `PushTheorem` compares what a project shows before and after
each shape. `BackupTheorem` is of the state: `NodesKnown` and `Known` put every node and every row with a
project into a project that was created, so into a bundle, `Known` leaves only ideas and insights without one,
and where no edge joins two projects the ends of each lie in exactly one bundle.

**McpGate.** `GateInv` conjoins `GateTypeOK`, `LockServes`, `Holders`, `Driven` and `Scoped`. `Holders`: an
attempt past its queue holds the lock it queued for, so that only one is; `Scoped`: the policy a call
was judged by has the call in its scope. With both, every other call that started under the lock
has its row and is counted at the gate, which is `CapTheorem`. `Driven` adds to `RunHasDriver` that only
research runs have rows in `research_run`.

**OwnerFiles.** `NothingLost` is kept by `FilesInv`, which adds what the verb that holds the mutex may do
(`VerbInv`): it writes only what is there to be written; what it removes was asked for, or has been written
at its new place before; and its entry is of a project that was active when it began, which is
`ArchivedFilesKept`. For that the row of rules or a doc must be of the scope its entry is named for (`OfScope`).

**Credentials.** `SecretsMatchRows` says that rows and Keychain agree while nobody is at work, which no step
keeps by itself. `CredInv` splits it (`MatchOK`): every entry a row refers to is there unless a delete is at
it, and every entry that is there is referred to unless a login or a setter has yet to write the row; each
half outlasts the whole. A login has stored all its tokens before anybody knows the account's id
(`LoginOK`), so that nobody refreshes or deletes it in between; who refreshes has read a row that names both
tokens (`AskInv`), so that a rotation adds no entry its row does not name. `BearerOK` is the same for a server, and
`DeleteInv` says that a delete has found every entry but those written behind its back, the `leaky` ones
of finding 7.

`OrchdInv` conjoins the three: a step of `OrchdSpec` is one part's step and leaves the variables of the others
alone, so each part's lemma and two stutters make it inductive.

Each step lemma has a step per action; actions that leave alone everything a conjunct
mentions share one. Actions with a record or a branch that the provers find hard are restated
element by element first (`Gated`, `Answered`, `Exited`, `ClosedHonest`, `About`), each with a lemma that the
action does that. Temporal steps are by PTL.

Only model-checked: the seven liveness properties (`ForwardersTerminate`, `DisconnectReleases`,
`InFlightResolves`, `SlowClientReconnects`, `DueStartServes`, `CloseReturns`, `ShutdownCompletes`), since fairness
and ENABLED are beyond the prover; and the six findings, which are counterexamples. No property is left to
TLC for want of a proof. What the proofs do not show is that the instances reach the interesting
states, which the runs and the mutants do.

## Limits

The map covers about 12% of the lines of the Rust implementation. Half of those lines are tests inside
the same files; of the other half much is what a state machine has nothing to say about
(wire types and their doc comments, SQL text, row decoding, migrations, command wrappers that forward
one request, rendering), and a definition stands for the lines it translates and no more.

Not modelled, and why:

- the bytes: framing, OSC parsing, the live grid, shell integration, export formats; they have
  no control that another part depends on. Pruning of the ring drops the oldest bytes, which no
  property is about;
- resize, waiting-for-input heuristics: they read the state and change none that the others read;
- command events: rows that follow a session's;
- migrations (one transaction each, a version number after it), directory modes, peer credentials, logging;
- `orchd_client.rs` and orchd's connection loop, which have the shape of `ClientLink`; the broker's
  pushes that become events of the window;
- in orchd: the texts, evidence and validation of rows, listings and search, the neighbourhood query and
  layout of the graph, audit rows, the retries inside one call, the transports, the REST adapter;
- power, file watcher, statistics; the frontend but for the terminal manager's attach.

Abstractions a reader should know:

- One request per caller. A caller that issues another one is another caller. So it is with
  attempts in `McpGate`, each of which is used once.
- The kill of a child succeeds: `CloseSignal` leaves it dead. What would follow from a
  process that SIGKILL does not end is outside the model.
- In `AttachStream` a session that was rehydrated without a PTY does not occur; its attach is
  `AttachReplayOnly`'s path.
- A disk error is modelled only where the code's answer differs (a failed upsert for
  want of the workspace row, a file that is written before a commit that fails); a failing disk otherwise looks like a crash.
- The stop of the daemon's `serve` loop and its connections during shutdown is `Leave`
  and `Close` in `ClientLink`; `SessionHost` lets requests go on until the process exits.
- `DomainStore` keeps the columns that guards read and one bit for the rest; an import
  is modelled as whether its one transaction commits into an empty store, and what it then holds.
- Costs and caps in `McpGate` are 0 or 1 in the run and any naturals in the proofs; the minute's window
  passes for each call at any time after it started.
- In `Credentials` secrets have no value, so which of two concurrent refreshes a provider
  honours is left open; two `McpSetServerBearer` of one server come one after the other.

## Plan

1. **A stream** as an abstract specification (a client's view is a prefix of what was written, and is
   all of it at the end), refined by `AttachStream` with `seen`; a **registry** (sessions
   are absent, live, ended, deleted), refined by `SessionHost`.
2. **Proofs** of these two refinements, from `Stream` and `HostInv`, step by step as for `RequestLink`.
3. **The channel** in `Terminals`, composed with `AttachStream`: what of the stream reaches the pane.
4. **Framing**: the incremental decoder against the sequence of frames sent, over every split of
   the bytes.
5. **Token values** in `Credentials`: a provider that rotates refresh tokens and a daemon that dies
   between the exchange and the store.
