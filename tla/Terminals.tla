------------------------------- MODULE Terminals -------------------------------
(***************************************************************************)
(* One session as the window and the core keep it: the attachment in the   *)
(* terminal manager (src/terminal/terminal-manager.ts), the channel in the *)
(* broker's map (broker.rs), attach_session and write_stdin (commands.rs), *)
(* over the connections of ClientLink and the attachments of AttachStream. *)
(*                                                                         *)
(* An attempt is one call of attach_session with the channel made for it,  *)
(* a writer one call of write_stdin.  Commands are tasks: each of their    *)
(* steps, and each message to and from the window, is taken at any time.   *)
(* A definition marked `Bug:' is a faulty variant of the next.             *)
(***************************************************************************)
EXTENDS Naturals, Sequences

CONSTANTS
    Attempts,     \* calls of attach_session
    Writers,      \* calls of write_stdin
    Chunks,       \* the chunks of each
    MaxLinks,     \* bound on connections
    NoAttempt

VARIABLES
    entry,        \* the manager's entry: which object, its generation and attach state
    try,          \* try[a]: how far an attempt is, and the entry and generation it is for
    chan,         \* the channel in the broker's attach map, named by its attempt
    link,         \* connections so far
    up,           \* the last one lives
    feeds,        \* the connection whose attachment the daemon feeds, or 0
    owed,         \* daemon://reconnected events the window has not handled
    alive,        \* the child lives
    told,         \* the core has handled its ChildExited
    locks,        \* the lock in WriteStdinLocks, or 0
    made,         \* locks so far
    writer,       \* writer[w]: how far a write is
    wire,         \* WriteStdin requests on their way to the PTY
    stdin         \* the chunks the child was given

attach_vars == <<entry, try, chan, feeds, owed>>
stdin_vars == <<alive, told, locks, made, writer, wire, stdin>>
terminal_vars == <<attach_vars, link, up, stdin_vars>>

TerminalInit ==
    /\ entry = [obj |-> 1, gen |-> 0, st |-> "detached"]
    /\ try = [a \in Attempts |-> [st |-> "new", obj |-> 0, gen |-> 0]]
    /\ chan = NoAttempt
    /\ link = 1 /\ up = TRUE /\ feeds = 0 /\ owed = 0
    /\ alive = TRUE /\ told = FALSE /\ locks = 0 /\ made = 0
    /\ writer = [w \in Writers |-> [st |-> "new", lock |-> 0, next |-> 1]]
    /\ wire = <<>> /\ stdin = <<>>

Entries == [obj : {1, 2}, gen : Nat, st : {"detached", "attaching", "attached"}]
Tries == [st : {"new", "invoked", "queued", "asked", "acked", "failed", "refused", "over"},
          obj : {0, 1, 2}, gen : Nat]
Writes == [st : {"new", "waiting", "sending", "asked", "done", "failed"}, lock : Nat, next : Nat]

TerminalTypeOK ==
    /\ entry \in Entries
    /\ try \in [Attempts -> Tries]
    /\ chan \in Attempts \cup {NoAttempt}
    /\ link \in Nat /\ feeds \in Nat /\ owed \in Nat /\ locks \in Nat /\ made \in Nat
    /\ up \in BOOLEAN /\ alive \in BOOLEAN /\ told \in BOOLEAN
    /\ writer \in [Writers -> Writes]
    /\ wire \in Seq([by : Writers, chunk : Nat, on : Nat])
    /\ stdin \in Seq([by : Writers, chunk : Nat])

----------------------------------------------------------------------------
(* The window *)

\* A pane is shown, the owner retries, or the reconnected window has listed the sessions.
Attach(a) ==
    /\ entry.st = "detached" /\ try[a].st = "new"
    /\ entry' = [entry EXCEPT !.st = "attaching"]
    /\ try' = [try EXCEPT ![a] = [st |-> "invoked", obj |-> entry.obj, gen |-> entry.gen]]
    /\ UNCHANGED <<chan, feeds, owed>>

\* Bug: a new entry's generation is taken for the old one's.
SameGeneration(a) == try[a].gen = entry.gen /\ entry.st = "attaching"

\* The completion is of the entry there is, and of its generation.
Current(a) ==
    /\ try[a].obj = entry.obj /\ try[a].gen = entry.gen
    /\ entry.st = "attaching"

Settle(a, st) ==
    IF Current(a) THEN [entry EXCEPT !.st = st] ELSE entry

Resolved(a) ==
    /\ try[a].st = "acked"
    /\ try' = [try EXCEPT ![a].st = "over"]
    /\ entry' = Settle(a, "attached")
    /\ UNCHANGED <<chan, feeds, owed>>

Rejected(a) ==
    /\ try[a].st = "refused"
    /\ try' = [try EXCEPT ![a].st = "over"]
    /\ entry' = Settle(a, "detached")
    /\ UNCHANGED <<chan, feeds, owed>>

\* resetAllAttachments, on daemon://reconnected.
Reconnected ==
    /\ owed > 0
    /\ owed' = owed - 1
    /\ entry' = [entry EXCEPT !.st = "detached", !.gen = @ + 1]
    /\ UNCHANGED <<try, chan, feeds>>

\* The tab is closed while the daemon is away: kill_session is refused, the entry goes all the
\* same.  The next list brings the session back, and its pane makes a new entry.
Reopen ==
    /\ ~up /\ entry.obj = 1
    /\ entry' = [obj |-> 2, gen |-> 0, st |-> "detached"]
    /\ UNCHANGED <<try, chan, feeds, owed>>

----------------------------------------------------------------------------
(* attach_session *)

Step(a, from, to) == try[a].st = from /\ try' = [try EXCEPT ![a].st = to]

\* The channel is in the map before the daemon is asked.  A request finds the connection down,
\* or is queued for it.
AttachSession(a) ==
    /\ Step(a, "invoked", IF up THEN "queued" ELSE "failed")
    /\ chan' = a
    /\ UNCHANGED <<entry, feeds, owed>>

\* The connection's task writes the request, on the connection there is by then.
Dispatch(a) == up /\ Step(a, "queued", "asked") /\ UNCHANGED <<entry, chan, feeds, owed>>

\* The daemon attaches the connection and acknowledges; or it does, but the caller's time is up.
DaemonAttaches(a) ==
    /\ \/ Step(a, "asked", "acked")
       \/ Step(a, "asked", "failed")
    /\ feeds' = link
    /\ UNCHANGED <<entry, chan, owed>>

\* The daemon refuses, or the caller's time is up before the request is written.
AttachFails(a) ==
    /\ Step(a, "asked", "failed") \/ Step(a, "queued", "failed")
    /\ UNCHANGED <<entry, chan, feeds, owed>>

\* The failed command takes the session's channel out of the map, whichever it is.
RemoveAttachment(a) ==
    /\ Step(a, "failed", "refused")
    /\ chan' = NoAttempt
    /\ UNCHANGED <<entry, feeds, owed>>

----------------------------------------------------------------------------
(* The connection *)

\* What is pending fails; of what is on the wire the daemon still handles what it has read.
Drop ==
    /\ up /\ link < MaxLinks
    /\ up' = FALSE /\ feeds' = 0
    /\ try' = [a \in Attempts |->
                 IF try[a].st = "asked" THEN [try[a] EXCEPT !.st = "failed"] ELSE try[a]]
    /\ writer' = [w \in Writers |->
                    IF writer[w].st = "asked" THEN [writer[w] EXCEPT !.st = "failed"]
                    ELSE writer[w]]
    /\ \E n \in 0 .. Len(wire) : wire' = SubSeq(wire, 1, n)
    /\ UNCHANGED <<entry, chan, owed, link, alive, told, locks, made, stdin>>

\* map_conn_state makes a Connected that follows a Disconnected a daemon://reconnected.
ConnectAgain ==
    /\ ~up
    /\ up' = TRUE /\ link' = link + 1 /\ owed' = owed + 1
    /\ UNCHANGED <<entry, try, chan, feeds, stdin_vars>>

----------------------------------------------------------------------------
(* write_stdin *)

\* Bug: each call makes a lock of its own.
OwnLock == made + 1

\* The session's lock, made on first use.
LockFor == IF locks = 0 THEN made + 1 ELSE locks

\* Bug: a writer that waits for the reply to a chunk does not hold the lock.
Halfway == {"sending"}

HoldsLock == {"sending", "asked"}

Held(k) == \E w \in Writers : writer[w].lock = k /\ writer[w].st \in HoldsLock

WriteStdin(w) ==
    /\ writer[w].st = "new"
    /\ LET k == LockFor IN
       /\ writer' = [writer EXCEPT ![w].st = "waiting", ![w].lock = k]
       /\ locks' = k
       /\ made' = IF k > made THEN k ELSE made
    /\ UNCHANGED <<alive, told, wire, stdin>>

Lock(w) ==
    /\ writer[w].st = "waiting" /\ ~Held(writer[w].lock)
    /\ writer' = [writer EXCEPT ![w].st = "sending"]
    /\ UNCHANGED <<alive, told, locks, made, wire, stdin>>

\* The next chunk is asked for; on a dead connection the call ends with an error.
SendChunk(w) ==
    /\ writer[w].st = "sending"
    /\ IF up
       THEN /\ writer' = [writer EXCEPT ![w].st = "asked"]
            /\ wire' = Append(wire, [by |-> w, chunk |-> writer[w].next, on |-> link])
       ELSE /\ writer' = [writer EXCEPT ![w].st = "failed"]
            /\ UNCHANGED wire
    /\ UNCHANGED <<alive, told, locks, made, stdin>>

\* REQUEST_TIMEOUT passes while the daemon waits for a child that does not read.
GiveUp(w) ==
    /\ writer[w].st = "asked"
    /\ writer' = [writer EXCEPT ![w].st = "failed"]
    /\ UNCHANGED <<alive, told, locks, made, wire, stdin>>

Acked(w, m) ==
    IF m.on # link \/ ~up \/ writer[w].st # "asked" \/ writer[w].next # m.chunk THEN writer[w]
    ELSE IF m.chunk = Chunks THEN [writer[w] EXCEPT !.st = "done"]
    ELSE [writer[w] EXCEPT !.st = "sending", !.next = @ + 1]

\* The daemon handles the requests of a connection in order, and writes each whole.
DaemonWrites(i) ==
    LET m == wire[i] IN
    /\ \A j \in 1 .. i - 1 : wire[j].on # m.on
    /\ wire' = SubSeq(wire, 1, i - 1) \o SubSeq(wire, i + 1, Len(wire))
    /\ stdin' = IF alive THEN Append(stdin, [by |-> m.by, chunk |-> m.chunk]) ELSE stdin
    /\ writer' = [writer EXCEPT ![m.by] = Acked(m.by, m)]
    /\ UNCHANGED <<alive, told, locks, made>>

ChildExits ==
    /\ alive /\ alive' = FALSE
    /\ UNCHANGED <<told, locks, made, writer, wire, stdin>>

\* The push ChildExited: the lock goes, whoever holds it.
Evict ==
    /\ ~alive /\ ~told
    /\ told' = TRUE /\ locks' = 0
    /\ UNCHANGED <<alive, made, writer, wire, stdin>>

----------------------------------------------------------------------------

WindowNext ==
    \/ \E a \in Attempts :
         Attach(a) \/ Resolved(a) \/ Rejected(a) \/ AttachSession(a) \/ Dispatch(a)
           \/ DaemonAttaches(a) \/ AttachFails(a) \/ RemoveAttachment(a)
    \/ Reconnected \/ Reopen

StdinNext ==
    \/ \E w \in Writers : WriteStdin(w) \/ Lock(w) \/ SendChunk(w) \/ GiveUp(w)
    \/ \E i \in DOMAIN wire : DaemonWrites(i)
    \/ ChildExits \/ Evict

TerminalNext ==
    \/ WindowNext /\ UNCHANGED <<link, up, stdin_vars>>
    \/ StdinNext /\ UNCHANGED <<attach_vars, link, up>>
    \/ Drop \/ ConnectAgain

TerminalSpec == TerminalInit /\ [][TerminalNext]_terminal_vars

----------------------------------------------------------------------------

\* A terminal the manager takes for attached is fed by the connection there is, unless that is
\* down or the reset that follows a reconnect is still owed: an acknowledgement of an earlier
\* connection, or for an entry that was closed, never counts (terminal-manager.ts: attachGeneration).
AttachedIsCurrent ==
    entry.st = "attached" /\ up /\ owed = 0 => feeds = link

Unfailed(w) == writer[w].st # "failed"
Positions(w) == {i \in DOMAIN stdin : stdin[i].by = w}

\* The chunks of a write reach the child in order, and none of another write among them, as long
\* as neither ends with an error: over reconnects, timeouts of others and the lock's eviction
\* (WriteStdinLocks).
PastesDoNotMix ==
    \A w \in Writers : Unfailed(w) =>
      \A i, j \in Positions(w) : i < j =>
        /\ stdin[i].chunk < stdin[j].chunk
        /\ \A n \in i .. j : Unfailed(stdin[n].by) => stdin[n].by = w
=============================================================================
