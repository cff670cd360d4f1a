---------------------------- MODULE AttachStream ----------------------------
(***************************************************************************)
(* One PTY session of bpa-sessiond and the connections attached to it:     *)
(* the reader thread (ring + fan-out), the wait thread, the asynchronous   *)
(* `attach' of every connection, and the forwarder task of every           *)
(* attachment.                                                             *)
(*                                                                         *)
(*   crates/sessiond/src/pty_supervisor.rs   reader, wait thread, sinks    *)
(*   crates/sessiond/src/attach.rs           AttachRegistry                *)
(*                                                                         *)
(* A chunk is the result of one read() of the PTY master and is its        *)
(* number.  The scrollback ring is the number of chunks pushed into it:    *)
(* pruning at SCROLLBACK_CAP only drops the oldest bytes, and no property  *)
(* here is about those.  OSC stripping never reorders and is left out.     *)
(***************************************************************************)
EXTENDS Naturals, Sequences

CONSTANTS
  Conns,      (* client connections; a reconnect is a new conn_id          *)
  MaxChunks,  (* bound: chunks the child writes                            *)
  MaxSubs,    (* bound: sub_ids allocated by next_sub_id                   *)
  NoEntry,    (* no key (session, conn) in the registry                    *)
  ReplayOnly, (* AttachEntry::ReplayOnly; AttachEntry::Live is its sub_id  *)
  NoConn      (* owner of a sub_id not allocated yet                       *)

ASSUME StreamAssumption ==
  /\ MaxChunks \in Nat
  /\ MaxSubs \in Nat
  /\ NoEntry \notin Nat /\ ReplayOnly \notin Nat /\ NoEntry # ReplayOnly
  /\ NoConn \notin Conns

Chunks == 1..MaxChunks
Subs   == 1..MaxSubs

VARIABLES
  written,    (* chunks written by the child or a descendant into the PTY  *)
  childAlive, (* the direct child has not exited                           *)
  slaveOpen,  (* some process still holds the PTY slave                    *)
  rpc,        (* reader thread: "read", "cast", "clear", "done"            *)
  ring,       (* chunks pushed into the scrollback ring                    *)
  isActive,   (* Shared::is_active                                         *)
  sinks,      (* Shared::sinks: the sub_ids whose Sender is installed      *)
  wpc,        (* wait thread: "wait", "callback", "done"                   *)
  tracked,    (* the session is in Supervisor::sessions                    *)
  nextSub,    (* AttachRegistry::next_sub_id                               *)
  owner,      (* connection a sub_id was allocated for                     *)
  chan,       (* std::sync::mpsc channel of the attachment, with the chunk *)
              (* its forwarder has in hand still at the head               *)
  fwd,        (* who holds its Receiver, see FwdStates                     *)
  cancel,     (* the attachment's cancel flag                              *)
  seen,       (* last chunk its client was shown, by Replay or as Output   *)
  late,       (* Outputs its client was sent after cancel was set          *)
  inhand,     (* chunks its forwarder was sending when cancel was set      *)
  link,       (* connection: "up", "overflow" (its push sink is closed,    *)
              (* the dispatch loop still runs) or "down" (cleaned up)      *)
  apc,        (* where the connection's in-flight attach() is              *)
  asub,       (* entry that attach() is about to insert                    *)
  entries     (* AttachRegistry::entries for this session                  *)

ptyVars  == <<written, childAlive, slaveOpen>>
procVars == <<rpc, ring, isActive, wpc, tracked>>
subVars  == <<nextSub, owner, chan, fwd, cancel, seen, late, inhand>>
connVars == <<link, apc, asub, entries>>
vars == <<written, childAlive, slaveOpen, rpc, ring, isActive, sinks, wpc, tracked,
          nextSub, owner, chan, fwd, cancel, seen, late, inhand,
          link, apc, asub, entries>>

\* "attaching": attach_live owns the Receiver; the forwarder runs: "poll" at the top of its
\* loop, "recv" in recv_timeout, "send" with a chunk it will send; "done": it returned;
\* "dropped": attach_live failed and dropped the Receiver.
FwdStates == {"free", "attaching", "poll", "recv", "send", "done", "dropped"}
Running(s)  == fwd[s] \in {"poll", "recv", "send"}
Receiving(s) == fwd[s] \in {"attaching", "poll", "recv", "send"}

TypeOK ==
  /\ written \in 0..MaxChunks /\ childAlive \in BOOLEAN /\ slaveOpen \in BOOLEAN
  /\ rpc \in {"read", "cast", "clear", "done"}
  /\ ring \in 0..MaxChunks
  /\ isActive \in BOOLEAN
  /\ sinks \subseteq Subs
  /\ wpc \in {"wait", "callback", "done"}
  /\ tracked \in BOOLEAN
  /\ nextSub \in 1..(MaxSubs + 1)
  /\ owner \in [Subs -> Conns \cup {NoConn}]
  /\ chan \in [Subs -> Seq(Chunks)]
  /\ fwd \in [Subs -> FwdStates]
  /\ cancel \in [Subs -> BOOLEAN]
  /\ seen \in [Subs -> 0..MaxChunks]
  /\ late \in [Subs -> Nat]
  /\ inhand \in [Subs -> {0, 1}]
  /\ link \in [Conns -> {"up", "overflow", "down"}]
  /\ apc \in [Conns -> {"idle", "subscribe", "snapshot", "replay", "replay_only", "insert"}]
  /\ asub \in [Conns -> Subs \cup {NoEntry, ReplayOnly}]
  /\ entries \in [Conns -> Subs \cup {NoEntry, ReplayOnly}]

Init ==
  /\ written = 0 /\ childAlive = TRUE /\ slaveOpen = TRUE
  /\ rpc = "read" /\ ring = 0 /\ isActive = TRUE /\ sinks = {}
  /\ wpc = "wait" /\ tracked = TRUE
  /\ nextSub = 1
  /\ owner = [s \in Subs |-> NoConn]
  /\ chan = [s \in Subs |-> <<>>]
  /\ fwd = [s \in Subs |-> "free"]
  /\ cancel = [s \in Subs |-> FALSE]
  /\ seen = [s \in Subs |-> 0]
  /\ late = [s \in Subs |-> 0]
  /\ inhand = [s \in Subs |-> 0]
  /\ link = [c \in Conns |-> "up"]
  /\ apc = [c \in Conns |-> "idle"]
  /\ asub = [c \in Conns |-> NoEntry]
  /\ entries = [c \in Conns |-> NoEntry]

-----------------------------------------------------------------------------
(* The child, its descendants and the PTY.                                 *)

\* Any holder of the slave may write, a backgrounded descendant too after the child exited.
PtyWrite ==
  /\ slaveOpen /\ written < MaxChunks
  /\ written' = written + 1
  /\ UNCHANGED <<childAlive, slaveOpen, procVars, sinks, subVars, connVars>>

ChildExit ==
  /\ childAlive
  /\ childAlive' = FALSE
  /\ UNCHANGED <<written, slaveOpen, procVars, sinks, subVars, connVars>>

\* The last holder closes the slave; a child may close its own tty and live on.
SlaveClose ==
  /\ slaveOpen
  /\ slaveOpen' = FALSE
  /\ UNCHANGED <<written, childAlive, procVars, sinks, subVars, connVars>>

-----------------------------------------------------------------------------
(* Reader thread.  A definition marked `Bug:' is a faulty variant of the   *)
(* one that follows it; nothing uses it but the check that the properties  *)
(* can fail.                                                               *)

\* read() of the PTY master returns bytes.
ReadReturns == ring < written

\* lock(scrollback).push(chunk)
ReaderPush ==
  /\ rpc = "read" /\ ReadReturns
  /\ ring' = ring + 1
  /\ rpc' = "cast"
  /\ UNCHANGED <<ptyVars, isActive, wpc, tracked, sinks, subVars, connVars>>

\* Bug: the channel is bounded and a chunk that finds it full is dropped.
EnqueueOrDrop(s) == IF chan[s] = <<>> THEN <<ring>> ELSE chan[s]

\* The Sender's channel is unbounded.
Enqueue(s) == Append(chan[s], ring)

\* lock(sinks).retain(send): a dead receiver is pruned, every other one gets the chunk.
ReaderCast ==
  /\ rpc = "cast"
  /\ sinks' = {s \in sinks : Receiving(s)}
  /\ chan' = [s \in Subs |-> IF s \in sinks /\ Receiving(s) THEN Enqueue(s) ELSE chan[s]]
  /\ rpc' = "read"
  /\ UNCHANGED <<ptyVars, ring, isActive, wpc, tracked,
                 nextSub, owner, fwd, cancel, seen, late, inhand, connVars>>

\* EOF (or EIO) once nobody holds the slave and everything written was read.
ReaderEof ==
  /\ rpc = "read" /\ ring = written /\ ~slaveOpen
  /\ isActive' = FALSE
  /\ rpc' = "clear"
  /\ UNCHANGED <<ptyVars, ring, wpc, tracked, sinks, subVars, connVars>>

\* Bug: the reader ends without clearing the sinks.
ReaderForgetsClear ==
  /\ rpc = "clear"
  /\ rpc' = "done"
  /\ UNCHANGED <<ptyVars, ring, isActive, wpc, tracked, sinks, subVars, connVars>>

\* Dropping every Sender ends every forwarder, once it has drained its channel.
ReaderClear ==
  /\ rpc = "clear"
  /\ sinks' = {}
  /\ rpc' = "done"
  /\ UNCHANGED <<ptyVars, ring, isActive, wpc, tracked, subVars, connVars>>

-----------------------------------------------------------------------------
(* Wait thread, and the removal of the session from the supervisor's map.  *)

WaitReap ==
  /\ wpc = "wait" /\ ~childAlive
  /\ isActive' = FALSE
  /\ wpc' = "callback"
  /\ UNCHANGED <<ptyVars, rpc, ring, tracked, sinks, subVars, connVars>>

\* Bug: the entries' Senders are taken out of the reader's list (BL-108).
RemoveSessionUnsubscribes ==
  /\ entries' = [c \in Conns |-> NoEntry]
  /\ sinks' = sinks \ {entries[c] : c \in Conns}

\* AttachRegistry::remove_session: the entries go, the Live forwarders are neither unsubscribed
\* nor cancelled.
RemoveSession ==
  /\ entries' = [c \in Conns |-> NoEntry]
  /\ UNCHANGED sinks

\* The on_exited hook.
WaitCallback ==
  /\ wpc = "callback"
  /\ RemoveSession
  /\ wpc' = "done"
  /\ UNCHANGED <<ptyVars, rpc, ring, isActive, tracked, subVars, link, apc, asub>>

\* The tail of Supervisor::kill: the wait thread is joined, the reader's join is bounded
\* (READER_JOIN_TIMEOUT), so the entry may go while the reader still runs.
KillReap ==
  /\ tracked /\ wpc = "done"
  /\ tracked' = FALSE
  /\ UNCHANGED <<ptyVars, rpc, ring, isActive, wpc, sinks, subVars, connVars>>

-----------------------------------------------------------------------------
(* AttachRegistry.                                                         *)

\* Bug: a replaced or detached entry is just dropped.
RetireNothing(stale) == UNCHANGED <<sinks, cancel, inhand>>

\* The forwarders learn it at their next look at the flag; one that is past its last look before
\* the send still sends.
Cancel(stale) ==
  /\ cancel' = [s \in Subs |-> cancel[s] \/ s \in stale]
  /\ inhand' = [s \in Subs |-> IF s \in stale /\ fwd[s] = "send" THEN 1 ELSE inhand[s]]

\* Bug: only the forwarder is told; the Sender stays in the reader's list.
RetireCancelsOnly(stale) == Cancel(stale) /\ UNCHANGED sinks

\* unsubscribe_output (a no-op once the session left the map), then cancel.
Retire(stale) ==
  /\ sinks' = IF tracked THEN sinks \ stale ELSE sinks
  /\ Cancel(stale)

\* attach(): the meta() read decides the branch.
AttachBegin(c) ==
  /\ link[c] # "down" /\ apc[c] = "idle" /\ tracked
  /\ apc' = [apc EXCEPT ![c] = IF isActive THEN "subscribe" ELSE "replay_only"]
  /\ UNCHANGED <<ptyVars, procVars, sinks, subVars, link, asub, entries>>

\* Bug: subscribe_output trusts the caller's earlier meta().
SubscribesTracked == tracked

\* subscribe_output re-checks is_active under the sinks lock.
Subscribes == tracked /\ isActive

\* attach_live: allocate a sub_id, subscribe_output.
AttachSubscribe(c) ==
  /\ apc[c] = "subscribe" /\ nextSub <= MaxSubs
  /\ nextSub' = nextSub + 1
  /\ IF Subscribes
     THEN /\ sinks' = sinks \cup {nextSub}
          /\ owner' = [owner EXCEPT ![nextSub] = c]
          /\ fwd' = [fwd EXCEPT ![nextSub] = "attaching"]
          /\ asub' = [asub EXCEPT ![c] = nextSub]
          /\ apc' = [apc EXCEPT ![c] = "snapshot"]
     ELSE /\ apc' = [apc EXCEPT ![c] = "replay_only"]   \* LostRace
          /\ UNCHANGED <<sinks, owner, fwd, asub>>
  /\ UNCHANGED <<ptyVars, procVars, chan, cancel, seen, late, inhand,
                 link, entries>>

AttachSnapshot(c) ==
  /\ apc[c] = "snapshot"
  /\ IF tracked
     THEN /\ seen' = [seen EXCEPT ![asub[c]] = ring]
          /\ apc' = [apc EXCEPT ![c] = "replay"]
          /\ UNCHANGED <<chan, fwd, asub>>
     ELSE /\ fwd' = [fwd EXCEPT ![asub[c]] = "dropped"]
          /\ chan' = [chan EXCEPT ![asub[c]] = <<>>]
          /\ asub' = [asub EXCEPT ![c] = NoEntry]
          /\ apc' = [apc EXCEPT ![c] = "replay_only"]   \* LostRace
          /\ UNCHANGED seen
  /\ UNCHANGED <<ptyVars, procVars, sinks, nextSub, owner, cancel, late, inhand,
                 link, entries>>

\* sink.send(Replay).await, then spawn_blocking of the forwarder.
AttachReplay(c) ==
  /\ apc[c] = "replay"
  /\ IF link[c] = "up"
     THEN /\ fwd' = [fwd EXCEPT ![asub[c]] = "poll"]
          /\ apc' = [apc EXCEPT ![c] = "insert"]
          /\ UNCHANGED <<chan, asub>>
     ELSE /\ fwd' = [fwd EXCEPT ![asub[c]] = "dropped"]
          /\ chan' = [chan EXCEPT ![asub[c]] = <<>>]
          /\ asub' = [asub EXCEPT ![c] = NoEntry]
          /\ apc' = [apc EXCEPT ![c] = "idle"]          \* SinkClosed
  /\ UNCHANGED <<ptyVars, procVars, sinks, nextSub, owner, cancel, seen, late, inhand,
                 link, entries>>

\* attach_replay_only: snapshot, send; NoSuchSession or SinkClosed leave no entry.
AttachReplayOnly(c) ==
  /\ apc[c] = "replay_only"
  /\ IF tracked /\ link[c] = "up"
     THEN /\ asub' = [asub EXCEPT ![c] = ReplayOnly]
          /\ apc' = [apc EXCEPT ![c] = "insert"]
     ELSE /\ apc' = [apc EXCEPT ![c] = "idle"]
          /\ UNCHANGED asub
  /\ UNCHANGED <<ptyVars, procVars, sinks, subVars, link, entries>>

\* entries.insert; a stale entry of the same connection is retired.
AttachInsert(c) ==
  /\ apc[c] = "insert"
  /\ entries' = [entries EXCEPT ![c] = asub[c]]
  /\ Retire({entries[c]} \cap Subs)
  /\ asub' = [asub EXCEPT ![c] = NoEntry]
  /\ apc' = [apc EXCEPT ![c] = "idle"]
  /\ UNCHANGED <<ptyVars, procVars, nextSub, owner, chan, fwd, seen, late,
                 link>>

Detach(c) ==
  /\ link[c] # "down" /\ apc[c] = "idle" /\ entries[c] # NoEntry
  /\ entries' = [entries EXCEPT ![c] = NoEntry]
  /\ Retire({entries[c]} \cap Subs)
  /\ UNCHANGED <<ptyVars, procVars, nextSub, owner, chan, fwd, seen, late,
                 link, apc, asub>>

\* Bug: handle_client returns without detach_all_for_conn.
CleanupWithoutDetach(c) ==
  /\ link[c] # "down" /\ apc[c] = "idle"
  /\ link' = [link EXCEPT ![c] = "down"]
  /\ UNCHANGED <<ptyVars, procVars, sinks, subVars, apc, asub, entries>>

\* handle_client's cleanup. An attach runs inside the dispatch loop, so none is in flight.
DetachAllForConn(c) ==
  /\ link[c] # "down" /\ apc[c] = "idle"
  /\ link' = [link EXCEPT ![c] = "down"]
  /\ entries' = [entries EXCEPT ![c] = NoEntry]
  /\ Retire({entries[c]} \cap Subs)
  /\ UNCHANGED <<ptyVars, procVars, nextSub, owner, chan, fwd, seen, late,
                 apc, asub>>

\* serve()'s exit and boot's drain.
DetachAll ==
  /\ entries' = [c \in Conns |-> NoEntry]
  /\ Retire({entries[c] : c \in Conns} \cap Subs)
  /\ UNCHANGED <<ptyVars, procVars, nextSub, owner, chan, fwd, seen, late,
                 link, apc, asub>>

\* make_push_sink's task found the outbound queue full and ended.
PushSinkOverflow(c) ==
  /\ link[c] = "up"
  /\ link' = [link EXCEPT ![c] = "overflow"]
  /\ UNCHANGED <<ptyVars, procVars, sinks, subVars, apc, asub, entries>>

-----------------------------------------------------------------------------
(* Forwarder of one attachment.                                            *)

\* The top of the loop: cancel is looked at, then recv_timeout waits.
FwdPoll(s) ==
  /\ fwd[s] = "poll" /\ ~cancel[s]
  /\ fwd' = [fwd EXCEPT ![s] = "recv"]
  /\ UNCHANGED <<ptyVars, procVars, sinks, nextSub, owner, chan, cancel, seen, late,
                 inhand, connVars>>

\* recv_timeout: nothing came in 20 ms; it is not yet closed.
FwdTimeout(s) ==
  /\ fwd[s] = "recv" /\ chan[s] = <<>> /\ s \in sinks
  /\ fwd' = [fwd EXCEPT ![s] = "poll"]
  /\ UNCHANGED <<ptyVars, procVars, sinks, nextSub, owner, chan, cancel, seen, late,
                 inhand, connVars>>

\* Bug: cancel is looked at before recv_timeout only, however long that waited.
TakesAlways(s) == TRUE

\* cancel is looked at again with the bytes in hand.
Takes(s) == ~cancel[s]

\* recv_timeout returned bytes, and they are for the client.
FwdTake(s) ==
  /\ fwd[s] = "recv" /\ chan[s] # <<>> /\ Takes(s)
  /\ fwd' = [fwd EXCEPT ![s] = "send"]
  /\ UNCHANGED <<ptyVars, procVars, sinks, nextSub, owner, chan, cancel, seen, late,
                 inhand, connVars>>

\* The forwarder returns and drops the Receiver: cancelled at the top of the loop, cancelled
\* with bytes in hand, or Disconnected.
FwdReturn(s) ==
  /\ \/ fwd[s] = "poll" /\ cancel[s]
     \/ fwd[s] = "recv" /\ chan[s] # <<>> /\ ~Takes(s)
     \/ fwd[s] = "recv" /\ chan[s] = <<>> /\ s \notin sinks
  /\ fwd' = [fwd EXCEPT ![s] = "done"]
  /\ chan' = [chan EXCEPT ![s] = <<>>]
  /\ UNCHANGED <<ptyVars, procVars, sinks, nextSub, owner, cancel, seen, late, inhand, connVars>>

\* sink.blocking_send(Output): cancel is not looked at again.
FwdSend(s) ==
  /\ fwd[s] = "send" /\ link[owner[s]] = "up"
  /\ seen' = [seen EXCEPT ![s] = IF Head(chan[s]) > @ THEN Head(chan[s]) ELSE @]
  /\ late' = [late EXCEPT ![s] = IF cancel[s] THEN @ + 1 ELSE @]
  /\ chan' = [chan EXCEPT ![s] = Tail(@)]
  /\ fwd' = [fwd EXCEPT ![s] = "poll"]
  /\ UNCHANGED <<ptyVars, procVars, sinks, nextSub, owner, cancel, inhand, connVars>>

\* The sink is closed: "client gone". Until the writer task is gone a cleaned-up connection's
\* sink still takes the frame, for nobody.
FwdSendGone(s) ==
  /\ fwd[s] = "send" /\ link[owner[s]] # "up"
  /\ \/ /\ fwd' = [fwd EXCEPT ![s] = "done"]
        /\ chan' = [chan EXCEPT ![s] = <<>>]
     \/ /\ link[owner[s]] = "down"
        /\ fwd' = [fwd EXCEPT ![s] = "poll"]
        /\ chan' = [chan EXCEPT ![s] = Tail(@)]
  /\ UNCHANGED <<ptyVars, procVars, sinks, nextSub, owner, cancel, seen, late, inhand, connVars>>

-----------------------------------------------------------------------------
Reader == ReaderPush \/ ReaderCast \/ ReaderEof \/ ReaderClear
Waiter == WaitReap \/ WaitCallback
AttachStep(c) ==
  \/ AttachSubscribe(c) \/ AttachSnapshot(c) \/ AttachReplay(c)
  \/ AttachReplayOnly(c) \/ AttachInsert(c)
Forwarder(s) ==
  \/ FwdPoll(s) \/ FwdTimeout(s) \/ FwdTake(s) \/ FwdReturn(s)
  \/ FwdSend(s) \/ FwdSendGone(s)

Next ==
  \/ PtyWrite \/ ChildExit \/ SlaveClose
  \/ Reader \/ Waiter \/ KillReap \/ DetachAll
  \/ \E c \in Conns : \/ AttachBegin(c) \/ AttachStep(c)
                      \/ Detach(c) \/ DetachAllForConn(c) \/ PushSinkOverflow(c)
  \/ \E s \in Subs : Forwarder(s)

Spec == Init /\ [][Next]_vars

(* The OS runs every thread and tokio polls every task; nothing in them    *)
(* blocks for good: the push sink is drained by a task that only try_sends *)
(* or dies.  The child, the clients and kill are not fair.                 *)
Fairness ==
  /\ WF_vars(Reader) /\ WF_vars(Waiter)
  /\ \A c \in Conns : WF_vars(AttachStep(c))
  /\ \A s \in Subs : WF_vars(Forwarder(s))

FairSpec == Spec /\ Fairness
-----------------------------------------------------------------------------
(* Properties.                                                             *)

\* What waits for a client continues what it has been shown: the chunks in the channel follow one
\* another and the first is at most one past the last one shown. Subscribing before the snapshot
\* (attach_live) leaves no gap, whatever the reader does in between; a slow client delays chunks
\* and never loses one.
NoGap ==
  \A s \in Subs : Running(s) /\ chan[s] # <<>> /\ link[owner[s]] = "up" =>
    /\ chan[s][1] <= seen[s] + 1
    /\ \A i \in 1..(Len(chan[s]) - 1) : chan[s][i + 1] = chan[s][i] + 1

\* A forwarder that ended on its own (not cancelled, its client still there) has shown its client
\* everything the session ever wrote: the reader's final sinks.clear() is the only end of stream,
\* even though the wait thread drops the registry entries earlier (remove_session).
GracefulDrain ==
  \A s \in Subs :
    fwd[s] = "done" /\ ~cancel[s] /\ link[owner[s]] = "up" => ~slaveOpen /\ seen[s] = written

\* No Sender is left installed once the reader has cleared the list: subscribe_output's check of
\* is_active under the sinks lock closes the race with the reader's exit, so no forwarder polls
\* a channel whose producer is gone.
NoSinkWithoutProducer == rpc = "done" => sinks = {}

\* Until the session's entries are dropped by the wait thread, an uncancelled forwarder is the one
\* its connection's registry entry (or in-flight attach) names: re-attach, detach and
\* disconnect never leave a second stream running behind a connection.
NoOrphanForwarder ==
  wpc # "done" =>
    \A s \in Subs : Running(s) /\ ~cancel[s] =>
      entries[owner[s]] = s \/ asub[owner[s]] = s

\* A chunk that arrives after detach, re-attach or disconnect cancelled the attachment never
\* reaches the client, nor one that waited in its channel: only the one the forwarder had looked
\* at cancel for, and was about to send or sending, still may. (The comment at the re-check says
\* that none does: the send after it is not covered.)
LateOutputBound == \A s \in Subs : late[s] <= inhand[s]

\* Once the reader is gone every Receiver is dropped: no attach and no forwarder (an OS thread)
\* outlives the stream it waits for.
ForwardersTerminate ==
  \A s \in Subs : (rpc = "done" /\ Receiving(s)) ~> (fwd[s] \in {"done", "dropped"})

\* A connection that goes away while the session lives does not keep a forwarder thread, however
\* quiet the session is. (After the wait thread's remove_session nobody cancels a forwarder any
\* more: it then ends with the reader, ForwardersTerminate.)
DisconnectReleases ==
  \A s \in Subs : \A c \in Conns :
    (owner[s] = c /\ Running(s) /\ link[c] = "down" /\ wpc # "done") ~> (fwd[s] = "done")

\* What is cancelled is cut off at both ends: no registry entry names it (a later detach cannot
\* retire it twice, a co-attached connection's entry never names it) and, as long as the session
\* is tracked, the reader no longer holds its Sender.
CancelledIsCutOff ==
  \A s \in Subs : cancel[s] =>
    /\ \A c \in Conns : entries[c] # s
    /\ tracked => s \notin sinks
=============================================================================
