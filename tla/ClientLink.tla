------------------------------ MODULE ClientLink ------------------------------
(***************************************************************************)
(* One client of bpa-sessiond and the daemon's end of its connection: the  *)
(* callers of DaemonClient::request, the task that owns the socket and     *)
(* redials it, the kernel's buffers, and the daemon's dispatch loop,       *)
(* bounded outbound queue and writer task.                                 *)
(*                                                                         *)
(*   src-tauri/src/socket_client.rs          DaemonClient                  *)
(*   crates/sessiond/src/socket_server.rs    handle_client, make_push_sink *)
(*   crates/daemon-core/src/broadcast.rs     Broadcaster                   *)
(*                                                                         *)
(* Every request is made by a caller of its own.  A frame carries the id   *)
(* of its request, and for a property the request itself.  Backoff delays, *)
(* the preamble's bytes and what a request does are left out.              *)
(***************************************************************************)
EXTENDS Naturals, Sequences, FiniteSets

CONSTANTS
  Reqs,         (* the requests                                            *)
  Big,          (* those that exceed MAX_FRAME_LEN once encoded            *)
  Impatient,    (* bound: those whose REQUEST_TIMEOUT may elapse           *)
  NoReq,
  CmdCap,       (* CMD_CHANNEL_CAP                                         *)
  OutCap,       (* CLIENT_OUTQ_CAP                                         *)
  SockCap,      (* frames the kernel buffers, in either direction          *)
  SuspectCap,   (* HANDSHAKE_SUSPECT_CAP                                   *)
  BootAttempts, (* the attempts a caller of connect_with_retry asks for    *)
  MaxConns,     (* bound: connections accepted                             *)
  MaxPushes     (* bound: pushes of the daemon                             *)

LinkAssumption ==
  /\ IsFiniteSet(Reqs) /\ Big \subseteq Reqs /\ Impatient \subseteq Reqs /\ NoReq \notin Reqs
  /\ CmdCap \in Nat \ {0} /\ OutCap \in Nat \ {0} /\ SockCap \in Nat \ {0}
  /\ SuspectCap \in Nat \ {0} /\ BootAttempts \in Nat
  /\ MaxConns \in Nat /\ MaxPushes \in Nat

VARIABLES
  task,     (* connect_with_retry, then connection_task: see Tasks         *)
  tries, suspects, (* attempts made at boot; HandshakeSuspectCounter       *)
  refused,  (* history: an attempt at boot found nobody listening          *)
  live, state, (* SharedState::live, ConnCbState::current                  *)
  caller,   (* where each request() is                                     *)
  via,      (* history: the connection that was live when it looked        *)
  answer,   (* history: the request whose response it got                  *)
  cmdq,     (* the command channel                                         *)
  nextId, pending, (* correlation: id to the request waiting for it        *)
  writing,  (* the frame in write_all                                      *)
  conn,     (* connections accepted so far                                 *)
  up, down, (* the kernel's buffers                                        *)
  peer,     (* handle_client: "none", "serve", "cleanup", "closed"         *)
  busy,     (* the request in dispatch                                     *)
  outq, held, (* the outbound queue, the frame its writer has in hand      *)
  notified, (* overflow_notify                                             *)
  ran,      (* how often each request was dispatched                       *)
  pushes    (* counter for the bound                                       *)

dialVars == <<tries, suspects, refused>>
callVars == <<caller, via, answer>>
taskVars == <<cmdq, nextId, pending, writing>>
peerVars == <<peer, busy, outq, held, notified, ran, pushes>>
link_vars == <<task, tries, suspects, refused, live, state, caller, via, answer, cmdq, nextId,
               pending, writing, conn, up, down, peer, busy, outq, held, notified, ran, pushes>>

\* "boot": no client yet; "failed", "fatal": there will be none. "run": in select; "write": in
\* write_all; "lost", "drain", "fire": run_connection returned; "dial": connect_with_backoff;
\* "dialed": accepted; "gone": gave up; "dropped": the client was dropped.
Tasks == {"boot", "failed", "fatal", "run", "write", "lost", "drain", "fire", "dial", "dialed",
          "gone", "dropped"}

Ids == 1..Cardinality(Reqs)
Push == [id |-> 0, of |-> NoReq]
NoFrame == [id |-> 0, of |-> "none"]
Frames == [id : Ids, of : Reqs]

LinkTypeOK ==
  /\ task \in Tasks
  /\ tries \in Nat /\ suspects \in 0..SuspectCap /\ refused \in BOOLEAN
  /\ live \in BOOLEAN /\ state \in {"none", "Connected", "Disconnected", "Incompatible"}
  /\ caller \in [Reqs -> {"new", "send", "wait", "ok", "failed", "refused"}]
  /\ via \in [Reqs -> 0..MaxConns]
  /\ answer \in [Reqs -> Reqs \cup {NoReq}]
  /\ cmdq \in Seq(Reqs) /\ Len(cmdq) <= CmdCap
  /\ nextId \in 1..(Cardinality(Reqs) + 1)
  /\ pending \in [Ids -> Reqs \cup {NoReq}]
  /\ writing \in Frames \cup {NoFrame}
  /\ conn \in 0..MaxConns
  /\ up \in Seq(Frames) /\ Len(up) <= SockCap
  /\ down \in Seq(Frames \cup {Push}) /\ Len(down) <= SockCap
  /\ peer \in {"none", "serve", "cleanup", "closed"}
  /\ busy \in Frames \cup {NoFrame}
  /\ outq \in Seq(Frames \cup {Push}) /\ Len(outq) <= OutCap
  /\ held \in Frames \cup {Push, NoFrame}
  /\ notified \in BOOLEAN
  /\ ran \in [Reqs -> Nat]
  /\ pushes \in 0..MaxPushes

LinkInit ==
  /\ task = "boot" /\ tries = 0 /\ suspects = 0 /\ refused = FALSE
  /\ live = FALSE /\ state = "none"
  /\ caller = [r \in Reqs |-> "new"] /\ via = [r \in Reqs |-> 0]
  /\ answer = [r \in Reqs |-> NoReq]
  /\ cmdq = <<>> /\ nextId = 1 /\ pending = [i \in Ids |-> NoReq] /\ writing = NoFrame
  /\ conn = 0 /\ up = <<>> /\ down = <<>>
  /\ peer = "none" /\ busy = NoFrame /\ outq = <<>> /\ held = NoFrame /\ notified = FALSE
  /\ ran = [r \in Reqs |-> 0] /\ pushes = 0

-----------------------------------------------------------------------------
(* connect_and_handshake and what becomes of its outcome.  A definition    *)
(* marked `Bug:' is a faulty variant of the one that follows it, for       *)
(* checking that the properties can fail.                                  *)

\* The daemon accepts: a fresh stream here, a fresh handle_client there.
Accept ==
  /\ conn < MaxConns
  /\ conn' = conn + 1
  /\ up' = <<>> /\ down' = <<>>
  /\ peer' = "serve" /\ busy' = NoFrame /\ outq' = <<>> /\ held' = NoFrame /\ notified' = FALSE
  /\ live' = TRUE
  /\ UNCHANGED <<ran, pushes>>

\* Bug: the attempts asked for are taken as they are.
Unclamped == BootAttempts

\* connect_with_retry clamps them.
Attempts == IF BootAttempts < SuspectCap THEN SuspectCap ELSE BootAttempts

\* The socket accepts, the handshake fails: EOF, garbage, silence.
Suspect == suspects' = suspects + 1
Escalates == suspects + 1 >= SuspectCap

BootAccept ==
  /\ task = "boot" /\ Accept
  /\ task' = "run" /\ state' = "Connected"
  /\ UNCHANGED <<dialVars, callVars, taskVars>>

BootTry(next) ==
  /\ task = "boot"
  /\ tries' = tries + 1
  /\ task' = IF next = "boot" /\ tries + 1 >= Attempts THEN "failed" ELSE next
  /\ UNCHANGED <<live, state, callVars, taskVars, conn, up, down, peerVars>>

BootRefused == BootTry("boot") /\ suspects' = 0 /\ refused' = TRUE
BootTransient == BootTry(IF Escalates THEN "fatal" ELSE "boot") /\ Suspect /\ UNCHANGED refused
BootIncompatible == BootTry("fatal") /\ UNCHANGED <<suspects, refused>>

\* connect_with_backoff.
DialAccept ==
  /\ task = "dial" /\ Accept
  /\ task' = "dialed"
  /\ UNCHANGED <<state, dialVars, callVars, taskVars>>

DialRefused ==
  /\ task = "dial"
  /\ suspects' = 0
  /\ UNCHANGED <<task, tries, refused, live, state, callVars, taskVars, conn, up, down, peerVars>>

\* Callers whose reply sender is dropped.
Fails(who) == caller' = [r \in Reqs |-> IF r \in who /\ caller[r] = "wait" THEN "failed" ELSE caller[r]]

InQueue == {cmdq[i] : i \in 1..Len(cmdq)}

\* Fatal: the callbacks hear of it, the task returns and drops the command channel.
GiveUp ==
  /\ task' = "gone" /\ state' = "Incompatible"
  /\ cmdq' = <<>> /\ Fails(InQueue)
  /\ UNCHANGED <<tries, refused, live, via, answer, nextId, pending, writing, conn, up, down, peerVars>>

DialTransient ==
  /\ task = "dial" /\ Suspect
  /\ \/ Escalates /\ GiveUp
     \/ ~Escalates /\ UNCHANGED <<task, tries, refused, live, state, callVars, taskVars, conn,
                                  up, down, peerVars>>

DialIncompatible == task = "dial" /\ GiveUp /\ UNCHANGED suspects

FireConnected ==
  /\ task = "dialed"
  /\ task' = "run" /\ state' = "Connected"
  /\ UNCHANGED <<dialVars, live, callVars, taskVars, conn, up, down, peerVars>>

-----------------------------------------------------------------------------
(* DaemonClient::request.                                                  *)

\* request_inner looks at live before it enqueues.
Gate(r) ==
  /\ conn > 0 /\ task # "dropped" /\ caller[r] = "new"
  /\ caller' = [caller EXCEPT ![r] = IF live THEN "send" ELSE "refused"]
  /\ via' = [via EXCEPT ![r] = conn]
  /\ UNCHANGED <<task, dialVars, live, state, answer, taskVars, conn, up, down, peerVars>>

HasRoom == Len(cmdq) < CmdCap

\* cmd_tx.send().await: waits for room, fails once the receiver is dropped.
Send(r) ==
  /\ caller[r] = "send"
  /\ \/ /\ task = "gone"
        /\ caller' = [caller EXCEPT ![r] = "failed"] /\ UNCHANGED cmdq
     \/ /\ task # "gone" /\ HasRoom
        /\ caller' = [caller EXCEPT ![r] = "wait"] /\ cmdq' = Append(cmdq, r)
  /\ UNCHANGED <<task, dialVars, live, state, via, answer, nextId, pending, writing, conn, up,
                 down, peerVars>>

\* REQUEST_TIMEOUT covers the wait for the reply, not the send.
Timeout(r) ==
  /\ r \in Impatient /\ caller[r] = "wait"
  /\ Fails({r})
  /\ UNCHANGED <<task, dialVars, live, state, via, answer, taskVars, conn, up, down, peerVars>>

-----------------------------------------------------------------------------
(* run_connection and the loop around it.                                  *)

\* Bug: the number of requests in flight makes the id.
CountInFlight == Cardinality({i \in Ids : pending[i] # NoReq}) + 1

\* next_id, which outlives the connections.
FreshId == nextId

\* A command: an oversized one fails on its own, any other is written.
Take ==
  /\ task = "run" /\ cmdq # <<>>
  /\ cmdq' = Tail(cmdq)
  /\ nextId' = nextId + 1
  /\ LET r == Head(cmdq) IN
     \/ /\ r \in Big
        /\ Fails({r})
        /\ UNCHANGED <<task, pending, writing>>
     \/ /\ r \notin Big
        /\ pending' = [pending EXCEPT ![FreshId] = r]
        /\ writing' = [id |-> FreshId, of |-> r]
        /\ task' = "write"
        /\ UNCHANGED caller
  /\ UNCHANGED <<dialVars, live, state, via, answer, conn, up, down, peerVars>>

\* write_all: nothing is read meanwhile.
Written ==
  /\ task = "write"
  /\ \/ peer = "closed" /\ task' = "lost" /\ UNCHANGED up
     \/ peer # "closed" /\ Len(up) < SockCap /\ task' = "run" /\ up' = Append(up, writing)
  /\ writing' = NoFrame
  /\ UNCHANGED <<dialVars, live, state, callVars, cmdq, nextId, pending, conn, down, peerVars>>

\* A frame: a response goes to the request waiting under its id, if any.
Read ==
  /\ task = "run" /\ down # <<>>
  /\ down' = Tail(down)
  /\ LET f == Head(down)
         r == IF f = Push THEN NoReq ELSE pending[f.id] IN
     \/ /\ r = NoReq
        /\ UNCHANGED <<caller, answer, pending>>
     \/ /\ r # NoReq
        /\ pending' = [pending EXCEPT ![f.id] = NoReq]
        /\ IF caller[r] = "wait"
           THEN /\ caller' = [caller EXCEPT ![r] = "ok"]
                /\ answer' = [answer EXCEPT ![r] = f.of]
           ELSE UNCHANGED <<caller, answer>>
  /\ UNCHANGED <<task, dialVars, live, state, via, cmdq, nextId, writing, conn, up, peerVars>>

\* EOF; a reset comes before what is still unread.
Eof ==
  /\ task = "run" /\ peer = "closed"
  /\ task' = "lost"
  /\ UNCHANGED <<dialVars, live, state, callVars, taskVars, conn, up, down, peerVars>>

NotLive ==
  /\ task = "lost"
  /\ live' = FALSE
  /\ task' = "drain"
  /\ UNCHANGED <<dialVars, state, callVars, taskVars, conn, up, down, peerVars>>

InFlight == {pending[i] : i \in Ids} \ {NoReq}

\* Bug: the callers in flight are left to their timeout.
DrainNothing == UNCHANGED <<caller, pending, cmdq>>

\* Bug: what was in flight is sent again on the next connection.
DrainRequeues ==
  /\ cmdq' = cmdq \o (IF InFlight = {} THEN <<>> ELSE <<CHOOSE r \in InFlight : TRUE>>)
  /\ pending' = [i \in Ids |-> NoReq]
  /\ UNCHANGED caller

\* Every request in flight fails now; what is still in the channel is not in flight.
DrainPending ==
  /\ Fails(InFlight)
  /\ pending' = [i \in Ids |-> NoReq]
  /\ UNCHANGED cmdq

Drain ==
  /\ task = "drain" /\ DrainPending
  /\ task' = "fire"
  /\ UNCHANGED <<dialVars, live, state, via, answer, nextId, writing, conn, up, down, peerVars>>

FireDisconnected ==
  /\ task = "fire"
  /\ task' = "dial" /\ state' = "Disconnected" /\ suspects' = 0
  /\ UNCHANGED <<tries, refused, live, callVars, taskVars, conn, up, down, peerVars>>

\* The last handle to the client is dropped: nobody is in request().
DropClient ==
  /\ task = "run" /\ cmdq = <<>>
  /\ \A r \in Reqs : caller[r] \notin {"send", "wait"}
  /\ task' = "dropped" /\ live' = FALSE
  /\ pending' = [i \in Ids |-> NoReq]
  /\ UNCHANGED <<dialVars, state, callVars, cmdq, nextId, writing, conn, up, down, peerVars>>

-----------------------------------------------------------------------------
(* The daemon's handle_client.                                             *)

Dispatch ==
  /\ peer = "serve" /\ busy = NoFrame /\ up # <<>>
  /\ busy' = Head(up) /\ up' = Tail(up)
  /\ UNCHANGED <<task, dialVars, live, state, callVars, taskVars, conn, down, peer, outq, held,
                 notified, ran, pushes>>

\* Bug: the reply waits for room in the queue.
BlockingReply ==
  Len(outq) < OutCap /\ outq' = Append(outq, busy) /\ UNCHANGED peer

\* try_send: a client that does not read is disconnected.
TryReply ==
  IF Len(outq) < OutCap THEN outq' = Append(outq, busy) /\ UNCHANGED peer
                        ELSE peer' = "cleanup" /\ UNCHANGED outq

Reply ==
  /\ peer = "serve" /\ busy # NoFrame
  /\ ran' = [ran EXCEPT ![busy.of] = @ + 1]
  /\ TryReply
  /\ busy' = NoFrame
  /\ UNCHANGED <<task, dialVars, live, state, callVars, taskVars, conn, up, down, held,
                 notified, pushes>>

\* Broadcaster::broadcast skips a full queue.
Broadcast ==
  /\ peer = "serve" /\ pushes < MaxPushes
  /\ pushes' = pushes + 1
  /\ outq' = IF Len(outq) < OutCap THEN Append(outq, Push) ELSE outq
  /\ UNCHANGED <<task, dialVars, live, state, callVars, taskVars, conn, up, down, peer, busy,
                 held, notified, ran>>

\* make_push_sink's task, for the attachments; it ends when it finds the queue full.
SinkPush ==
  /\ peer = "serve" /\ ~notified /\ pushes < MaxPushes
  /\ pushes' = pushes + 1
  /\ \/ Len(outq) < OutCap /\ outq' = Append(outq, Push) /\ UNCHANGED notified
     \/ Len(outq) >= OutCap /\ notified' = TRUE /\ UNCHANGED outq
  /\ UNCHANGED <<task, dialVars, live, state, callVars, taskVars, conn, up, down, peer, busy,
                 held, ran>>

\* Bug: the dispatch loop does not hear of it: the push path alone stops (before D4).
NeverTold == FALSE

ToldOfOverflow == notified

\* The dispatch loop ends: told of the overflow, told to shut down, or the client closed.
Leave(why) ==
  /\ peer = "serve" /\ busy = NoFrame /\ why
  /\ peer' = "cleanup"
  /\ UNCHANGED <<task, dialVars, live, state, callVars, taskVars, conn, up, down, busy, outq,
                 held, notified, ran, pushes>>

WriterTake ==
  /\ peer \in {"serve", "cleanup"} /\ held = NoFrame /\ outq # <<>>
  /\ held' = Head(outq) /\ outq' = Tail(outq)
  /\ UNCHANGED <<task, dialVars, live, state, callVars, taskVars, conn, up, down, peer, busy,
                 notified, ran, pushes>>

WriterWrite ==
  /\ peer \in {"serve", "cleanup"} /\ held # NoFrame
  /\ Len(down) < SockCap \/ task = "dropped"   \* EPIPE; the loop sees the EOF and leaves
  /\ down' = IF task = "dropped" THEN down ELSE Append(down, held)
  /\ held' = NoFrame
  /\ UNCHANGED <<task, dialVars, live, state, callVars, taskVars, conn, up, peer, busy, outq,
                 notified, ran, pushes>>

\* The writer is done, or WRITER_JOIN_TIMEOUT aborts it; or the daemon died. What was not written
\* is gone.
Close(states) ==
  /\ peer \in states
  /\ peer' = "closed" /\ busy' = NoFrame /\ outq' = <<>> /\ held' = NoFrame /\ up' = <<>>
  /\ UNCHANGED <<task, dialVars, live, state, callVars, taskVars, conn, down, notified, ran, pushes>>

-----------------------------------------------------------------------------
Boot == BootAccept \/ BootRefused \/ BootTransient \/ BootIncompatible
DialAgain == DialAccept \/ DialRefused \/ DialTransient \/ DialIncompatible
Connection == \/ Take \/ Written \/ Read \/ Eof \/ NotLive \/ Drain
              \/ FireDisconnected \/ FireConnected
Handler == Dispatch \/ Reply \/ Leave(ToldOfOverflow)
Writer == WriterTake \/ WriterWrite

LinkNext ==
  \/ Boot \/ DialAgain \/ Connection \/ DropClient
  \/ \E r \in Reqs : Gate(r) \/ Send(r) \/ Timeout(r)
  \/ Handler \/ Leave(TRUE) \/ Broadcast \/ SinkPush \/ Writer
  \/ Close({"cleanup"}) \/ Close({"serve"})

LinkSpec == LinkInit /\ [][LinkNext]_link_vars

(* Both ends' tasks are polled, dispatch answers what it reads, cleanup's  *)
(* wait is bounded, a caller sends what it began. No reconnect is assumed, *)
(* and no caller's timeout.                                                *)
LinkFairness ==
  /\ WF_link_vars(Connection) /\ WF_link_vars(Handler) /\ WF_link_vars(Writer)
  /\ WF_link_vars(Close({"cleanup"}))
  /\ \A r \in Reqs : WF_link_vars(Send(r))

LinkFairSpec == LinkSpec /\ LinkFairness

-----------------------------------------------------------------------------
(* Properties.                                                             *)

\* Queues, ids, sockets, redials and timeouts come to what RequestLink says of a request: at most
\* one dispatch, across reconnects, and the response to it or a failure, but never another's.
Requests == INSTANCE RequestLink WITH
  outcome <- [r \in Reqs |-> IF caller[r] \in {"send", "wait"} THEN "asked" ELSE caller[r]]

RequestsServed == Requests!RequestSpec

\* While the client dials, nobody waits for an answer that cannot come: who waits is still in the
\* command channel, and after it gave up nobody waits.
NoneStranded ==
  task \in {"dial", "gone"} => \A r \in Reqs : caller[r] = "wait" => r \in InQueue

\* connect_with_retry reports Disconnected only if nobody was listening at some attempt: a daemon
\* that accepts and never completes a handshake ends as IncompatibleDaemon.
BootEscalates == task = "failed" => refused

\* A request written to the daemon gets its answer or its failure, without REQUEST_TIMEOUT: client
\* and daemon never wait for one another with both sockets full.
InFlightResolves ==
  \A r \in Reqs : (caller[r] = "wait" /\ r \in InFlight) ~> (caller[r] # "wait")

\* A client whose attachments lost a push to a full queue is disconnected, so that it attaches and
\* replays again.
SlowClientReconnects == notified ~> ~live

\* SharedState::live's doc: a call does not resolve "on a different, newly-reconnected connection
\* than the one the caller thought they were talking to".
StaysOnItsConnection ==
  [][\A r \in Reqs : ran'[r] > ran[r] => via[r] = conn]_link_vars

\* request's doc: while the connection is down it returns Disconnected "rather than hanging": a
\* call past the gate does not wait for ever to be put in the channel.
CallerNeverHangs ==
  \A r \in Reqs : (caller[r] = "send") ~> (caller[r] # "send")
=============================================================================
