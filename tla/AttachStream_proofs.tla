------------------------- MODULE AttachStream_proofs -------------------------
(***************************************************************************)
(* What holds of AttachStream for every value of its constants.            *)
(***************************************************************************)
EXTENDS AttachStream, TLAPS

(* Type correctness needs two facts about control: the reader casts a chunk *)
(* it has pushed, and a forwarder that sends has the chunk in hand.         *)
Control ==
  /\ rpc = "cast" => ring \in Chunks
  /\ \A s \in Subs : fwd[s] = "send" => chan[s] # <<>>

TypeInv == TypeOK /\ Control

\* The channel that a dropped Receiver leaves behind is one the type allows.
LEMMA EmptyChan == <<>> \in Seq(Chunks)
  OBVIOUS

\* What a forwarder takes from its channel is a chunk, and leaves a channel.
LEMMA HeadTail ==
  ASSUME NEW q \in Seq(Chunks), q # <<>>
  PROVE  Head(q) \in Chunks /\ Tail(q) \in Seq(Chunks)
  OBVIOUS

\* The reader's send of a chunk leaves a channel of chunks, and not an empty one.
LEMMA AppendChunk ==
  ASSUME NEW q \in Seq(Chunks), NEW k \in Chunks
  PROVE  Append(q, k) \in Seq(Chunks) /\ Append(q, k) # <<>>
<1>1. Append(q, k) \in Seq(Chunks) /\ Len(Append(q, k)) = Len(q) + 1
  OBVIOUS
<1>2. Len(q) \in Nat /\ Len(<<>>) = 0
  OBVIOUS
<1>. QED
  BY <1>1, <1>2

\* A chunk that is shown can be recorded as the last one shown.
LEMMA ChunkRange == Chunks \subseteq 0..MaxChunks
  BY StreamAssumption DEF Chunks

\* A session that was just spawned, with no attachment, satisfies the type invariant.
LEMMA TypeInvInit == Init => TypeInv
  BY StreamAssumption DEF Init, TypeInv, TypeOK, Control, Chunks, Subs, FwdStates

\* No step of the PTY, the session's threads, the registry or a forwarder leaves the type
\* invariant.
LEMMA TypeInvStep == TypeInv /\ [Next]_vars => TypeInv'
<1> SUFFICES ASSUME TypeInv, [Next]_vars PROVE TypeInv'
  OBVIOUS
<1> USE StreamAssumption DEF FwdStates
<1>1. CASE PtyWrite
  BY <1>1 DEF TypeInv, TypeOK, Control, ptyVars, procVars, subVars, connVars, PtyWrite
<1>2. CASE ChildExit
  BY <1>2 DEF TypeInv, TypeOK, Control, ptyVars, procVars, subVars, connVars, ChildExit
<1>3. CASE SlaveClose
  BY <1>3 DEF TypeInv, TypeOK, Control, ptyVars, procVars, subVars, connVars, SlaveClose
<1>4. CASE ReaderPush
  BY <1>4 DEF TypeInv, TypeOK, Control, ptyVars, procVars, subVars, connVars, ReaderPush,
     ReadReturns, Chunks
<1>5. CASE ReaderCast
  <2>1. ring \in Chunks
    BY <1>5 DEF TypeInv, Control, ReaderCast
  <2>2. \A s \in Subs : Enqueue(s) \in Seq(Chunks) /\ Enqueue(s) # <<>>
    BY <2>1, AppendChunk DEF TypeInv, TypeOK, Enqueue
  <2>3. chan' \in [Subs -> Seq(Chunks)] /\ \A s \in Subs : chan[s] # <<>> => chan'[s] # <<>>
    BY <1>5, <2>2 DEF TypeInv, TypeOK, ReaderCast
  <2>. QED
    BY <1>5, <2>3 DEF TypeInv, TypeOK, Control, ptyVars, procVars, subVars, connVars, ReaderCast
<1>6. CASE ReaderEof
  BY <1>6 DEF TypeInv, TypeOK, Control, ptyVars, procVars, subVars, connVars, ReaderEof
<1>7. CASE ReaderClear
  BY <1>7 DEF TypeInv, TypeOK, Control, ptyVars, procVars, subVars, connVars, ReaderClear
<1>8. CASE WaitReap
  BY <1>8 DEF TypeInv, TypeOK, Control, ptyVars, procVars, subVars, connVars, WaitReap
<1>9. CASE WaitCallback
  BY <1>9 DEF TypeInv, TypeOK, Control, ptyVars, procVars, subVars, connVars, WaitCallback,
     RemoveSession
<1>10. CASE KillReap
  BY <1>10 DEF TypeInv, TypeOK, Control, ptyVars, procVars, subVars, connVars, KillReap
<1>11. CASE DetachAll
  BY <1>11 DEF TypeInv, TypeOK, Control, ptyVars, procVars, subVars, connVars, DetachAll,
     Retire, Cancel
<1>12. ASSUME NEW c \in Conns, AttachBegin(c) PROVE TypeInv'
  BY <1>12 DEF TypeInv, TypeOK, Control, ptyVars, procVars, subVars, connVars, AttachBegin
<1>13. ASSUME NEW c \in Conns, AttachSubscribe(c) PROVE TypeInv'
  <2>1. nextSub \in Subs /\ nextSub + 1 \in 1..(MaxSubs + 1)
    BY <1>13 DEF TypeInv, TypeOK, AttachSubscribe, Subs
  <2>2. sinks' \subseteq Subs /\ nextSub' \in 1..(MaxSubs + 1)
    <3>1. sinks' = sinks \cup {nextSub} \/ sinks' = sinks
      BY <1>13 DEF AttachSubscribe
    <3>2. nextSub' = nextSub + 1
      BY <1>13 DEF AttachSubscribe
    <3>. QED
      BY <2>1, <3>1, <3>2 DEF TypeInv, TypeOK
  <2>3. /\ owner' \in [Subs -> Conns \cup {NoConn}]
        /\ fwd' \in [Subs -> FwdStates]
    BY <1>13, <2>1 DEF TypeInv, TypeOK, AttachSubscribe
  <2>4. asub' \in [Conns -> Subs \cup {NoEntry, ReplayOnly}]
    BY <1>13, <2>1 DEF TypeInv, TypeOK, AttachSubscribe
  <2>5. TypeOK'
    BY <1>13, <2>2, <2>3, <2>4 DEF TypeInv, TypeOK, ptyVars, procVars, subVars, connVars,
                                   AttachSubscribe
  <2>6. Control'
    BY <1>13, <2>1 DEF TypeInv, TypeOK, Control, ptyVars, procVars, subVars, connVars,
       AttachSubscribe
  <2>. QED
    BY <2>5, <2>6 DEF TypeInv
<1>14. ASSUME NEW c \in Conns, AttachSnapshot(c) PROVE TypeInv'
  <2>1. chan' \in [Subs -> Seq(Chunks)]
    BY <1>14, EmptyChan DEF TypeInv, TypeOK, AttachSnapshot, ptyVars, procVars, subVars, connVars
  <2>2. Control'
    BY <1>14 DEF TypeInv, TypeOK, Control, ptyVars, procVars, subVars, connVars, AttachSnapshot
  <2>. QED
    BY <1>14, <2>1, <2>2 DEF TypeInv, TypeOK, ptyVars, procVars, subVars, connVars, AttachSnapshot
<1>15. ASSUME NEW c \in Conns, AttachReplay(c) PROVE TypeInv'
  <2>1. chan' \in [Subs -> Seq(Chunks)]
    BY <1>15, EmptyChan DEF TypeInv, TypeOK, AttachReplay, ptyVars, procVars, subVars, connVars
  <2>2. Control'
    BY <1>15 DEF TypeInv, TypeOK, Control, ptyVars, procVars, subVars, connVars, AttachReplay
  <2>. QED
    BY <1>15, <2>1, <2>2 DEF TypeInv, TypeOK, ptyVars, procVars, subVars, connVars, AttachReplay
<1>16. ASSUME NEW c \in Conns, AttachReplayOnly(c) PROVE TypeInv'
  BY <1>16 DEF TypeInv, TypeOK, Control, ptyVars, procVars, subVars, connVars, AttachReplayOnly
<1>17. ASSUME NEW c \in Conns, AttachInsert(c) PROVE TypeInv'
  BY <1>17 DEF TypeInv, TypeOK, Control, ptyVars, procVars, subVars, connVars, AttachInsert,
     Retire, Cancel
<1>18. ASSUME NEW c \in Conns, Detach(c) PROVE TypeInv'
  BY <1>18 DEF TypeInv, TypeOK, Control, ptyVars, procVars, subVars, connVars, Detach,
     Retire, Cancel
<1>19. ASSUME NEW c \in Conns, DetachAllForConn(c) PROVE TypeInv'
  BY <1>19 DEF TypeInv, TypeOK, Control, ptyVars, procVars, subVars, connVars, DetachAllForConn,
     Retire, Cancel
<1>20. ASSUME NEW c \in Conns, PushSinkOverflow(c) PROVE TypeInv'
  BY <1>20 DEF TypeInv, TypeOK, Control, ptyVars, procVars, subVars, connVars, PushSinkOverflow
<1>21. ASSUME NEW s \in Subs, FwdTake(s) PROVE TypeInv'
  BY <1>21 DEF TypeInv, TypeOK, Control, ptyVars, procVars, subVars, connVars, FwdTake, Takes
<1>22. ASSUME NEW s \in Subs, FwdReturn(s) PROVE TypeInv'
  <2>1. chan' \in [Subs -> Seq(Chunks)]
    BY <1>22, EmptyChan DEF TypeInv, TypeOK, FwdReturn, ptyVars, procVars, subVars, connVars
  <2>2. Control'
    BY <1>22 DEF TypeInv, TypeOK, Control, ptyVars, procVars, subVars, connVars, FwdReturn
  <2>. QED
    BY <1>22, <2>1, <2>2 DEF TypeInv, TypeOK, ptyVars, procVars, subVars, connVars, FwdReturn
<1>23. ASSUME NEW s \in Subs, FwdSend(s) PROVE TypeInv'
  <2>1. chan[s] # <<>> /\ Head(chan[s]) \in Chunks /\ Tail(chan[s]) \in Seq(Chunks)
    BY <1>23, HeadTail DEF TypeInv, TypeOK, Control, FwdSend
  <2>2. chan' \in [Subs -> Seq(Chunks)]
    BY <1>23, <2>1 DEF TypeInv, TypeOK, FwdSend
  <2>3. seen' \in [Subs -> 0..MaxChunks] /\ late' \in [Subs -> Nat]
    <3>1. seen[s] \in 0..MaxChunks /\ late[s] \in Nat
      BY DEF TypeInv, TypeOK
    <3>2. seen' \in [Subs -> 0..MaxChunks]
      BY <1>23, <2>1, <3>1, ChunkRange DEF TypeInv, TypeOK, FwdSend
    <3>3. late' \in [Subs -> Nat]
      BY <1>23, <3>1 DEF TypeInv, TypeOK, FwdSend
    <3>. QED
      BY <3>2, <3>3
  <2>4. Control'
    BY <1>23 DEF TypeInv, TypeOK, Control, ptyVars, procVars, subVars, connVars, FwdSend
  <2>. QED
    BY <1>23, <2>2, <2>3, <2>4 DEF TypeInv, TypeOK, ptyVars, procVars, subVars, connVars, FwdSend
<1>24. ASSUME NEW s \in Subs, FwdSendGone(s) PROVE TypeInv'
  <2>1. Tail(chan[s]) \in Seq(Chunks)
    BY <1>24, HeadTail DEF TypeInv, TypeOK, Control, FwdSendGone
  <2>2. chan' \in [Subs -> Seq(Chunks)]
    <3>1. CASE chan' = [chan EXCEPT ![s] = <<>>]
      BY <3>1, EmptyChan DEF TypeInv, TypeOK
    <3>2. CASE chan' = [chan EXCEPT ![s] = Tail(@)]
      BY <3>2, <2>1 DEF TypeInv, TypeOK
    <3>. QED
      BY <1>24, <3>1, <3>2 DEF FwdSendGone
  <2>3. Control'
    BY <1>24 DEF TypeInv, TypeOK, Control, ptyVars, procVars, subVars, connVars, FwdSendGone
  <2>. QED
    BY <1>24, <2>2, <2>3 DEF TypeInv, TypeOK, ptyVars, procVars, subVars, connVars, FwdSendGone
<1>25. ASSUME NEW s \in Subs, FwdPoll(s) PROVE TypeInv'
  BY <1>25 DEF TypeInv, TypeOK, Control, ptyVars, procVars, subVars, connVars, FwdPoll
<1>26. ASSUME NEW s \in Subs, FwdTimeout(s) PROVE TypeInv'
  BY <1>26 DEF TypeInv, TypeOK, Control, ptyVars, procVars, subVars, connVars, FwdTimeout
<1>27. CASE UNCHANGED vars
  BY <1>27 DEF TypeInv, TypeOK, Control, ptyVars, procVars, subVars, connVars, vars
<1>. QED
  BY <1>1, <1>2, <1>3, <1>4, <1>5, <1>6, <1>7, <1>8, <1>9, <1>10, <1>11, <1>12, <1>13, <1>14,
     <1>15, <1>16, <1>17, <1>18, <1>19, <1>20, <1>21, <1>22, <1>23, <1>24, <1>25, <1>26, <1>27
  DEF Next, Reader, Waiter, AttachStep, Forwarder

\* Every reachable state has the types the module declares, for every number of connections,
\* chunks and sub_ids.
THEOREM TypeCorrect == Spec => []TypeOK
<1>1. TypeInv => TypeOK
  BY DEF TypeInv
<1>. QED
  BY <1>1, TypeInvInit, TypeInvStep, PTL DEF Spec

-----------------------------------------------------------------------------
(* The end of the stream. is_active is false before the reader clears the   *)
(* list, and nothing is subscribed while it is false.                       *)
EndOfStream ==
  /\ rpc \in {"clear", "done"} => ~isActive
  /\ rpc = "done" => sinks = {}

\* No step subscribes after the end of the stream: the reader and the wait thread only ever
\* clear is_active, and attach_live looks at it under the sinks lock.
LEMMA EndOfStreamStep == TypeInv /\ EndOfStream /\ [Next]_vars => EndOfStream'
<1> SUFFICES ASSUME TypeInv, EndOfStream, [Next]_vars PROVE EndOfStream'
  OBVIOUS
<1>1. CASE PtyWrite
  BY <1>1 DEF EndOfStream, ptyVars, procVars, subVars, connVars, PtyWrite
<1>2. CASE ChildExit
  BY <1>2 DEF EndOfStream, ptyVars, procVars, subVars, connVars, ChildExit
<1>3. CASE SlaveClose
  BY <1>3 DEF EndOfStream, ptyVars, procVars, subVars, connVars, SlaveClose
<1>4. CASE ReaderPush
  BY <1>4 DEF EndOfStream, ptyVars, procVars, subVars, connVars, ReaderPush, ReadReturns
<1>5. CASE ReaderCast
  BY <1>5 DEF EndOfStream, ptyVars, procVars, subVars, connVars, ReaderCast, Enqueue, Receiving
<1>6. CASE ReaderEof
  BY <1>6 DEF EndOfStream, ptyVars, procVars, subVars, connVars, ReaderEof
<1>7. CASE ReaderClear
  BY <1>7 DEF EndOfStream, ptyVars, procVars, subVars, connVars, ReaderClear
<1>8. CASE WaitReap
  BY <1>8 DEF EndOfStream, ptyVars, procVars, subVars, connVars, WaitReap
<1>9. CASE WaitCallback
  BY <1>9 DEF EndOfStream, ptyVars, procVars, subVars, connVars, WaitCallback, RemoveSession
<1>10. CASE KillReap
  BY <1>10 DEF EndOfStream, ptyVars, procVars, subVars, connVars, KillReap
<1>11. CASE DetachAll
  BY <1>11 DEF EndOfStream, ptyVars, procVars, subVars, connVars, DetachAll,
     Retire, Cancel
<1>12. ASSUME NEW c \in Conns, AttachBegin(c) PROVE EndOfStream'
  BY <1>12 DEF EndOfStream, ptyVars, procVars, subVars, connVars, AttachBegin
<1>13. ASSUME NEW c \in Conns, AttachSubscribe(c) PROVE EndOfStream'
  BY <1>13 DEF EndOfStream, ptyVars, procVars, subVars, connVars, AttachSubscribe, Subscribes
<1>14. ASSUME NEW c \in Conns, AttachSnapshot(c) PROVE EndOfStream'
  BY <1>14 DEF EndOfStream, ptyVars, procVars, subVars, connVars, AttachSnapshot
<1>15. ASSUME NEW c \in Conns, AttachReplay(c) PROVE EndOfStream'
  BY <1>15 DEF EndOfStream, ptyVars, procVars, subVars, connVars, AttachReplay
<1>16. ASSUME NEW c \in Conns, AttachReplayOnly(c) PROVE EndOfStream'
  BY <1>16 DEF EndOfStream, ptyVars, procVars, subVars, connVars, AttachReplayOnly
<1>17. ASSUME NEW c \in Conns, AttachInsert(c) PROVE EndOfStream'
  BY <1>17 DEF EndOfStream, ptyVars, procVars, subVars, connVars, AttachInsert, Retire, Cancel
<1>18. ASSUME NEW c \in Conns, Detach(c) PROVE EndOfStream'
  BY <1>18 DEF EndOfStream, ptyVars, procVars, subVars, connVars, Detach,
     Retire, Cancel
<1>19. ASSUME NEW c \in Conns, DetachAllForConn(c) PROVE EndOfStream'
  BY <1>19 DEF EndOfStream, ptyVars, procVars, subVars, connVars, DetachAllForConn, Retire, Cancel
<1>20. ASSUME NEW c \in Conns, PushSinkOverflow(c) PROVE EndOfStream'
  BY <1>20 DEF EndOfStream, ptyVars, procVars, subVars, connVars, PushSinkOverflow
<1>21. ASSUME NEW s \in Subs, FwdTake(s) PROVE EndOfStream'
  BY <1>21 DEF EndOfStream, ptyVars, procVars, subVars, connVars, FwdTake, Takes
<1>22. ASSUME NEW s \in Subs, FwdReturn(s) PROVE EndOfStream'
  BY <1>22 DEF EndOfStream, ptyVars, procVars, subVars, connVars, FwdReturn
<1>23. ASSUME NEW s \in Subs, FwdSend(s) PROVE EndOfStream'
  BY <1>23 DEF EndOfStream, ptyVars, procVars, subVars, connVars, FwdSend
<1>24. ASSUME NEW s \in Subs, FwdSendGone(s) PROVE EndOfStream'
  BY <1>24 DEF EndOfStream, ptyVars, procVars, subVars, connVars, FwdSendGone
<1>25. ASSUME NEW s \in Subs, FwdPoll(s) PROVE EndOfStream'
  BY <1>25 DEF EndOfStream, ptyVars, procVars, subVars, connVars, FwdPoll
<1>26. ASSUME NEW s \in Subs, FwdTimeout(s) PROVE EndOfStream'
  BY <1>26 DEF EndOfStream, ptyVars, procVars, subVars, connVars, FwdTimeout
<1>27. CASE UNCHANGED vars
  BY <1>27 DEF EndOfStream, vars
<1>. QED
  BY <1>1, <1>2, <1>3, <1>4, <1>5, <1>6, <1>7, <1>8, <1>9, <1>10, <1>11, <1>12, <1>13,
     <1>14, <1>15, <1>16, <1>17, <1>18, <1>19, <1>20, <1>21, <1>22, <1>23, <1>24, <1>25,
     <1>26, <1>27
  DEF Next, Reader, Waiter, AttachStep, Forwarder

\* Once the reader has cleared the list, nobody's Sender is in it again: a subscriber that read
\* is_active before the reader ended is refused under the sinks lock.
THEOREM NoSinkTheorem == Spec => []NoSinkWithoutProducer
<1>1. Init => EndOfStream
  BY DEF Init, EndOfStream
<1>2. EndOfStream => NoSinkWithoutProducer
  BY DEF EndOfStream, NoSinkWithoutProducer
<1>. QED
  BY <1>1, <1>2, TypeInvInit, TypeInvStep, EndOfStreamStep, PTL DEF Spec

-----------------------------------------------------------------------------
(* Before cancel nothing is late. A forwarder that still sends once it is   *)
(* cancelled has the chunk it held then in hand, so far unsent; it looks at *)
(* cancel after the next one arrives, and so never sends that.              *)
LateInv ==
  \A s \in Subs :
    /\ late[s] <= inhand[s]
    /\ ~cancel[s] => late[s] = 0
    /\ cancel[s] /\ fwd[s] = "send" => late[s] < inhand[s]

\* No step lets a cancelled forwarder send a chunk it had not in hand: it looks at cancel after
\* it received one and before it sends, and cancel is never reset.
LEMMA LateInvStep == TypeInv /\ LateInv /\ [Next]_vars => LateInv'
<1> SUFFICES ASSUME TypeInv, LateInv, [Next]_vars PROVE LateInv'
  OBVIOUS
<1>0. /\ late \in [Subs -> Nat] /\ inhand \in [Subs -> {0, 1}]
      /\ fwd \in [Subs -> FwdStates] /\ cancel \in [Subs -> BOOLEAN]
  BY DEF TypeInv, TypeOK
<1>1. CASE PtyWrite
  BY <1>1, <1>0 DEF LateInv, ptyVars, procVars, subVars, connVars, PtyWrite
<1>2. CASE ChildExit
  BY <1>2, <1>0 DEF LateInv, ptyVars, procVars, subVars, connVars, ChildExit
<1>3. CASE SlaveClose
  BY <1>3, <1>0 DEF LateInv, ptyVars, procVars, subVars, connVars, SlaveClose
<1>4. CASE ReaderPush
  BY <1>4, <1>0 DEF LateInv, ptyVars, procVars, subVars, connVars, ReaderPush, ReadReturns
<1>5. CASE ReaderCast
  BY <1>5, <1>0 DEF LateInv, ptyVars, procVars, subVars, connVars, ReaderCast, Enqueue, Receiving
<1>6. CASE ReaderEof
  BY <1>6, <1>0 DEF LateInv, ptyVars, procVars, subVars, connVars, ReaderEof
<1>7. CASE ReaderClear
  BY <1>7, <1>0 DEF LateInv, ptyVars, procVars, subVars, connVars, ReaderClear
<1>8. CASE WaitReap
  BY <1>8, <1>0 DEF LateInv, ptyVars, procVars, subVars, connVars, WaitReap
<1>9. CASE WaitCallback
  BY <1>9, <1>0 DEF LateInv, ptyVars, procVars, subVars, connVars, WaitCallback, RemoveSession
<1>10. CASE KillReap
  BY <1>10, <1>0 DEF LateInv, ptyVars, procVars, subVars, connVars, KillReap
<1>11. CASE DetachAll
  BY <1>11, <1>0 DEF LateInv, ptyVars, procVars, subVars, connVars, DetachAll,
     Retire, Cancel
<1>12. ASSUME NEW c \in Conns, AttachBegin(c) PROVE LateInv'
  BY <1>12, <1>0 DEF LateInv, ptyVars, procVars, subVars, connVars, AttachBegin
<1>13. ASSUME NEW c \in Conns, AttachSubscribe(c) PROVE LateInv'
  BY <1>13, <1>0 DEF LateInv, ptyVars, procVars, subVars, connVars, AttachSubscribe, Subscribes
<1>14. ASSUME NEW c \in Conns, AttachSnapshot(c) PROVE LateInv'
  BY <1>14, <1>0 DEF LateInv, ptyVars, procVars, subVars, connVars, AttachSnapshot
<1>15. ASSUME NEW c \in Conns, AttachReplay(c) PROVE LateInv'
  BY <1>15, <1>0 DEF LateInv, ptyVars, procVars, subVars, connVars, AttachReplay
<1>16. ASSUME NEW c \in Conns, AttachReplayOnly(c) PROVE LateInv'
  BY <1>16, <1>0 DEF LateInv, ptyVars, procVars, subVars, connVars, AttachReplayOnly
<1>17. ASSUME NEW c \in Conns, AttachInsert(c) PROVE LateInv'
  BY <1>17, <1>0 DEF LateInv, ptyVars, procVars, subVars, connVars, AttachInsert, Retire, Cancel
<1>18. ASSUME NEW c \in Conns, Detach(c) PROVE LateInv'
  BY <1>18, <1>0 DEF LateInv, ptyVars, procVars, subVars, connVars, Detach,
     Retire, Cancel
<1>19. ASSUME NEW c \in Conns, DetachAllForConn(c) PROVE LateInv'
  BY <1>19, <1>0 DEF LateInv, ptyVars, procVars, subVars, connVars, DetachAllForConn, Retire, Cancel
<1>20. ASSUME NEW c \in Conns, PushSinkOverflow(c) PROVE LateInv'
  BY <1>20, <1>0 DEF LateInv, ptyVars, procVars, subVars, connVars, PushSinkOverflow
<1>21. ASSUME NEW s \in Subs, FwdTake(s) PROVE LateInv'
  BY <1>21, <1>0 DEF LateInv, ptyVars, procVars, subVars, connVars, FwdTake, Takes
<1>22. ASSUME NEW s \in Subs, FwdReturn(s) PROVE LateInv'
  BY <1>22, <1>0 DEF LateInv, ptyVars, procVars, subVars, connVars, FwdReturn
<1>23. ASSUME NEW s \in Subs, FwdSend(s) PROVE LateInv'
  BY <1>23, <1>0 DEF LateInv, ptyVars, procVars, subVars, connVars, FwdSend
<1>24. ASSUME NEW s \in Subs, FwdSendGone(s) PROVE LateInv'
  BY <1>24, <1>0 DEF LateInv, ptyVars, procVars, subVars, connVars, FwdSendGone
<1>25. ASSUME NEW s \in Subs, FwdPoll(s) PROVE LateInv'
  BY <1>25, <1>0 DEF LateInv, ptyVars, procVars, subVars, connVars, FwdPoll
<1>26. ASSUME NEW s \in Subs, FwdTimeout(s) PROVE LateInv'
  BY <1>26, <1>0 DEF LateInv, ptyVars, procVars, subVars, connVars, FwdTimeout
<1>27. CASE UNCHANGED vars
  BY <1>27 DEF LateInv, vars
<1>. QED
  BY <1>1, <1>2, <1>3, <1>4, <1>5, <1>6, <1>7, <1>8, <1>9, <1>10, <1>11, <1>12, <1>13,
     <1>14, <1>15, <1>16, <1>17, <1>18, <1>19, <1>20, <1>21, <1>22, <1>23, <1>24, <1>25,
     <1>26, <1>27
  DEF Next, Reader, Waiter, AttachStep, Forwarder

\* However many times a connection attaches, re-attaches and detaches, and whatever the session
\* writes, a cancelled attachment shows its client no chunk but the one its forwarder was past
\* the re-check with.
THEOREM LateOutputTheorem == Spec => []LateOutputBound
<1>1. Init => LateInv
  BY DEF Init, LateInv
<1>2. LateInv => LateOutputBound
  BY DEF LateInv, LateOutputBound
<1>. QED
  BY <1>1, <1>2, TypeInvInit, TypeInvStep, LateInvStep, PTL DEF Spec

-----------------------------------------------------------------------------
(* The registry.  sub_ids are handed out once (Fresh), an entry and the     *)
(* attach that is about to insert one name attachments of their own         *)
(* connection (Owned), what is cancelled is named by nobody and cut off     *)
(* from the reader (Cut), and a forwarder that is not cancelled is named    *)
(* by its connection until the wait thread drops the entries (Named).       *)
Fresh ==
  \A s \in Subs : s >= nextSub =>
    /\ s \notin sinks /\ ~cancel[s] /\ fwd[s] = "free"
    /\ \A c \in Conns : entries[c] # s /\ asub[c] # s

Owned ==
  /\ \A s \in Subs : fwd[s] # "free" => owner[s] \in Conns
  /\ \A c \in Conns :
       /\ entries[c] \in Subs => owner[entries[c]] = c
       /\ asub[c] \in Subs => owner[asub[c]] = c /\ entries[c] # asub[c]

InHand ==
  \A c \in Conns :
    /\ apc[c] \in {"idle", "subscribe", "replay_only"} => asub[c] = NoEntry
    /\ apc[c] \in {"snapshot", "replay"} => asub[c] \in Subs

Cut ==
  \A s \in Subs : cancel[s] =>
    /\ \A c \in Conns : entries[c] # s /\ asub[c] # s
    /\ tracked => s \notin sinks

Named ==
  wpc # "done" =>
    \A s \in Subs : Receiving(s) /\ ~cancel[s] =>
      entries[owner[s]] = s \/ asub[owner[s]] = s

Registry == Fresh /\ Owned /\ InHand /\ Cut /\ Named

\* A session that was just spawned has no attachment.
LEMMA RegistryInit == Init => Registry
  BY StreamAssumption DEF Init, Registry, Fresh, Owned, InHand, Cut, Named, Receiving, Subs

\* What the registry's facts are about: a step that leaves these alone keeps them.
registryVars == <<nextSub, sinks, owner, fwd, cancel, entries, asub, apc, tracked, wpc>>

\* No step of the registry, the threads or a forwarder breaks them.
LEMMA RegistryStep == TypeInv /\ Registry /\ [Next]_vars => Registry'
<1> SUFFICES ASSUME TypeInv, Registry, [Next]_vars PROVE Registry'
  OBVIOUS
<1> USE StreamAssumption DEF Receiving, Subs, Registry
<1>0. /\ owner \in [Subs -> Conns \cup {NoConn}] /\ fwd \in [Subs -> FwdStates]
      /\ cancel \in [Subs -> BOOLEAN] /\ nextSub \in 1..(MaxSubs + 1)
      /\ entries \in [Conns -> Subs \cup {NoEntry, ReplayOnly}]
      /\ asub \in [Conns -> Subs \cup {NoEntry, ReplayOnly}]
      /\ apc \in [Conns -> {"idle", "subscribe", "snapshot", "replay", "replay_only", "insert"}]
      /\ sinks \subseteq Subs /\ tracked \in BOOLEAN
  BY DEF TypeInv, TypeOK
<1>1. CASE UNCHANGED registryVars
  BY <1>1 DEF registryVars, Fresh, Owned, InHand, Cut, Named
<1>2. ASSUME PtyWrite \/ ChildExit \/ SlaveClose \/ ReaderPush \/ ReaderEof \/ UNCHANGED vars
      PROVE  Registry'
  <2>. UNCHANGED registryVars
    BY <1>2 DEF registryVars, vars, ptyVars, procVars, subVars, connVars,
                PtyWrite, ChildExit, SlaveClose, ReaderPush, ReaderEof
  <2>. QED
    BY <1>1
<1>3. CASE ReaderCast
  BY <1>0, <1>3 DEF Fresh, Owned, InHand, Cut, Named, connVars, ReaderCast, Receiving
<1>4. CASE ReaderClear
  BY <1>0, <1>4 DEF Fresh, Owned, InHand, Cut, Named, subVars, connVars, ReaderClear
<1>5. CASE WaitReap
  BY <1>0, <1>5 DEF Fresh, Owned, InHand, Cut, Named, subVars, connVars, WaitReap
<1>6. CASE WaitCallback
  BY <1>0, <1>6 DEF Fresh, Owned, InHand, Cut, Named, subVars, WaitCallback, RemoveSession
<1>7. CASE KillReap
  BY <1>0, <1>7 DEF Fresh, Owned, InHand, Cut, Named, subVars, connVars, KillReap
<1>8. CASE DetachAll
  <2>1. Fresh'
    BY <1>0, <1>8 DEF Fresh, procVars, DetachAll, Retire, Cancel
  <2>2. Owned'
    BY <1>0, <1>8 DEF Owned, procVars, DetachAll, Retire, Cancel
  <2>3. InHand'
    BY <1>0, <1>8 DEF InHand, procVars, DetachAll, Retire, Cancel
  <2>4. Cut'
    BY <1>0, <1>8 DEF Owned, Cut, procVars, DetachAll, Retire, Cancel
  <2>5. Named'
    <3> SUFFICES ASSUME wpc # "done", NEW s \in Subs, Receiving(s), ~cancel'[s]
                 PROVE  asub[owner[s]] = s
      BY <1>8 DEF Named, DetachAll, procVars, connVars
    <3>1. owner[s] \in Conns
      BY DEF Owned
    <3>2. entries[owner[s]] # s
      BY <3>1, <1>0, <1>8 DEF DetachAll, Retire, Cancel
    <3>3. ~cancel[s]
      BY <1>0, <1>8 DEF DetachAll, Retire, Cancel
    <3>. QED
      BY <3>2, <3>3 DEF Named
  <2>. QED
    BY <2>1, <2>2, <2>3, <2>4, <2>5
<1>9. ASSUME NEW c \in Conns, AttachBegin(c) PROVE Registry'
  BY <1>0, <1>9 DEF Fresh, Owned, InHand, Cut, Named, procVars, subVars, AttachBegin
<1>10. ASSUME NEW c \in Conns, AttachSubscribe(c) PROVE Registry'
  <2>1. Fresh'
    BY <1>0, <1>10 DEF Fresh, procVars, AttachSubscribe, Subscribes
  <2>2. Owned'
    BY <1>0, <1>10 DEF Fresh, Owned, InHand, Cut, Named, procVars, AttachSubscribe, Subscribes
  <2>3. InHand'
    BY <1>0, <1>10 DEF InHand, procVars, AttachSubscribe, Subscribes
  <2>4. Cut'
    BY <1>0, <1>10 DEF Fresh, Cut, procVars, AttachSubscribe, Subscribes
  <2>5. Named'
    BY <1>0, <1>10 DEF Owned, InHand, Named, procVars, AttachSubscribe, Subscribes
  <2>. QED
    BY <2>1, <2>2, <2>3, <2>4, <2>5
<1>11. ASSUME NEW c \in Conns, AttachSnapshot(c) PROVE Registry'
  <2>1. Fresh'
    <3>1. asub[c] \in Subs
      BY <1>11 DEF AttachSnapshot, InHand
    <3>2. \A s \in Subs : s >= nextSub => fwd'[s] = "free"
      BY <1>0, <1>11, <3>1 DEF AttachSnapshot, Fresh
    <3>3. \A d \in Conns : asub'[d] = asub[d] \/ asub'[d] = NoEntry
      BY <1>0, <1>11 DEF AttachSnapshot
    <3>. QED
      BY <1>11, <3>2, <3>3 DEF AttachSnapshot, Fresh, connVars
  <2>2. Owned'
    BY <1>0, <1>11 DEF Owned, procVars, AttachSnapshot
  <2>3. InHand'
    BY <1>0, <1>11 DEF InHand, procVars, AttachSnapshot
  <2>4. Cut'
    BY <1>0, <1>11 DEF Cut, procVars, AttachSnapshot
  <2>5. Named'
    BY <1>0, <1>11 DEF Owned, Named, procVars, AttachSnapshot
  <2>. QED
    BY <2>1, <2>2, <2>3, <2>4, <2>5
<1>12. ASSUME NEW c \in Conns, AttachReplay(c) PROVE Registry'
  <2>1. Fresh'
    BY <1>0, <1>12 DEF Fresh, procVars, AttachReplay
  <2>2. Owned'
    BY <1>0, <1>12 DEF Owned, procVars, AttachReplay
  <2>3. InHand'
    BY <1>0, <1>12 DEF InHand, procVars, AttachReplay
  <2>4. Cut'
    BY <1>0, <1>12 DEF Cut, procVars, AttachReplay
  <2>5. Named'
    BY <1>0, <1>12 DEF Owned, Named, procVars, AttachReplay
  <2>. QED
    BY <2>1, <2>2, <2>3, <2>4, <2>5
<1>13. ASSUME NEW c \in Conns, AttachReplayOnly(c) PROVE Registry'
  <2>1. Fresh'
    BY <1>0, <1>13 DEF Fresh, procVars, subVars, AttachReplayOnly
  <2>2. Owned'
    BY <1>0, <1>13 DEF Owned, procVars, subVars, AttachReplayOnly
  <2>3. InHand'
    BY <1>0, <1>13 DEF InHand, procVars, subVars, AttachReplayOnly
  <2>4. Cut'
    BY <1>0, <1>13 DEF Cut, procVars, subVars, AttachReplayOnly
  <2>5. Named'
    BY <1>0, <1>13 DEF Owned, InHand, Named, procVars, subVars, AttachReplayOnly
  <2>. QED
    BY <2>1, <2>2, <2>3, <2>4, <2>5
<1>14. ASSUME NEW c \in Conns, AttachInsert(c) PROVE Registry'
  <2>1. Fresh'
    BY <1>0, <1>14 DEF Fresh, procVars, AttachInsert, Retire, Cancel
  <2>2. Owned'
    BY <1>0, <1>14 DEF Owned, procVars, AttachInsert, Retire, Cancel
  <2>3. InHand'
    BY <1>0, <1>14 DEF InHand, procVars, AttachInsert, Retire, Cancel
  <2>4. Cut'
    <3>1. /\ entries' = [entries EXCEPT ![c] = asub[c]] /\ asub' = [asub EXCEPT ![c] = NoEntry]
          /\ UNCHANGED tracked
          /\ sinks' = IF tracked THEN sinks \ ({entries[c]} \cap Subs) ELSE sinks
          /\ \A t \in Subs : cancel'[t] <=> cancel[t] \/ t = entries[c]
      BY <1>14 DEF AttachInsert, Retire, Cancel, procVars
    <3>2. ASSUME NEW t \in Subs, cancel'[t], NEW d \in Conns PROVE entries'[d] # t /\ asub'[d] # t
      BY <1>0, <3>1, <3>2 DEF Owned, Cut
    <3>3. ASSUME NEW t \in Subs, cancel'[t], tracked' PROVE t \notin sinks'
      BY <3>1, <3>3 DEF Cut
    <3>. QED
      BY <3>2, <3>3 DEF Cut
  <2>5. Named'
    BY <1>0, <1>14 DEF Owned, Named, procVars, AttachInsert, Retire, Cancel
  <2>. QED
    BY <2>1, <2>2, <2>3, <2>4, <2>5
<1>15. ASSUME NEW c \in Conns, Detach(c) PROVE Registry'
  <2>1. Fresh'
    BY <1>0, <1>15 DEF Fresh, procVars, Detach, Retire, Cancel
  <2>2. Owned'
    BY <1>0, <1>15 DEF Owned, procVars, Detach, Retire, Cancel
  <2>3. InHand'
    BY <1>0, <1>15 DEF InHand, procVars, Detach, Retire, Cancel
  <2>4. Cut'
    BY <1>0, <1>15 DEF Owned, Cut, procVars, Detach, Retire, Cancel
  <2>5. Named'
    BY <1>0, <1>15 DEF Owned, Named, procVars, Detach, Retire, Cancel
  <2>. QED
    BY <2>1, <2>2, <2>3, <2>4, <2>5
<1>16. ASSUME NEW c \in Conns, DetachAllForConn(c) PROVE Registry'
  <2>1. Fresh'
    BY <1>0, <1>16 DEF Fresh, procVars, DetachAllForConn, Retire, Cancel
  <2>2. Owned'
    BY <1>0, <1>16 DEF Owned, procVars, DetachAllForConn, Retire, Cancel
  <2>3. InHand'
    BY <1>0, <1>16 DEF InHand, procVars, DetachAllForConn, Retire, Cancel
  <2>4. Cut'
    BY <1>0, <1>16 DEF Owned, Cut, procVars, DetachAllForConn, Retire, Cancel
  <2>5. Named'
    BY <1>0, <1>16 DEF Owned, Named, procVars, DetachAllForConn, Retire, Cancel
  <2>. QED
    BY <2>1, <2>2, <2>3, <2>4, <2>5
<1>17. ASSUME NEW c \in Conns, PushSinkOverflow(c) PROVE Registry'
  BY <1>0, <1>17 DEF Fresh, Owned, InHand, Cut, Named, procVars, subVars, PushSinkOverflow
<1>18. ASSUME NEW s \in Subs, FwdTake(s) PROVE Registry'
  BY <1>0, <1>18 DEF Fresh, Owned, InHand, Cut, Named, procVars, connVars, FwdTake
<1>19. ASSUME NEW s \in Subs, FwdReturn(s) PROVE Registry'
  BY <1>0, <1>19 DEF Fresh, Owned, InHand, Cut, Named, procVars, connVars, FwdReturn
<1>20. ASSUME NEW s \in Subs, FwdSend(s) PROVE Registry'
  BY <1>0, <1>20 DEF Fresh, Owned, InHand, Cut, Named, procVars, connVars, FwdSend
<1>21. ASSUME NEW s \in Subs, FwdSendGone(s) PROVE Registry'
  BY <1>0, <1>21 DEF Fresh, Owned, InHand, Cut, Named, procVars, connVars, FwdSendGone
<1>22. ASSUME NEW s \in Subs, FwdPoll(s) PROVE Registry'
  BY <1>0, <1>22 DEF Fresh, Owned, InHand, Cut, Named, procVars, connVars, FwdPoll
<1>23. ASSUME NEW s \in Subs, FwdTimeout(s) PROVE Registry'
  BY <1>0, <1>23 DEF Fresh, Owned, InHand, Cut, Named, procVars, connVars, FwdTimeout
<1>. QED
  BY <1>2, <1>3, <1>4, <1>5, <1>6, <1>7, <1>8, <1>9, <1>10, <1>11, <1>12, <1>13,
     <1>14, <1>15, <1>16, <1>17, <1>18, <1>19, <1>20, <1>21, <1>22, <1>23
  DEF Next, Reader, Waiter, AttachStep, Forwarder

\* What a re-attach, a detach or a lost connection cancelled is in no entry, and the reader has let
\* go of it: sub_ids are handed out once and each is named by its own connection alone.
THEOREM CutOffTheorem == Spec => []CancelledIsCutOff
<1>1. Registry => CancelledIsCutOff
  BY DEF Registry, Cut, CancelledIsCutOff
<1>. QED
  BY <1>1, TypeInvInit, TypeInvStep, RegistryInit, RegistryStep, PTL DEF Spec

\* Any number of connections attach and detach: as long as the entries stand, a forwarder that still
\* runs uncancelled is one its connection can name, and so detach.
THEOREM NoOrphanTheorem == Spec => []NoOrphanForwarder
<1>1. Registry => NoOrphanForwarder
  BY DEF Registry, Named, NoOrphanForwarder, Running, Receiving
<1>. QED
  BY <1>1, TypeInvInit, TypeInvStep, RegistryInit, RegistryStep, PTL DEF Spec
-----------------------------------------------------------------------------
(***************************************************************************)
(* A client's view of a session is what the session wrote: no gap while it *)
(* is attached, nothing missing at the end.                                *)
(***************************************************************************)

(* The stream.  The next cast sends Upcoming; an attachment that is Fed     *)
(* still gets it.  Its channel holds consecutive chunks up to the one       *)
(* before Upcoming, and from the snapshot on (Shown) its client's view and  *)
(* the channel overlap or touch.                                            *)
Upcoming == IF rpc = "cast" THEN ring ELSE ring + 1

Fed(s) == s \in sinks \/ ~cancel[s]

Shown(s) ==
  /\ Running(s) \/ (fwd[s] = "attaching" /\ apc[owner[s]] = "replay")
  /\ link[owner[s]] = "up"

ReaderAt ==
  /\ ring <= written
  /\ rpc \in {"clear", "done"} => ring = written /\ ~slaveOpen

Flow(s) ==
  /\ \A i \in 1..(Len(chan[s]) - 1) : chan[s][i + 1] = chan[s][i] + 1
  /\ \A i \in 1..Len(chan[s]) : chan[s][i] < Upcoming
  /\ Fed(s) /\ chan[s] # <<>> => chan[s][Len(chan[s])] = Upcoming - 1
  /\ Fed(s) /\ s \notin sinks => rpc = "done"
  /\ Shown(s) /\ chan[s] # <<>> => chan[s][1] <= seen[s] + 1
  /\ Shown(s) /\ chan[s] = <<>> /\ Fed(s) => Upcoming <= seen[s] + 1

InAttach ==
  /\ \A s \in Subs : fwd[s] = "attaching" =>
       asub[owner[s]] = s /\ apc[owner[s]] \in {"snapshot", "replay"}
  /\ \A c \in Conns : apc[c] \in {"snapshot", "replay"} => fwd[asub[c]] = "attaching"

Views ==
  \A s \in Subs : seen[s] <= written /\ (fwd[s] = "free" => chan[s] = <<>>)

Flows == \A s \in Subs : Receiving(s) => Flow(s)

Drained ==
  \A s \in Subs :
    fwd[s] = "done" /\ ~cancel[s] /\ link[owner[s]] = "up" => rpc = "done" /\ seen[s] = written

Stream == ReaderAt /\ InAttach /\ Views /\ Flows /\ Drained

\* The reader's send adds one chunk behind the others.
LEMMA AppendAt ==
  ASSUME NEW q \in Seq(Chunks), NEW k \in Chunks
  PROVE  /\ Len(Append(q, k)) = Len(q) + 1
         /\ \A i \in 1..Len(q) : Append(q, k)[i] = q[i]
         /\ Append(q, k)[Len(q) + 1] = k
  OBVIOUS

\* The forwarder's take moves every other chunk up by one.
LEMMA TailAt ==
  ASSUME NEW q \in Seq(Chunks), q # <<>>
  PROVE  /\ Head(q) = q[1] /\ Len(q) > 0
         /\ Len(Tail(q)) = Len(q) - 1
         /\ \A i \in 1..(Len(q) - 1) : Tail(q)[i] = q[i + 1]
  OBVIOUS

\* A channel that is not empty has a first and a last chunk.
LEMMA NotEmpty ==
  ASSUME NEW q \in Seq(Chunks)
  PROVE  Len(q) \in Nat /\ (q = <<>> <=> Len(q) = 0) /\ \A i \in 1..Len(q) : q[i] \in Nat
  BY StreamAssumption DEF Chunks

\* A session that was just spawned has written nothing and has no attachment.
LEMMA StreamInit == Init => Stream
  BY StreamAssumption DEF Init, Stream, ReaderAt, InAttach, Views, Flows, Drained, Receiving, Subs

\* The strengthening that the two theorems below need.
Inv == TypeInv /\ EndOfStream /\ Registry /\ Stream

\* No step of the session's threads, of the registry or of a forwarder breaks the stream.
LEMMA StreamStep == Inv /\ [Next]_vars => Stream'
<1> SUFFICES ASSUME Inv, [Next]_vars PROVE Stream'
  OBVIOUS
<1> USE StreamAssumption
<1>0. /\ written \in Nat /\ ring \in Nat /\ slaveOpen \in BOOLEAN
      /\ chan \in [Subs -> Seq(Chunks)] /\ fwd \in [Subs -> FwdStates]
      /\ cancel \in [Subs -> BOOLEAN] /\ seen \in [Subs -> Nat]
      /\ owner \in [Subs -> Conns \cup {NoConn}]
      /\ asub \in [Conns -> Subs \cup {NoEntry, ReplayOnly}]
      /\ apc \in [Conns -> {"idle", "subscribe", "snapshot", "replay", "replay_only", "insert"}]
      /\ link \in [Conns -> {"up", "overflow", "down"}]
      /\ sinks \subseteq Subs
      /\ rpc \in {"read", "cast", "clear", "done"}
      /\ \A s \in Subs : fwd[s] # "free" => owner[s] \in Conns
  BY DEF Inv, TypeInv, TypeOK, Registry, Owned
<1>a. \A s \in Subs : /\ Len(chan[s]) \in Nat /\ (chan[s] = <<>> <=> Len(chan[s]) = 0)
                      /\ \A i \in 1..Len(chan[s]) : chan[s][i] \in Nat
  BY <1>0, NotEmpty
<1>b. ReaderAt /\ InAttach /\ Views /\ Flows /\ Drained
  BY DEF Inv, Stream
<1>1. CASE PtyWrite
  BY <1>0, <1>a, <1>b, <1>1 DEF Stream, ReaderAt, InAttach, Views, Flows, Drained, Flow,
     Receiving, Fed, Shown, Running, Upcoming, PtyWrite, procVars, subVars, connVars
<1>2. CASE ChildExit
  BY <1>0, <1>a, <1>b, <1>2 DEF Stream, ReaderAt, InAttach, Views, Flows, Drained, Flow,
     Receiving, Fed, Shown, Running, Upcoming, ChildExit, procVars, subVars, connVars
<1>3. CASE SlaveClose
  BY <1>0, <1>a, <1>b, <1>3 DEF Stream, ReaderAt, InAttach, Views, Flows, Drained, Flow,
     Receiving, Fed, Shown, Running, Upcoming, SlaveClose, procVars, subVars, connVars
<1>4. CASE ReaderPush
  <2>1. ReaderAt'
    BY <1>0, <1>b, <1>4 DEF ReaderAt, ReadReturns, ReaderPush, ptyVars
  <2>2. InAttach'
    BY <1>0, <1>b, <1>4 DEF Inv, Registry, InHand, Fresh, InAttach, Subs, ReaderPush, ptyVars,
       subVars, connVars
  <2>3. Views'
    BY <1>0, <1>b, <1>4 DEF Views, ReaderAt, ReaderPush, ptyVars, subVars, connVars
  <2>4. Flows'
    BY <1>0, <1>a, <1>b, <1>4 DEF Flows, ReaderAt, Flow, Receiving, Fed, Shown, Running,
       Upcoming, ReaderPush, ptyVars, subVars, connVars
  <2>5. Drained'
    BY <1>0, <1>b, <1>4 DEF Drained, ReaderAt, ReaderPush, ptyVars, subVars, connVars
  <2>. QED
    BY <2>1, <2>2, <2>3, <2>4, <2>5 DEF Stream
<1>5. CASE ReaderCast
  <2>1. ReaderAt'
    BY <1>0, <1>b, <1>5 DEF ReaderAt, ReaderCast, Receiving, ptyVars, connVars
  <2>2. InAttach'
    BY <1>0, <1>b, <1>5 DEF Inv, Registry, InHand, Fresh, InAttach, Subs, ReaderCast, Receiving,
       ptyVars, connVars
  <2>3. Views'
    BY <1>0, <1>b, <1>5 DEF Views, ReaderAt, ReaderCast, Receiving, ptyVars, connVars
  <2>4. Flows'
    <3> SUFFICES ASSUME NEW t \in Subs, Receiving(t)' PROVE Flow(t)'
      BY DEF Flows
    <3>1. /\ Receiving(t) /\ Flow(t) /\ Upcoming = ring /\ Upcoming' = ring + 1
          /\ rpc = "cast" /\ (Shown(t)' <=> Shown(t)) /\ (Fed(t) => t \in sinks)
          /\ t \in sinks' <=> t \in sinks
      BY <1>0, <1>b, <1>5 DEF Flows, Flow, Receiving, Fed, Shown, Running, Upcoming, ReaderCast,
         connVars
    <3>2. CASE t \notin sinks
      <4>1. chan'[t] = chan[t] /\ ~Fed(t)' /\ ~Fed(t)
        BY <1>0, <3>1, <3>2, <1>5 DEF ReaderCast, Fed
      <4>. QED
        BY <1>0, <1>a, <3>1, <4>1, <1>5 DEF ReaderCast, Flow
    <3>3. CASE t \in sinks
      <4>1. ring \in Chunks /\ chan[t] \in Seq(Chunks)
        BY <1>0, <1>5 DEF Inv, TypeInv, Control, ReaderCast
      <4>2. chan'[t] = Append(chan[t], ring)
        BY <1>0, <3>1, <3>3, <1>5 DEF ReaderCast, Enqueue
      <4>3. /\ Len(chan'[t]) = Len(chan[t]) + 1
            /\ \A i \in 1..Len(chan[t]) : chan'[t][i] = chan[t][i]
            /\ chan'[t][Len(chan[t]) + 1] = ring
        BY <4>1, <4>2, AppendAt
      <4>4. Fed(t) /\ t \in sinks' /\ chan'[t] # <<>>
        BY <3>1, <3>3, <4>1, <4>2, AppendChunk DEF Fed
      <4>5. \A i \in 1..(Len(chan'[t]) - 1) : chan'[t][i + 1] = chan'[t][i] + 1
        <5>1. Len(chan[t]) > 0 => chan[t][Len(chan[t])] = ring - 1
          BY <1>a, <3>1, <4>4 DEF Flow
        <5> TAKE i \in 1..(Len(chan'[t]) - 1)
        <5>2. CASE i = Len(chan[t])
          <6>1. i \in 1..Len(chan[t]) /\ Len(chan[t]) > 0
            BY <1>a, <5>2
          <6>2. chan'[t][i] = ring - 1
            BY <4>3, <5>1, <5>2, <6>1
          <6>3. chan'[t][i + 1] = ring
            BY <4>3, <5>2
          <6>. QED
            BY <1>0, <6>2, <6>3
        <5>3. CASE i # Len(chan[t])
          <6>1. i \in 1..(Len(chan[t]) - 1) /\ i \in 1..Len(chan[t]) /\ i + 1 \in 1..Len(chan[t])
            BY <1>a, <4>3, <5>3
          <6>. QED
            BY <3>1, <4>3, <6>1 DEF Flow
        <5>. QED
          BY <5>2, <5>3
      <4>6. \A i \in 1..Len(chan'[t]) : chan'[t][i] < ring + 1
        <5> TAKE i \in 1..Len(chan'[t])
        <5>1. i \in 1..Len(chan[t]) \/ i = Len(chan[t]) + 1
          BY <1>a, <4>3
        <5>2. CASE i \in 1..Len(chan[t])
          <6>1. chan[t][i] < ring /\ chan[t][i] \in Nat
            BY <1>a, <3>1, <5>2 DEF Flow
          <6>. QED
            BY <1>0, <4>3, <5>2, <6>1
        <5>3. CASE i = Len(chan[t]) + 1
          BY <1>0, <4>3, <5>3
        <5>. QED
          BY <5>1, <5>2, <5>3
      <4>7. Shown(t) => chan'[t][1] <= seen[t] + 1
        <5>1. CASE chan[t] = <<>>
          BY <1>a, <3>1, <4>3, <4>4, <5>1 DEF Flow
        <5>2. CASE chan[t] # <<>>
          <6>1. 1 \in 1..Len(chan[t])
            BY <1>a, <5>2
          <6>. QED
            BY <3>1, <4>3, <5>2, <6>1 DEF Flow
        <5>. QED
          BY <5>1, <5>2
      <4>. QED
        BY <1>0, <1>a, <3>1, <4>3, <4>4, <4>5, <4>6, <4>7, <1>5 DEF Flow, ReaderCast
    <3>. QED
      BY <3>2, <3>3
  <2>5. Drained'
    BY <1>0, <1>b, <1>5 DEF Drained, ReaderAt, ReaderCast, Receiving, ptyVars, connVars
  <2>. QED
    BY <2>1, <2>2, <2>3, <2>4, <2>5 DEF Stream
<1>6. CASE ReaderEof
  BY <1>0, <1>a, <1>b, <1>6 DEF Stream, ReaderAt, InAttach, Views, Flows, Drained, Flow,
     Receiving, Fed, Shown, Running, Upcoming, ReaderEof, ptyVars, subVars, connVars
<1>7. CASE ReaderClear
  BY <1>0, <1>a, <1>b, <1>7 DEF Stream, ReaderAt, InAttach, Views, Flows, Drained, Flow,
     Receiving, Fed, Shown, Running, Upcoming, ReaderClear, ptyVars, subVars, connVars
<1>8. CASE WaitReap
  BY <1>0, <1>a, <1>b, <1>8 DEF Stream, ReaderAt, InAttach, Views, Flows, Drained, Flow,
     Receiving, Fed, Shown, Running, Upcoming, WaitReap, ptyVars, subVars, connVars
<1>9. CASE WaitCallback
  BY <1>0, <1>a, <1>b, <1>9 DEF Stream, ReaderAt, InAttach, Views, Flows, Drained, Flow,
     Receiving, Fed, Shown, Running, Upcoming, WaitCallback, RemoveSession, ptyVars, subVars
<1>10. CASE KillReap
  BY <1>0, <1>a, <1>b, <1>10 DEF Stream, ReaderAt, InAttach, Views, Flows, Drained, Flow,
     Receiving, Fed, Shown, Running, Upcoming, KillReap, ptyVars, subVars, connVars
<1>11. CASE DetachAll
  <2>1. ReaderAt'
    BY <1>0, <1>b, <1>11 DEF ReaderAt, DetachAll, Retire, Cancel, ptyVars, procVars
  <2>2. InAttach'
    BY <1>0, <1>b, <1>11 DEF Inv, Registry, InHand, Fresh, InAttach, Subs, DetachAll,
       Retire, Cancel,
       ptyVars, procVars
  <2>3. Views'
    BY <1>0, <1>b, <1>11 DEF Views, ReaderAt, DetachAll, Retire, Cancel, ptyVars, procVars
  <2>4. Flows'
    BY <1>0, <1>a, <1>b, <1>11 DEF Flows, ReaderAt, Flow, Receiving, Fed, Shown, Running,
       Upcoming, DetachAll, Retire, Cancel, ptyVars, procVars
  <2>5. Drained'
    BY <1>0, <1>b, <1>11 DEF Drained, ReaderAt, DetachAll, Retire, Cancel, ptyVars, procVars
  <2>. QED
    BY <2>1, <2>2, <2>3, <2>4, <2>5 DEF Stream
<1>12. ASSUME NEW c \in Conns, AttachBegin(c) PROVE Stream'
  BY <1>0, <1>a, <1>b, <1>12 DEF Stream, ReaderAt, InAttach, Views, Flows, Drained, Flow,
     Receiving, Fed, Shown, Running, Upcoming, AttachBegin, ptyVars, procVars, subVars
<1>13. ASSUME NEW c \in Conns, AttachSubscribe(c) PROVE Stream'
  <2>1. ReaderAt'
    BY <1>0, <1>b, <1>13 DEF ReaderAt, AttachSubscribe, Subscribes, ptyVars, procVars
  <2>2. InAttach'
    <3>1. CASE ~Subscribes
      <4>1. UNCHANGED <<fwd, owner, asub>> /\ apc[c] = "subscribe"
        BY <1>13, <3>1 DEF AttachSubscribe
      <4>2. apc' = [apc EXCEPT ![c] = "replay_only"]
        BY <1>13, <3>1 DEF AttachSubscribe
      <4>3. \A t \in Subs : fwd[t] = "attaching" => owner[t] \in Conns /\ owner[t] # c
        BY <1>0, <1>b, <4>1 DEF InAttach
      <4>. QED
        BY <1>0, <1>b, <4>1, <4>2, <4>3 DEF InAttach
    <3>2. CASE Subscribes
      <4>1. /\ nextSub \in Subs
            /\ fwd' = [fwd EXCEPT ![nextSub] = "attaching"]
            /\ owner' = [owner EXCEPT ![nextSub] = c]
            /\ asub' = [asub EXCEPT ![c] = nextSub]
            /\ apc[c] = "subscribe" /\ apc' = [apc EXCEPT ![c] = "snapshot"]
        BY <1>13, <3>2 DEF AttachSubscribe, Inv, TypeInv, TypeOK, Subs
      <4>2. ASSUME NEW t \in Subs, fwd'[t] = "attaching"
            PROVE  asub'[owner'[t]] = t /\ apc'[owner'[t]] \in {"snapshot", "replay"}
        BY <1>0, <1>b, <4>1, <4>2 DEF InAttach
      <4>3. ASSUME NEW d \in Conns, apc'[d] \in {"snapshot", "replay"}
            PROVE  fwd'[asub'[d]] = "attaching"
        <5>1. d # c => asub[d] \in Subs
          BY <1>0, <4>1, <4>3 DEF Inv, Registry, InHand
        <5>. QED
          BY <1>0, <1>b, <4>1, <4>3, <5>1 DEF InAttach
      <4>. QED
        BY <4>2, <4>3 DEF InAttach
    <3>. QED
      BY <3>1, <3>2
  <2>3. Views'
    BY <1>0, <1>b, <1>13 DEF Views, ReaderAt, AttachSubscribe, Subscribes, ptyVars, procVars
  <2>4. Flows'
    <3> SUFFICES ASSUME NEW t \in Subs, Receiving(t)' PROVE Flow(t)'
      BY DEF Flows
    <3>1. nextSub \in Subs /\ fwd[nextSub] = "free" /\ chan[nextSub] = <<>>
      BY <1>b, <1>13 DEF AttachSubscribe, Inv, TypeInv, TypeOK, Subs, Registry, Fresh, Views
    <3>2. Upcoming' = Upcoming /\ UNCHANGED <<chan, seen, rpc, cancel, link>>
      BY <1>13 DEF AttachSubscribe, procVars, Upcoming
    <3>3. CASE t = nextSub
      <4>1. Subscribes
        BY <1>0, <3>1, <3>3, <1>13 DEF AttachSubscribe, Receiving
      <4>2. t \in sinks' /\ owner'[t] = c /\ apc'[c] = "snapshot" /\ fwd'[t] = "attaching"
        BY <1>0, <3>3, <4>1, <1>13 DEF AttachSubscribe
      <4>3. ~Shown(t)' /\ chan'[t] = <<>> /\ Len(chan'[t]) = 0
        BY <1>a, <3>1, <3>2, <3>3, <4>2 DEF Shown, Running
      <4>. QED
        BY <4>2, <4>3 DEF Flow
    <3>4. CASE t # nextSub
      <4>1. /\ fwd'[t] = fwd[t] /\ owner'[t] = owner[t] /\ (t \in sinks' <=> t \in sinks)
            /\ fwd[t] = "attaching" => apc'[owner[t]] = apc[owner[t]]
        BY <1>0, <1>b, <3>4, <1>13 DEF AttachSubscribe, InAttach
      <4>2. Receiving(t) /\ (Fed(t)' <=> Fed(t)) /\ (Shown(t)' <=> Shown(t))
        BY <3>2, <4>1 DEF Receiving, Fed, Shown, Running
      <4>. QED
        BY <1>b, <3>2, <4>1, <4>2 DEF Flows, Flow
    <3>. QED
      BY <3>3, <3>4
  <2>5. Drained'
    BY <1>0, <1>b, <1>13 DEF Drained, ReaderAt, AttachSubscribe, Subscribes, ptyVars, procVars
  <2>. QED
    BY <2>1, <2>2, <2>3, <2>4, <2>5 DEF Stream
<1>14. ASSUME NEW c \in Conns, AttachSnapshot(c) PROVE Stream'
  <2>1. ReaderAt'
    BY <1>0, <1>b, <1>14 DEF ReaderAt, AttachSnapshot, ptyVars, procVars
  <2>2. InAttach'
    <3>1. /\ asub[c] \in Subs /\ fwd[asub[c]] = "attaching" /\ owner[asub[c]] = c
          /\ apc[c] = "snapshot" /\ UNCHANGED owner
      BY <1>14, <1>b DEF Inv, Registry, InHand, Owned, InAttach, AttachSnapshot
    <3>2. CASE tracked
      BY <1>0, <1>b, <3>1, <3>2, <1>14 DEF InAttach, AttachSnapshot
    <3>3. CASE ~tracked
      <4>1. /\ fwd' = [fwd EXCEPT ![asub[c]] = "dropped"]
            /\ asub' = [asub EXCEPT ![c] = NoEntry]
            /\ apc' = [apc EXCEPT ![c] = "replay_only"]
        BY <3>3, <1>14 DEF AttachSnapshot
      <4>2. ASSUME NEW t \in Subs, fwd'[t] = "attaching"
            PROVE  asub'[owner'[t]] = t /\ apc'[owner'[t]] \in {"snapshot", "replay"}
        BY <1>0, <1>b, <3>1, <4>1, <4>2 DEF InAttach
      <4>3. ASSUME NEW d \in Conns, apc'[d] \in {"snapshot", "replay"}
            PROVE  fwd'[asub'[d]] = "attaching"
        <5>1. d # c /\ asub[d] \in Subs /\ fwd[asub[d]] = "attaching" /\ owner[asub[d]] = d
          BY <1>0, <1>b, <4>1, <4>3 DEF Inv, Registry, InHand, Owned, InAttach
        <5>. QED
          BY <1>0, <3>1, <4>1, <5>1
      <4>. QED
        BY <4>2, <4>3 DEF InAttach
    <3>. QED
      BY <3>2, <3>3
  <2>3. Views'
    BY <1>0, <1>b, <1>14 DEF Views, ReaderAt, AttachSnapshot, ptyVars, procVars
  <2>4. Flows'
    <3> SUFFICES ASSUME NEW t \in Subs, Receiving(t)' PROVE Flow(t)'
      BY DEF Flows
    <3>1. asub[c] \in Subs /\ fwd[asub[c]] = "attaching" /\ owner[asub[c]] = c /\ apc[c] = "snapshot"
      BY <1>14, <1>b DEF Inv, Registry, InHand, Owned, InAttach, AttachSnapshot
    <3>2. Upcoming' = Upcoming /\ UNCHANGED <<sinks, rpc, cancel, link, owner>>
      BY <1>14 DEF AttachSnapshot, procVars, Upcoming
    <3>3. CASE t = asub[c]
      <4>1. /\ tracked /\ seen'[t] = ring /\ chan'[t] = chan[t] /\ fwd'[t] = fwd[t]
        BY <1>0, <3>1, <3>3, <1>14 DEF AttachSnapshot, Receiving
      <4>2. Flow(t) /\ (Fed(t)' <=> Fed(t))
        BY <1>b, <3>1, <3>2, <3>3 DEF Flows, Receiving, Fed
      <4>3. Upcoming <= ring + 1
        BY <1>0 DEF Upcoming
      <4>4. chan[t] # <<>> => chan[t][1] <= ring + 1
        <5>1. Upcoming \in Nat
          BY <1>0 DEF Upcoming
        <5>2. chan[t] # <<>> => chan[t][1] \in Nat /\ chan[t][1] < Upcoming
          BY <1>a, <4>2 DEF Flow
        <5>. QED
          BY <1>0, <4>3, <5>1, <5>2
      <4>. QED
        BY <1>0, <3>2, <4>1, <4>2, <4>3, <4>4 DEF Flow
    <3>4. CASE t # asub[c]
      <4>1. /\ chan'[t] = chan[t] /\ seen'[t] = seen[t] /\ fwd'[t] = fwd[t]
            /\ fwd[t] = "attaching" => owner[t] # c
        BY <1>0, <1>b, <3>1, <3>4, <1>14 DEF AttachSnapshot, InAttach
      <4>2. Receiving(t) /\ (Fed(t)' <=> Fed(t)) /\ (Shown(t)' <=> Shown(t))
        <5>1. fwd[t] = "attaching" => apc'[owner[t]] = apc[owner[t]]
          BY <1>0, <4>1, <1>14 DEF AttachSnapshot
        <5>. QED
          BY <3>2, <4>1, <5>1 DEF Receiving, Fed, Shown, Running
      <4>. QED
        BY <1>b, <3>2, <4>1, <4>2 DEF Flows, Flow
    <3>. QED
      BY <3>3, <3>4
  <2>5. Drained'
    BY <1>0, <1>b, <1>14 DEF Drained, ReaderAt, AttachSnapshot, ptyVars, procVars
  <2>. QED
    BY <2>1, <2>2, <2>3, <2>4, <2>5 DEF Stream
<1>15. ASSUME NEW c \in Conns, AttachReplay(c) PROVE Stream'
  <2>1. ReaderAt'
    BY <1>0, <1>b, <1>15 DEF ReaderAt, AttachReplay, ptyVars, procVars
  <2>2. InAttach'
    <3>1. /\ asub[c] \in Subs /\ fwd[asub[c]] = "attaching" /\ owner[asub[c]] = c
          /\ apc[c] = "replay" /\ UNCHANGED owner
      BY <1>15, <1>b DEF Inv, Registry, InHand, Owned, InAttach, AttachReplay
    <3>2. /\ fwd'[asub[c]] \in {"poll", "dropped"} /\ apc'[c] \in {"insert", "idle"}
          /\ \A t \in Subs : t # asub[c] => fwd'[t] = fwd[t]
          /\ \A d \in Conns : d # c => asub'[d] = asub[d] /\ apc'[d] = apc[d]
      BY <1>0, <3>1, <1>15 DEF AttachReplay
    <3>3. ASSUME NEW t \in Subs, fwd'[t] = "attaching"
          PROVE  asub'[owner'[t]] = t /\ apc'[owner'[t]] \in {"snapshot", "replay"}
      <4>1. t # asub[c] /\ fwd[t] = "attaching" /\ owner[t] \in Conns /\ owner'[t] = owner[t]
        BY <1>0, <3>1, <3>2, <3>3
      <4>2. asub[owner[t]] = t /\ owner[t] # c
        BY <1>b, <4>1 DEF InAttach
      <4>. QED
        BY <1>b, <3>2, <4>1, <4>2 DEF InAttach
    <3>4. ASSUME NEW d \in Conns, apc'[d] \in {"snapshot", "replay"}
          PROVE  fwd'[asub'[d]] = "attaching"
      <4>1. d # c /\ asub[d] \in Subs /\ fwd[asub[d]] = "attaching" /\ owner[asub[d]] = d
        BY <1>0, <1>b, <3>2, <3>4 DEF Inv, Registry, InHand, Owned, InAttach
      <4>. QED
        BY <3>1, <3>2, <4>1
    <3>. QED
      BY <3>3, <3>4 DEF InAttach
  <2>3. Views'
    BY <1>0, <1>b, <1>15 DEF Views, ReaderAt, AttachReplay, ptyVars, procVars
  <2>4. Flows'
    <3> SUFFICES ASSUME NEW t \in Subs, Receiving(t)' PROVE Flow(t)'
      BY DEF Flows
    <3>1. asub[c] \in Subs /\ fwd[asub[c]] = "attaching" /\ owner[asub[c]] = c /\ apc[c] = "replay"
      BY <1>15, <1>b DEF Inv, Registry, InHand, Owned, InAttach, AttachReplay
    <3>2. Upcoming' = Upcoming /\ UNCHANGED <<sinks, rpc, cancel, link, owner, seen>>
      BY <1>15 DEF AttachReplay, procVars, Upcoming
    <3>3. /\ chan'[t] = chan[t] /\ (t = asub[c] => link[c] = "up" /\ fwd'[t] = "poll")
          /\ t # asub[c] => fwd'[t] = fwd[t]
          /\ fwd[t] = "attaching" /\ t # asub[c] => owner[t] # c
      BY <1>0, <1>b, <3>1, <1>15 DEF AttachReplay, InAttach, Receiving
    <3>4. Receiving(t) /\ (Fed(t)' <=> Fed(t)) /\ (Shown(t)' <=> Shown(t))
      <4>1. CASE t = asub[c]
        BY <3>1, <3>2, <3>3, <4>1 DEF Receiving, Fed, Shown, Running
      <4>2. CASE t # asub[c]
        <5>1. fwd[t] = "attaching" => apc'[owner[t]] = apc[owner[t]]
          BY <1>0, <3>3, <4>2, <1>15 DEF AttachReplay
        <5>. QED
          BY <3>2, <3>3, <4>2, <5>1 DEF Receiving, Fed, Shown, Running
      <4>. QED
        BY <4>1, <4>2
    <3>. QED
      BY <1>b, <3>2, <3>3, <3>4 DEF Flows, Flow
  <2>5. Drained'
    BY <1>0, <1>b, <1>15 DEF Drained, ReaderAt, AttachReplay, ptyVars, procVars
  <2>. QED
    BY <2>1, <2>2, <2>3, <2>4, <2>5 DEF Stream
<1>16. ASSUME NEW c \in Conns, AttachReplayOnly(c) PROVE Stream'
  <2>1. ReaderAt'
    BY <1>0, <1>b, <1>16 DEF ReaderAt, AttachReplayOnly, ptyVars, procVars, subVars
  <2>2. InAttach'
    <3>1. UNCHANGED <<fwd, owner>> /\ apc[c] = "replay_only" /\ apc'[c] \in {"insert", "idle"}
      BY <1>0, <1>16 DEF AttachReplayOnly, subVars
    <3>2. \A d \in Conns : d # c => asub'[d] = asub[d] /\ apc'[d] = apc[d]
      BY <1>0, <1>16 DEF AttachReplayOnly
    <3>3. \A t \in Subs : fwd[t] = "attaching" => owner[t] \in Conns /\ owner[t] # c
      BY <1>0, <1>b, <3>1 DEF InAttach
    <3>4. ASSUME NEW t \in Subs, fwd'[t] = "attaching"
          PROVE  asub'[owner'[t]] = t /\ apc'[owner'[t]] \in {"snapshot", "replay"}
      BY <1>b, <3>1, <3>2, <3>3, <3>4 DEF InAttach
    <3>5. ASSUME NEW d \in Conns, apc'[d] \in {"snapshot", "replay"}
          PROVE  fwd'[asub'[d]] = "attaching"
      <4>1. d # c
        BY <3>1, <3>5
      <4>. QED
        BY <1>b, <3>1, <3>2, <3>5, <4>1 DEF InAttach
    <3>. QED
      BY <3>4, <3>5 DEF InAttach
  <2>3. Views'
    BY <1>0, <1>b, <1>16 DEF Views, ReaderAt, AttachReplayOnly, ptyVars, procVars, subVars
  <2>4. Flows'
    BY <1>0, <1>a, <1>b, <1>16 DEF Flows, ReaderAt, Flow, Receiving, Fed, Shown, Running,
       Upcoming, AttachReplayOnly, ptyVars, procVars, subVars
  <2>5. Drained'
    BY <1>0, <1>b, <1>16 DEF Drained, ReaderAt, AttachReplayOnly, ptyVars, procVars, subVars
  <2>. QED
    BY <2>1, <2>2, <2>3, <2>4, <2>5 DEF Stream
<1>17. ASSUME NEW c \in Conns, AttachInsert(c) PROVE Stream'
  <2>1. ReaderAt'
    BY <1>0, <1>b, <1>17 DEF ReaderAt, AttachInsert, Retire, Cancel, ptyVars, procVars
  <2>2. InAttach'
    BY <1>0, <1>b, <1>17 DEF Inv, Registry, InHand, Fresh, InAttach, Subs, AttachInsert,
       Retire, Cancel,
       ptyVars, procVars
  <2>3. Views'
    BY <1>0, <1>b, <1>17 DEF Views, ReaderAt, AttachInsert, Retire, Cancel, ptyVars, procVars
  <2>4. Flows'
    BY <1>0, <1>a, <1>b, <1>17 DEF Flows, ReaderAt, Flow, Receiving, Fed, Shown, Running,
       Upcoming, AttachInsert, Retire, Cancel, ptyVars, procVars
  <2>5. Drained'
    BY <1>0, <1>b, <1>17 DEF Drained, ReaderAt, AttachInsert, Retire, Cancel, ptyVars, procVars
  <2>. QED
    BY <2>1, <2>2, <2>3, <2>4, <2>5 DEF Stream
<1>18. ASSUME NEW c \in Conns, Detach(c) PROVE Stream'
  <2>1. ReaderAt'
    BY <1>0, <1>b, <1>18 DEF ReaderAt, Detach, Retire, Cancel, ptyVars, procVars
  <2>2. InAttach'
    BY <1>0, <1>b, <1>18 DEF Inv, Registry, InHand, Fresh, InAttach, Subs, Detach, Retire, Cancel,
       ptyVars, procVars
  <2>3. Views'
    BY <1>0, <1>b, <1>18 DEF Views, ReaderAt, Detach, Retire, Cancel, ptyVars, procVars
  <2>4. Flows'
    BY <1>0, <1>a, <1>b, <1>18 DEF Flows, ReaderAt, Flow, Receiving, Fed, Shown, Running,
       Upcoming, Detach, Retire, Cancel, ptyVars, procVars
  <2>5. Drained'
    BY <1>0, <1>b, <1>18 DEF Drained, ReaderAt, Detach, Retire, Cancel, ptyVars, procVars
  <2>. QED
    BY <2>1, <2>2, <2>3, <2>4, <2>5 DEF Stream
<1>19. ASSUME NEW c \in Conns, DetachAllForConn(c) PROVE Stream'
  <2>1. ReaderAt'
    BY <1>0, <1>b, <1>19 DEF ReaderAt, DetachAllForConn, Retire, Cancel, ptyVars, procVars
  <2>2. InAttach'
    BY <1>0, <1>b, <1>19 DEF Inv, Registry, InHand, Fresh, InAttach, Subs, DetachAllForConn,
       Retire, Cancel, ptyVars, procVars
  <2>3. Views'
    BY <1>0, <1>b, <1>19 DEF Views, ReaderAt, DetachAllForConn, Retire, Cancel, ptyVars, procVars
  <2>4. Flows'
    BY <1>0, <1>a, <1>b, <1>19 DEF Flows, ReaderAt, Flow, Receiving, Fed, Shown, Running,
       Upcoming, DetachAllForConn, Retire, Cancel, ptyVars, procVars
  <2>5. Drained'
    BY <1>0, <1>b, <1>19 DEF Drained, ReaderAt, DetachAllForConn, Retire, Cancel, ptyVars, procVars
  <2>. QED
    BY <2>1, <2>2, <2>3, <2>4, <2>5 DEF Stream
<1>20. ASSUME NEW c \in Conns, PushSinkOverflow(c) PROVE Stream'
  BY <1>0, <1>a, <1>b, <1>20 DEF Stream, ReaderAt, InAttach, Views, Flows, Drained, Flow,
     Receiving, Fed, Shown, Running, Upcoming, PushSinkOverflow, ptyVars, procVars, subVars
<1>21. ASSUME NEW s \in Subs, FwdTake(s) PROVE Stream'
  BY <1>0, <1>a, <1>b, <1>21 DEF Stream, ReaderAt, InAttach, Views, Flows, Drained, Flow,
     Receiving, Fed, Shown, Running, Upcoming, FwdTake, ptyVars, procVars, connVars
<1>22. ASSUME NEW s \in Subs, FwdReturn(s) PROVE Stream'
  <2>1. ReaderAt'
    BY <1>0, <1>b, <1>22 DEF ReaderAt, FwdReturn, ptyVars, procVars, connVars
  <2>2. InAttach'
    <3>1. /\ UNCHANGED <<asub, apc, owner>> /\ fwd[s] \in {"poll", "recv"}
          /\ fwd' = [fwd EXCEPT ![s] = "done"]
      BY <1>22 DEF FwdReturn, connVars
    <3>2. \A c \in Conns : apc[c] \in {"snapshot", "replay"} => asub[c] \in Subs
      BY DEF Inv, Registry, InHand
    <3>. QED
      BY <1>0, <1>b, <3>1, <3>2 DEF InAttach
  <2>3. Views'
    BY <1>0, <1>b, <1>22 DEF Views, ReaderAt, FwdReturn, ptyVars, procVars, connVars
  <2>4. Flows'
    BY <1>0, <1>a, <1>b, <1>22 DEF Flows, ReaderAt, Flow, Receiving, Fed, Shown, Running,
       Upcoming, FwdReturn, ptyVars, procVars, connVars
  <2>5. Drained'
    <3> SUFFICES ASSUME NEW t \in Subs, fwd'[t] = "done", ~cancel'[t], link'[owner'[t]] = "up"
                 PROVE  rpc' = "done" /\ seen'[t] = written'
      BY DEF Drained
    <3>1. UNCHANGED <<rpc, seen, written, ring, cancel, link, owner>>
      BY <1>22 DEF FwdReturn, ptyVars, procVars, connVars
    <3>2. CASE t # s
      BY <1>0, <1>b, <3>1, <3>2, <1>22 DEF Drained, FwdReturn
    <3>3. CASE t = s
      <4>0. fwd[s] = "recv" /\ chan[s] = <<>> /\ s \notin sinks /\ ~cancel[s] /\ link[owner[s]] = "up"
        BY <3>1, <3>3, <1>22 DEF FwdReturn, Takes
      <4>1. Flow(s) /\ chan[s] = <<>> /\ s \notin sinks /\ Fed(s) /\ Shown(s)
        BY <1>b, <4>0 DEF Flows, Receiving, Fed, Shown, Running
      <4>2. rpc = "done" /\ Upcoming <= seen[s] + 1
        BY <4>1 DEF Flow
      <4>3. ring = written /\ ring <= seen[s] /\ seen[s] <= written
        BY <1>0, <1>b, <4>2 DEF ReaderAt, Views, Upcoming
      <4>. QED
        BY <1>0, <3>1, <3>3, <4>2, <4>3
    <3>. QED
      BY <3>2, <3>3
  <2>. QED
    BY <2>1, <2>2, <2>3, <2>4, <2>5 DEF Stream
<1>23. ASSUME NEW s \in Subs, FwdSend(s) PROVE Stream'
  <2>1. ReaderAt'
    BY <1>0, <1>b, <1>23 DEF ReaderAt, FwdSend, ptyVars, procVars, connVars
  <2>2. InAttach'
    <3>1. UNCHANGED <<asub, apc, owner>> /\ fwd[s] = "send" /\ fwd' = [fwd EXCEPT ![s] = "poll"]
      BY <1>23 DEF FwdSend, connVars
    <3>2. \A c \in Conns : apc[c] \in {"snapshot", "replay"} => asub[c] \in Subs
      BY DEF Inv, Registry, InHand
    <3>. QED
      BY <1>0, <1>b, <3>1, <3>2 DEF InAttach
  <2>3. Views'
    <3>1. chan[s] \in Seq(Chunks) /\ chan[s] # <<>> /\ Flow(s)
      BY <1>0, <1>b, <1>23 DEF Inv, TypeInv, Control, Flows, Receiving, FwdSend
    <3>2. /\ Head(chan[s]) = chan[s][1] /\ Len(chan[s]) > 0 /\ chan[s][1] \in Nat
          /\ Head(chan[s]) < Upcoming
      BY <1>a, <3>1, TailAt DEF Flow

    <3>3. Head(chan[s]) <= written
      BY <1>0, <1>b, <3>2 DEF Upcoming, ReaderAt
    <3>4. /\ seen'[s] <= written /\ UNCHANGED written
          /\ \A t \in Subs : t # s => seen'[t] = seen[t] /\ chan'[t] = chan[t] /\ fwd'[t] = fwd[t]
          /\ fwd'[s] = "poll"
      BY <1>0, <1>b, <3>2, <3>3, <1>23 DEF Views, FwdSend, ptyVars
    <3>. QED
      BY <1>b, <3>4 DEF Views
  <2>4. Flows'
    <3>1. chan[s] \in Seq(Chunks) /\ chan[s] # <<>> /\ Flow(s)
      BY <1>0, <1>b, <1>23 DEF Inv, TypeInv, Control, Flows, Receiving, FwdSend
    <3>2. /\ Head(chan[s]) = chan[s][1] /\ Len(chan[s]) > 0 /\ chan[s][1] \in Nat
          /\ Head(chan[s]) < Upcoming
      BY <1>a, <3>1, TailAt DEF Flow

    <3>3. /\ Len(Tail(chan[s])) = Len(chan[s]) - 1
          /\ \A i \in 1..(Len(chan[s]) - 1) : Tail(chan[s])[i] = chan[s][i + 1]
          /\ Tail(chan[s]) \in Seq(Chunks)
      BY <3>1, TailAt, HeadTail
    <3>4. Tail(chan[s]) = <<>> <=> Len(chan[s]) = 1
      <4>1. Tail(chan[s]) = <<>> <=> Len(Tail(chan[s])) = 0
        BY <3>3, NotEmpty
      <4>. QED
        BY <1>a, <3>3, <4>1
    <3>5. /\ UNCHANGED <<sinks, rpc, ring, cancel, link, owner, apc>>
          /\ fwd[s] = "send" /\ link[owner[s]] = "up" /\ fwd' = [fwd EXCEPT ![s] = "poll"]
          /\ chan'[s] = Tail(chan[s])
          /\ seen'[s] \in Nat /\ seen'[s] >= chan[s][1] /\ seen'[s] >= seen[s]
          /\ \A t \in Subs : t # s => chan'[t] = chan[t] /\ seen'[t] = seen[t]
      BY <1>0, <3>2, <1>23 DEF FwdSend, procVars, connVars
    <3>6. Flow(s)'
      <4>1. Shown(s) /\ (Fed(s)' <=> Fed(s)) /\ Upcoming' = Upcoming
        BY <3>5 DEF Shown, Running, Fed, Upcoming
      <4>2. \A i \in 1..(Len(chan'[s]) - 1) : chan'[s][i + 1] = chan'[s][i] + 1
        BY <1>a, <3>1, <3>3, <3>5 DEF Flow
      <4>3. \A i \in 1..Len(chan'[s]) : chan'[s][i] < Upcoming
        BY <1>a, <3>1, <3>3, <3>5 DEF Flow
      <4>4. Fed(s) /\ chan'[s] # <<>> => chan'[s][Len(chan'[s])] = Upcoming - 1
        BY <1>a, <3>1, <3>3, <3>4, <3>5 DEF Flow
      <4>5. chan'[s] # <<>> => chan'[s][1] <= seen'[s] + 1
        BY <1>a, <3>1, <3>2, <3>3, <3>4, <3>5 DEF Flow
      <4>6. chan'[s] = <<>> /\ Fed(s) => Upcoming <= seen'[s] + 1
        <5>1. Upcoming \in Nat
          BY <1>0 DEF Upcoming
        <5>. QED
          <6> HAVE chan'[s] = <<>> /\ Fed(s)
          <6>1. Len(chan[s]) = 1
            BY <3>4, <3>5
          <6>2. chan[s][1] = Upcoming - 1
            BY <3>1, <6>1 DEF Flow
          <6>. QED
            BY <3>2, <3>5, <5>1, <6>2
      <4>. QED
        BY <3>1, <3>5, <4>1, <4>2, <4>3, <4>4, <4>5, <4>6 DEF Flow
    <3>7. ASSUME NEW t \in Subs, t # s, Receiving(t)' PROVE Flow(t)'
      <4>1. fwd'[t] = fwd[t]
        BY <1>0, <3>5, <3>7
      <4>. QED
        BY <1>b, <3>5, <3>7, <4>1 DEF Flows, Flow, Receiving, Fed, Shown, Running, Upcoming
    <3>. QED
      BY <3>6, <3>7 DEF Flows
  <2>5. Drained'
    BY <1>0, <1>b, <1>23 DEF Drained, ReaderAt, FwdSend, ptyVars, procVars, connVars
  <2>. QED
    BY <2>1, <2>2, <2>3, <2>4, <2>5 DEF Stream
<1>24. ASSUME NEW s \in Subs, FwdSendGone(s) PROVE Stream'
  <2>1. ReaderAt'
    BY <1>0, <1>b, <1>24 DEF ReaderAt, FwdSendGone, ptyVars, procVars, connVars
  <2>2. InAttach'
    BY <1>0, <1>b, <1>24 DEF Inv, Registry, InHand, Fresh, InAttach, Subs, FwdSendGone, ptyVars,
       procVars, connVars
  <2>3. Views'
    BY <1>0, <1>b, <1>24 DEF Views, ReaderAt, FwdSendGone, ptyVars, procVars, connVars
  <2>4. Flows'
    <3>1. /\ UNCHANGED <<sinks, rpc, ring, cancel, link, owner, apc, seen>>
          /\ fwd[s] = "send" /\ link[owner[s]] # "up"
          /\ \A t \in Subs : t # s => chan'[t] = chan[t] /\ fwd'[t] = fwd[t]
      BY <1>0, <1>24 DEF FwdSendGone, procVars, connVars
    <3>2. ASSUME Receiving(s)' PROVE Flow(s)'
      <4>1. chan'[s] = Tail(chan[s]) /\ chan[s] \in Seq(Chunks) /\ chan[s] # <<>> /\ Flow(s)
        BY <1>0, <1>b, <3>1, <3>2, <1>24 DEF FwdSendGone, Inv, TypeInv, Control, Flows, Receiving
      <4>2. /\ Len(chan[s]) > 0 /\ Len(Tail(chan[s])) = Len(chan[s]) - 1
            /\ \A i \in 1..(Len(chan[s]) - 1) : Tail(chan[s])[i] = chan[s][i + 1]
            /\ Tail(chan[s]) \in Seq(Chunks)
        BY <4>1, TailAt, HeadTail
      <4>3. Tail(chan[s]) = <<>> <=> Len(chan[s]) = 1
        <5>1. Tail(chan[s]) = <<>> <=> Len(Tail(chan[s])) = 0
          BY <4>2, NotEmpty
        <5>. QED
          BY <1>a, <4>2, <5>1
      <4>4. ~Shown(s)' /\ (Fed(s)' <=> Fed(s)) /\ Upcoming' = Upcoming
        BY <3>1 DEF Shown, Fed, Upcoming
      <4>5. \A i \in 1..(Len(chan'[s]) - 1) : chan'[s][i + 1] = chan'[s][i] + 1
        BY <1>a, <4>1, <4>2 DEF Flow
      <4>6. \A i \in 1..Len(chan'[s]) : chan'[s][i] < Upcoming
        BY <1>a, <4>1, <4>2 DEF Flow
      <4>7. Fed(s) /\ chan'[s] # <<>> => chan'[s][Len(chan'[s])] = Upcoming - 1
        BY <1>a, <4>1, <4>2, <4>3 DEF Flow
      <4>. QED
        BY <3>1, <4>1, <4>4, <4>5, <4>6, <4>7 DEF Flow
    <3>3. ASSUME NEW t \in Subs, t # s, Receiving(t)' PROVE Flow(t)'
      BY <1>b, <3>1, <3>3 DEF Flows, Flow, Receiving, Fed, Shown, Running, Upcoming
    <3>. QED
      BY <3>2, <3>3 DEF Flows
  <2>5. Drained'
    BY <1>0, <1>b, <1>24 DEF Drained, ReaderAt, FwdSendGone, ptyVars, procVars, connVars
  <2>. QED
    BY <2>1, <2>2, <2>3, <2>4, <2>5 DEF Stream
<1>25. ASSUME NEW s \in Subs, FwdPoll(s) PROVE Stream'
  BY <1>0, <1>a, <1>b, <1>25 DEF Stream, ReaderAt, InAttach, Views, Flows, Drained, Flow,
     Receiving, Fed, Shown, Running, Upcoming, FwdPoll, ptyVars, procVars, connVars
<1>26. ASSUME NEW s \in Subs, FwdTimeout(s) PROVE Stream'
  BY <1>0, <1>a, <1>b, <1>26 DEF Stream, ReaderAt, InAttach, Views, Flows, Drained, Flow,
     Receiving, Fed, Shown, Running, Upcoming, FwdTimeout, ptyVars, procVars, connVars
<1>27. CASE UNCHANGED vars
  BY <1>b, <1>27 DEF Stream, ReaderAt, InAttach, Views, Flows, Drained, Flow, Receiving, Fed,
     Shown, Running, Upcoming, vars
<1>. QED
  BY <1>1, <1>2, <1>3, <1>4, <1>5, <1>6, <1>7, <1>8, <1>9, <1>10, <1>11, <1>12, <1>13,
     <1>14, <1>15, <1>16, <1>17, <1>18, <1>19, <1>20, <1>21, <1>22, <1>23, <1>24, <1>25,
     <1>26, <1>27
  DEF Next, Reader, Waiter, AttachStep, Forwarder

\* The strengthening is an invariant: its parts are those of this module and of
\* AttachStream_proofs.
LEMMA InvHolds == Spec => []Inv
<1>1. Init => Inv
  <2>1. Init => EndOfStream
    BY DEF Init, EndOfStream
  <2>. QED
    BY <2>1, TypeInvInit, RegistryInit, StreamInit DEF Inv
<1>2. Inv /\ [Next]_vars => Inv'
  BY TypeInvStep, EndOfStreamStep, RegistryStep, StreamStep DEF Inv
<1>. QED
  BY <1>1, <1>2, PTL DEF Spec

\* An attached client is never shown a chunk without having been shown the one before: the
\* snapshot taken after the subscription covers what the channel does not, however many clients
\* attach and however far the reader has got in between.
THEOREM NoGapTheorem == Spec => []NoGap
<1>1. Inv => NoGap
  <2> SUFFICES ASSUME Inv, NEW s \in Subs, Running(s), chan[s] # <<>>, link[owner[s]] = "up"
               PROVE  /\ chan[s][1] <= seen[s] + 1
                      /\ \A i \in 1..(Len(chan[s]) - 1) : chan[s][i + 1] = chan[s][i] + 1
    BY DEF NoGap
  <2>1. Flow(s) /\ Shown(s)
    BY DEF Inv, Stream, Flows, Receiving, Running, Shown
  <2>. QED
    BY <2>1 DEF Flow
<1>. QED
  BY <1>1, InvHolds, PTL

\* A forwarder that ended although its client is there and has not detached has shown everything
\* that was written: nothing but the reader's final clear ends a stream.
THEOREM DrainTheorem == Spec => []GracefulDrain
<1>1. Inv => GracefulDrain
  BY DEF Inv, Stream, Drained, ReaderAt, GracefulDrain
<1>. QED
  BY <1>1, InvHolds, PTL
==============================================================================
