---------------------------- MODULE Terminals_proofs ----------------------------
(***************************************************************************)
(* What the window shows of a session and what it writes to it, for any    *)
(* number of attempts, writers, chunks and connections: an attached        *)
(* terminal is fed, and pastes do not mix.                                 *)
(***************************************************************************)
EXTENDS Terminals, SequenceTheorems, TLAPS

\* What an attempt was made for is the entry there is, or an earlier one.
Older ==
    \A a \in Attempts :
        try[a].obj <= entry.obj /\ (try[a].obj = entry.obj => try[a].gen <= entry.gen)

\* The daemon feeds the connection there is, or a reset is still to come.
Fed == up /\ owed = 0 => feeds = link

\* An acknowledgement counts only as long as that holds.
AckedIsCurrent ==
    \A a \in Attempts :
        try[a].st = "acked" /\ try[a].obj = entry.obj /\ try[a].gen = entry.gen => Fed

AttachInv == Older /\ AckedIsCurrent /\ AttachedIsCurrent

\* Until the core has heard of the child's end there is one lock.
OneLock ==
    /\ told => ~alive
    /\ ~told => \A w \in Writers :
         writer[w].st # "new" => writer[w].lock = locks /\ locks # 0

\* A lock has one holder.
Exclusive ==
    \A v, w \in Writers :
        /\ writer[v].st \in HoldsLock /\ writer[w].st \in HoldsLock
        /\ writer[v].lock = writer[w].lock
        => v = w

\* Of a writer that has not failed the wire holds what it waits for and nothing else.
OneAsked ==
    \A i \in DOMAIN wire : Unfailed(wire[i].by) =>
        /\ writer[wire[i].by].st = "asked" /\ writer[wire[i].by].next = wire[i].chunk
        /\ wire[i].on = link /\ up
        /\ \A j \in DOMAIN wire : wire[j].by = wire[i].by => j = i

\* What it has written comes before what it has yet to write.
Behind ==
    \A w \in Writers : Unfailed(w) => \A i \in Positions(w) :
        /\ writer[w].st \notin {"new", "waiting"}
        /\ writer[w].st # "done" => stdin[i].chunk < writer[w].next

\* While a writer holds the lock nobody has written after it.
LastAtIt ==
    \A w \in Writers : writer[w].st \in HoldsLock =>
        \A i \in Positions(w) : \A n \in DOMAIN stdin :
            n > i /\ Unfailed(stdin[n].by) => stdin[n].by = w

PasteInv == OneLock /\ Exclusive /\ OneAsked /\ Behind /\ LastAtIt /\ PastesDoNotMix

Requests == [by : Writers, chunk : Nat, on : Nat]
Bytes == [by : Writers, chunk : Nat]

----------------------------------------------------------------------------
\* What the daemon's handling of one request leaves on the wire.
LEMMA WithoutAt ==
    ASSUME NEW S, NEW q \in Seq(S), NEW i \in 1 .. Len(q)
    PROVE  \E r \in Seq(S) :
             /\ r = SubSeq(q, 1, i - 1) \o SubSeq(q, i + 1, Len(q))
             /\ Len(r) = Len(q) - 1
             /\ \A j \in 1 .. Len(q) - 1 : r[j] = IF j < i THEN q[j] ELSE q[j + 1]
<1>1. PICK a, b : a = SubSeq(q, 1, i - 1) /\ b = SubSeq(q, i + 1, Len(q))
  OBVIOUS
<1>2. a \in Seq(S) /\ Len(a) = i - 1 /\ \A j \in 1 .. Len(a) : a[j] = q[j]
  BY <1>1, SubSeqProperties
<1>3. b \in Seq(S) /\ Len(b) = Len(q) - i /\ \A j \in 1 .. Len(b) : b[j] = q[i + j]
  BY <1>1, SubSeqProperties
<1>4. PICK r : r = a \o b
  OBVIOUS
<1>5. /\ r \in Seq(S) /\ Len(r) = Len(a) + Len(b)
      /\ \A j \in 1 .. Len(a) + Len(b) : r[j] = IF j <= Len(a) THEN a[j] ELSE b[j - Len(a)]
  <2>1. a \in Seq(S) /\ b \in Seq(S)
    BY <1>2, <1>3
  <2>. QED
    BY <1>4, <2>1, ConcatProperties
<1>6. /\ i \in Nat /\ Len(q) \in Nat /\ i >= 1 /\ i <= Len(q)
      /\ Len(a) = i - 1 /\ Len(b) = Len(q) - i /\ Len(a) + Len(b) = Len(q) - 1
  BY <1>2, <1>3
<1>7. ASSUME NEW j \in 1 .. Len(q) - 1
      PROVE  r[j] = IF j < i THEN q[j] ELSE q[j + 1]
  <2>1. j \in 1 .. Len(a) + Len(b)
    BY <1>6
  <2>2. r[j] = IF j <= Len(a) THEN a[j] ELSE b[j - Len(a)]
    BY <1>5, <2>1
  <2>3. CASE j < i
    <3>1. j <= Len(a) /\ j \in 1 .. Len(a)
      BY <1>6, <2>3
    <3>. QED
      BY <1>2, <2>2, <2>3, <3>1
  <2>4. CASE ~ (j < i)
    <3>1. j - Len(a) \in 1 .. Len(b) /\ i + (j - Len(a)) = j + 1 /\ ~ (j <= Len(a))
      BY <1>6, <2>4
    <3>. QED
      BY <1>3, <2>2, <2>4, <3>1
  <2>. QED
    BY <2>3, <2>4
<1>. QED
  BY <1>1, <1>4, <1>5, <1>6, <1>7, Zenon

----------------------------------------------------------------------------
\* A queue of requests, or of bytes, stays one when the last or some others are cut off.
LEMMA PrefixOf ==
    ASSUME NEW S, NEW q \in Seq(S), NEW n \in 0 .. Len(q)
    PROVE  /\ SubSeq(q, 1, n) \in Seq(S) /\ Len(SubSeq(q, 1, n)) = n
           /\ \A j \in 1 .. n : SubSeq(q, 1, n)[j] = q[j]
  BY SubSeqProperties

\* Each record is of its kind at the start.
LEMMA TypeStart == ASSUME TerminalInit PROVE TerminalTypeOK
<1>1. try \in [Attempts -> Tries]
  BY DEF TerminalInit, Tries
<1>2. writer \in [Writers -> Writes]
  BY DEF TerminalInit, Writes
<1>3. entry \in Entries
  BY DEF TerminalInit, Entries
<1>4. wire \in Seq(Requests) /\ stdin \in Seq(Bytes)
  BY EmptySeq DEF TerminalInit
<1>. QED
  BY <1>1, <1>2, <1>3, <1>4 DEF TerminalInit, TerminalTypeOK, Requests, Bytes

\* No step of an attempt, nor of the manager, leaves the kinds.
LEMMA WindowTypes ==
    ASSUME TerminalTypeOK, WindowNext, UNCHANGED <<link, up, stdin_vars>>
    PROVE  TerminalTypeOK'
<1>. USE DEF TerminalTypeOK
<1>1. ASSUME NEW a \in Attempts, Attach(a) PROVE TerminalTypeOK'
  BY <1>1 DEF Attach, Entries, Tries, stdin_vars
<1>2. ASSUME NEW a \in Attempts, Resolved(a) \/ Rejected(a) PROVE TerminalTypeOK'
  <2>1. \A st \in {"attached", "detached"} : Settle(a, st) \in Entries
    BY DEF Settle, Entries
  <2>2. entry' \in Entries
    BY <1>2, <2>1 DEF Resolved, Rejected
  <2>3. [try[a] EXCEPT !.st = "over"] \in Tries
    BY DEF Tries
  <2>4. try' = [try EXCEPT ![a] = [try[a] EXCEPT !.st = "over"]]
    BY <1>2 DEF Resolved, Rejected
  <2>5. try' \in [Attempts -> Tries]
    BY <2>3, <2>4
  <2>. QED
    BY <1>2, <2>2, <2>5 DEF Resolved, Rejected, stdin_vars
<1>3. ASSUME NEW a \in Attempts, NEW from, NEW to \in {"queued", "asked", "acked", "failed", "refused"},
             Step(a, from, to)
      PROVE  try' \in [Attempts -> Tries]
  BY <1>3 DEF Step, Tries
<1>4. ASSUME NEW a \in Attempts, AttachSession(a) PROVE TerminalTypeOK'
  BY <1>3, <1>4 DEF AttachSession, stdin_vars
<1>5. ASSUME NEW a \in Attempts, Dispatch(a) \/ DaemonAttaches(a) \/ AttachFails(a)
      PROVE  TerminalTypeOK'
  BY <1>3, <1>5 DEF Dispatch, DaemonAttaches, AttachFails, stdin_vars
<1>6. ASSUME NEW a \in Attempts, RemoveAttachment(a) PROVE TerminalTypeOK'
  BY <1>3, <1>6 DEF RemoveAttachment, stdin_vars
<1>7. ASSUME Reconnected \/ Reopen PROVE TerminalTypeOK'
  <2>1. entry' \in Entries
    <3>1. [entry EXCEPT !.st = "detached", !.gen = @ + 1] \in Entries
      <4>1. entry.gen + 1 \in Nat
        BY DEF Entries
      <4>. QED
        BY <4>1, Zenon DEF Entries
    <3>2. [obj |-> 2, gen |-> 0, st |-> "detached"] \in Entries
      BY DEF Entries
    <3>. QED
      BY <1>7, <3>1, <3>2 DEF Reconnected, Reopen
  <2>2. owed' \in Nat
    BY <1>7 DEF Reconnected, Reopen
  <2>. QED
    BY <1>7, <2>1, <2>2 DEF Reconnected, Reopen, stdin_vars
<1>. QED
  BY <1>1, <1>2, <1>4, <1>5, <1>6, <1>7 DEF WindowNext

\* What the answer to a chunk makes of its writer.
LEMMA AckedType ==
    ASSUME TerminalTypeOK, NEW w \in Writers, NEW m
    PROVE  Acked(w, m) \in Writes
<1>1. writer[w] \in Writes
  BY DEF TerminalTypeOK
<1>2. [writer[w] EXCEPT !.st = "done"] \in Writes
  BY <1>1 DEF Writes
<1>3. [writer[w] EXCEPT !.st = "sending", !.next = @ + 1] \in Writes
  <2>1. writer[w].next + 1 \in Nat
    BY <1>1 DEF Writes
  <2>. QED
    BY <1>1, <2>1, Zenon DEF Writes
<1>. QED
  BY <1>1, <1>2, <1>3 DEF Acked

\* No step of a write, nor of the child, leaves the kinds.
LEMMA StdinTypes ==
    ASSUME TerminalTypeOK, StdinNext, UNCHANGED <<attach_vars, link, up>>
    PROVE  TerminalTypeOK'
<1>1. ASSUME writer' \in [Writers -> Writes], locks' \in Nat, made' \in Nat,
             alive' \in BOOLEAN, told' \in BOOLEAN, wire' \in Seq(Requests), stdin' \in Seq(Bytes)
      PROVE  TerminalTypeOK'
  BY <1>1 DEF TerminalTypeOK, attach_vars, Requests, Bytes
<1>2. /\ writer \in [Writers -> Writes] /\ locks \in Nat /\ made \in Nat
      /\ alive \in BOOLEAN /\ told \in BOOLEAN /\ wire \in Seq(Requests) /\ stdin \in Seq(Bytes)
      /\ link \in Nat
  BY DEF TerminalTypeOK, Requests, Bytes
<1>3. ASSUME NEW w \in Writers, WriteStdin(w) \/ Lock(w) \/ GiveUp(w) PROVE TerminalTypeOK'
  <2>1. writer' \in [Writers -> Writes]
    <3>1. CASE WriteStdin(w)
      <4>1. LockFor \in Nat
        BY <1>2 DEF LockFor
      <4>2. writer' = [writer EXCEPT ![w].st = "waiting", ![w].lock = LockFor]
        BY <3>1 DEF WriteStdin
      <4>. QED
        BY <1>2, <4>1, <4>2 DEF Writes
    <3>2. CASE Lock(w) \/ GiveUp(w)
      BY <1>2, <3>2 DEF Lock, GiveUp, Writes
    <3>. QED
      BY <1>3, <3>1, <3>2
  <2>2. locks' \in Nat /\ made' \in Nat
    BY <1>2, <1>3 DEF WriteStdin, LockFor, Lock, GiveUp
  <2>. QED
    BY <1>1, <1>2, <1>3, <2>1, <2>2 DEF WriteStdin, Lock, GiveUp
<1>4. ASSUME NEW w \in Writers, SendChunk(w) PROVE TerminalTypeOK'
  <2>1. writer' \in [Writers -> Writes]
    BY <1>2, <1>4 DEF SendChunk, Writes
  <2>2. [by |-> w, chunk |-> writer[w].next, on |-> link] \in Requests
    BY <1>2 DEF Writes, Requests
  <2>3. wire' \in Seq(Requests)
    <3>1. Append(wire, [by |-> w, chunk |-> writer[w].next, on |-> link]) \in Seq(Requests)
      BY <1>2, <2>2, AppendProperties
    <3>. QED
      BY <1>2, <1>4, <3>1 DEF SendChunk
  <2>. QED
    BY <1>1, <1>2, <1>4, <2>1, <2>3 DEF SendChunk
<1>5. ASSUME NEW i \in DOMAIN wire, DaemonWrites(i) PROVE TerminalTypeOK'
  <2>1. wire[i] \in Requests /\ i \in 1 .. Len(wire)
    BY <1>2
  <2>2. [by |-> wire[i].by, chunk |-> wire[i].chunk] \in Bytes
    BY <2>1 DEF Requests, Bytes
  <2>3. stdin' \in Seq(Bytes)
    BY <1>2, <1>5, <2>2, AppendProperties DEF DaemonWrites
  <2>4. wire' \in Seq(Requests)
    BY <1>2, <1>5, <2>1, WithoutAt DEF DaemonWrites
  <2>5. writer' \in [Writers -> Writes]
    BY <1>2, <1>5, <2>1, AckedType DEF DaemonWrites, Requests
  <2>. QED
    BY <1>1, <1>2, <1>5, <2>3, <2>4, <2>5 DEF DaemonWrites
<1>6. ASSUME ChildExits \/ Evict PROVE TerminalTypeOK'
  BY <1>6, 0 \in Nat DEF ChildExits, Evict, TerminalTypeOK, attach_vars
<1>. QED
  BY <1>3, <1>4, <1>5, <1>6 DEF StdinNext

\* Nor does a step of the connection.
LEMMA ConnTypes == ASSUME TerminalTypeOK, Drop \/ ConnectAgain PROVE TerminalTypeOK'
<1>1. CASE Drop
  <2>1. try' \in [Attempts -> Tries]
    BY <1>1 DEF Drop, TerminalTypeOK, Tries
  <2>2. writer' \in [Writers -> Writes]
    BY <1>1 DEF Drop, TerminalTypeOK, Writes
  <2>3. wire' \in Seq(Requests)
    <3>1. PICK n \in 0 .. Len(wire) : wire' = SubSeq(wire, 1, n)
      BY <1>1 DEF Drop
    <3>2. wire \in Seq(Requests)
      BY DEF TerminalTypeOK, Requests
    <3>. QED
      BY <3>1, <3>2, PrefixOf
  <2>. QED
    BY <1>1, <2>1, <2>2, <2>3 DEF Drop, TerminalTypeOK, Requests
<1>2. CASE ConnectAgain
  BY <1>2 DEF ConnectAgain, TerminalTypeOK, stdin_vars
<1>. QED
  BY <1>1, <1>2

\* Every step keeps the types.
LEMMA TypeStep ==
    ASSUME TerminalTypeOK, [TerminalNext]_terminal_vars PROVE TerminalTypeOK'
<1>1. CASE UNCHANGED terminal_vars
  BY <1>1 DEF terminal_vars, attach_vars, stdin_vars, TerminalTypeOK
<1>. QED
  BY <1>1, WindowTypes, StdinTypes, ConnTypes DEF TerminalNext

\* The window's entry and attempts, the core's channel and locks and what is on the wire are of
\* their kinds, however many attempts, writes, chunks and connections there are.
THEOREM TerminalTypeCorrect == TerminalSpec => []TerminalTypeOK
  BY TypeStart, TypeStep, PTL DEF TerminalSpec

----------------------------------------------------------------------------
\* A step of the manager or of an attempt keeps what an acknowledgement means.
LEMMA WindowAttach ==
    ASSUME TerminalTypeOK, AttachInv, WindowNext, UNCHANGED <<link, up, stdin_vars>>
    PROVE  AttachInv'
<1>. USE DEF TerminalTypeOK, Entries, Tries
<1>0. ASSUME NEW a \in Attempts, NEW from, NEW to, Step(a, from, to), to # "acked",
             UNCHANGED <<entry, feeds, owed, link, up>>
      PROVE  AttachInv'
  BY <1>0 DEF Step, AttachInv, Older, Fed, AckedIsCurrent, AttachedIsCurrent
<1>1. ASSUME NEW a \in Attempts, Attach(a) PROVE AttachInv'
  BY <1>1 DEF Attach, AttachInv, Older, Fed, AckedIsCurrent, AttachedIsCurrent
<1>2. ASSUME NEW a \in Attempts, Resolved(a) PROVE AttachInv'
  BY <1>2 DEF Resolved, Settle, Current, AttachInv, Older, Fed, AckedIsCurrent, AttachedIsCurrent
<1>3. ASSUME NEW a \in Attempts, Rejected(a) PROVE AttachInv'
  BY <1>3 DEF Rejected, Settle, AttachInv, Older, Fed, AckedIsCurrent, AttachedIsCurrent
<1>4. ASSUME NEW a \in Attempts,
             AttachSession(a) \/ Dispatch(a) \/ AttachFails(a) \/ RemoveAttachment(a)
      PROVE  AttachInv'
  BY <1>0, <1>4 DEF AttachSession, Dispatch, AttachFails, RemoveAttachment
<1>5. ASSUME NEW a \in Attempts, DaemonAttaches(a) PROVE AttachInv'
  <2>1. Fed' /\ UNCHANGED entry /\ feeds' = link
    BY <1>5 DEF DaemonAttaches, Fed
  <2>2. Older'
    <3>1. PICK to : try' = [try EXCEPT ![a].st = to] /\ UNCHANGED entry
      BY <1>5 DEF DaemonAttaches, Step
    <3>. QED
      BY <3>1 DEF AttachInv, Older
  <2>. QED
    BY <2>1, <2>2 DEF AttachInv, AckedIsCurrent, AttachedIsCurrent
<1>6. CASE Reconnected
  BY <1>6 DEF Reconnected, AttachInv, Older, Fed, AckedIsCurrent, AttachedIsCurrent
<1>7. CASE Reopen
  <2>1. \A a \in Attempts : try[a].obj \in {0, 1}
    BY <1>7 DEF Reopen, AttachInv, Older
  <2>2. entry'.obj = 2 /\ entry'.st = "detached" /\ try' = try
    BY <1>7 DEF Reopen
  <2>3. ASSUME NEW a \in Attempts PROVE try'[a].obj <= entry'.obj /\ try'[a].obj # entry'.obj
    <3>1. try'[a].obj = 0 \/ try'[a].obj = 1
      BY <2>1, <2>2
    <3>. QED
      BY <2>2, <3>1
  <2>. QED
    BY <2>2, <2>3 DEF AttachInv, Older, AckedIsCurrent, AttachedIsCurrent
<1>. QED
  BY <1>1, <1>2, <1>3, <1>4, <1>5, <1>6, <1>7 DEF WindowNext

\* Every step keeps the windows at the newest attach they know of.
LEMMA AttachStep ==
    ASSUME TerminalTypeOK, AttachInv, [TerminalNext]_terminal_vars PROVE AttachInv'
<1>1. CASE WindowNext /\ UNCHANGED <<link, up, stdin_vars>>
  BY <1>1, WindowAttach
<1>2. CASE UNCHANGED <<attach_vars, link, up>>
  BY <1>2 DEF attach_vars, AttachInv, Older, Fed, AckedIsCurrent, AttachedIsCurrent
<1>3. CASE Drop
  BY <1>3 DEF Drop, TerminalTypeOK, Tries, AttachInv, Older, Fed, AckedIsCurrent, AttachedIsCurrent
<1>4. CASE ConnectAgain
  BY <1>4 DEF ConnectAgain, TerminalTypeOK, AttachInv, Older, Fed, AckedIsCurrent, AttachedIsCurrent
<1>. QED
  BY <1>1, <1>2, <1>3, <1>4 DEF TerminalNext, terminal_vars

\* No window has attached at the start.
LEMMA AttachStart == ASSUME TerminalInit PROVE AttachInv
  BY DEF TerminalInit, AttachInv, Older, Fed, AckedIsCurrent, AttachedIsCurrent

\* terminal-manager.ts, attachGeneration: however attempts, reconnects, resets and closes
\* interleave, a terminal shown as attached is fed by the connection there is.
THEOREM AttachedTheorem == TerminalSpec => []AttachedIsCurrent
<1>1. TerminalSpec => [](TerminalTypeOK /\ AttachInv)
  BY TypeStart, AttachStart, TypeStep, AttachStep, PTL DEF TerminalSpec
<1>2. TerminalTypeOK /\ AttachInv => AttachedIsCurrent
  BY DEF AttachInv
<1>. QED
  BY <1>1, <1>2, PTL

----------------------------------------------------------------------------
\* What is on the wire is a request, what the child was given are bytes.
LEMMA WireAt == ASSUME TerminalTypeOK, NEW i \in DOMAIN wire
                PROVE  wire[i] \in Requests /\ i \in 1 .. Len(wire) /\ wire \in Seq(Requests)
<1>1. wire \in Seq(Requests)
  BY DEF TerminalTypeOK, Requests
<1>. QED
  BY <1>1

\* What a session has been fed is bytes.
LEMMA StdinAt == ASSUME TerminalTypeOK, NEW i \in DOMAIN stdin
                 PROVE  stdin[i] \in Bytes /\ i \in 1 .. Len(stdin) /\ stdin \in Seq(Bytes)
<1>1. stdin \in Seq(Bytes)
  BY DEF TerminalTypeOK, Bytes
<1>. QED
  BY <1>1

\* As long as the child gets nothing, failures only excuse more.
LEMMA StillApart ==
    ASSUME TerminalTypeOK, PasteInv, UNCHANGED stdin, \A w \in Writers : Unfailed(w)' => Unfailed(w)
    PROVE  PastesDoNotMix'
<1>1. \A w : Positions(w)' = Positions(w)
  BY DEF Positions
<1>2. SUFFICES ASSUME NEW w \in Writers, Unfailed(w)',
                      NEW i \in Positions(w), NEW j \in Positions(w), i < j
               PROVE  /\ stdin[i].chunk < stdin[j].chunk
                      /\ \A n \in i .. j : Unfailed(stdin[n].by)' => stdin[n].by = w
  BY <1>1 DEF PastesDoNotMix
<1>3. /\ stdin[i].chunk < stdin[j].chunk
      /\ \A n \in i .. j : Unfailed(stdin[n].by) => stdin[n].by = w
  BY <1>2 DEF PasteInv, PastesDoNotMix
<1>4. \A n \in i .. j : stdin[n].by \in Writers
  BY <1>2, StdinAt DEF Positions, Bytes
<1>. QED
  BY <1>3, <1>4

\* No step of a writer that the child gets nothing by disturbs what it was given.
LEMMA StdinKept ==
    ASSUME TerminalTypeOK, PasteInv, UNCHANGED stdin,
           \A w \in Writers :
             /\ Unfailed(w)' => Unfailed(w) /\ writer'[w].next = writer[w].next
             /\ Unfailed(w)' /\ Positions(w) # {} => writer'[w].st = writer[w].st
    PROVE  Behind' /\ LastAtIt' /\ PastesDoNotMix'
<1>1. \A w : Positions(w)' = Positions(w)
  BY DEF Positions
<1>2. \A i \in DOMAIN stdin : stdin[i].by \in Writers
  BY StdinAt DEF Bytes
<1>3. Behind'
  BY <1>1 DEF PasteInv, Behind
<1>4. ASSUME NEW w \in Writers, writer'[w].st \in HoldsLock, NEW i \in Positions(w)
      PROVE  writer[w].st \in HoldsLock
  BY <1>4 DEF HoldsLock, Unfailed
<1>5. LastAtIt'
  BY <1>1, <1>2, <1>4 DEF PasteInv, LastAtIt
<1>6. PastesDoNotMix'
  BY StillApart
<1>. QED
  BY <1>3, <1>5, <1>6

\* A writer that waits for the lock, or is not there yet, has given the child nothing.
LEMMA NothingYet ==
    ASSUME PasteInv, NEW w \in Writers, writer[w].st \in {"new", "waiting"}
    PROVE  Positions(w) = {} /\ Unfailed(w)
  BY DEF PasteInv, Behind, Unfailed

\* A writer queues for the lock of its session.
LEMMA PasteWrite ==
    ASSUME TerminalTypeOK, PasteInv, NEW w \in Writers, WriteStdin(w), UNCHANGED <<link, up>>
    PROVE  PasteInv'
<1>1. PICK k \in Nat : /\ k = LockFor /\ k # 0 /\ (locks # 0 => k = locks)
                       /\ locks' = k
                       /\ writer' = [writer EXCEPT ![w].st = "waiting", ![w].lock = k]
  <2>1. LockFor \in Nat /\ LockFor # 0 /\ (locks # 0 => LockFor = locks)
    BY DEF LockFor, TerminalTypeOK
  <2>. QED
    BY <2>1, Zenon DEF WriteStdin
<1>2. /\ writer[w].st = "new" /\ UNCHANGED <<alive, told, wire, stdin>>
      /\ writer'[w].st = "waiting" /\ writer'[w].lock = k /\ writer'[w].next = writer[w].next
      /\ \A v \in Writers : v # w => writer'[v] = writer[v]
  BY <1>1 DEF WriteStdin, TerminalTypeOK, Writes
<1>3. OneLock'
  BY <1>1, <1>2 DEF PasteInv, OneLock
<1>4. Exclusive'
  BY <1>2 DEF PasteInv, Exclusive, HoldsLock
<1>5. \A i \in DOMAIN wire : wire[i].by \in Writers
  BY WireAt DEF Requests
<1>6. \A i \in DOMAIN wire : wire[i].by # w
  BY <1>2 DEF PasteInv, OneAsked, Unfailed
<1>7. OneAsked'
  BY <1>2, <1>5, <1>6 DEF PasteInv, OneAsked, Unfailed
<1>8. Behind' /\ LastAtIt' /\ PastesDoNotMix'
  BY <1>2, StdinKept, NothingYet DEF Unfailed
<1>. QED
  BY <1>3, <1>4, <1>7, <1>8 DEF PasteInv

\* The lock is free, so nobody is in the middle of a paste.
LEMMA PasteLock ==
    ASSUME TerminalTypeOK, PasteInv, NEW w \in Writers, Lock(w), UNCHANGED <<link, up>>
    PROVE  PasteInv'
<1>2. /\ writer[w].st = "waiting" /\ UNCHANGED <<alive, told, locks, wire, stdin>>
      /\ writer'[w].st = "sending" /\ writer'[w].lock = writer[w].lock
      /\ writer'[w].next = writer[w].next
      /\ \A v \in Writers : v # w => writer'[v] = writer[v]
      /\ ~ Held(writer[w].lock)
  BY DEF Lock, TerminalTypeOK, Writes
<1>3. OneLock'
  BY <1>2 DEF PasteInv, OneLock
<1>4. Exclusive'
  BY <1>2 DEF PasteInv, Exclusive, HoldsLock, Held
<1>5. \A i \in DOMAIN wire : wire[i].by \in Writers
  BY WireAt DEF Requests
<1>6. \A i \in DOMAIN wire : wire[i].by # w
  BY <1>2 DEF PasteInv, OneAsked, Unfailed
<1>7. OneAsked'
  BY <1>2, <1>5, <1>6 DEF PasteInv, OneAsked, Unfailed
<1>8. Behind' /\ LastAtIt' /\ PastesDoNotMix'
  <2>1. \A v \in Writers :
          /\ Unfailed(v)' => Unfailed(v) /\ writer'[v].next = writer[v].next
          /\ Unfailed(v)' /\ Positions(v) # {} => writer'[v].st = writer[v].st
    BY <1>2, NothingYet DEF Unfailed
  <2>. QED
    BY <1>2, <2>1, StdinKept
<1>. QED
  BY <1>3, <1>4, <1>7, <1>8 DEF PasteInv

\* An error at one writer, or at several.
LEMMA PasteFails ==
    ASSUME TerminalTypeOK, PasteInv, NEW who \in SUBSET Writers,
           UNCHANGED <<alive, told, locks, stdin>>,
           \A w \in Writers :
             writer'[w] = IF w \in who THEN [writer[w] EXCEPT !.st = "failed"] ELSE writer[w],
           \A w \in who : writer[w].st # "new",
           OneAsked'
    PROVE  PasteInv'
<1>1. \A w \in Writers :
        /\ writer'[w].lock = writer[w].lock /\ writer'[w].next = writer[w].next
        /\ writer'[w].st = IF w \in who THEN "failed" ELSE writer[w].st
  BY DEF TerminalTypeOK, Writes
<1>2. OneLock'
  BY <1>1 DEF PasteInv, OneLock
<1>3. Exclusive'
  BY <1>1 DEF PasteInv, Exclusive, HoldsLock
<1>4. Behind' /\ LastAtIt' /\ PastesDoNotMix'
  <2>1. \A v \in Writers :
          /\ Unfailed(v)' => Unfailed(v) /\ writer'[v].next = writer[v].next
          /\ Unfailed(v)' /\ Positions(v) # {} => writer'[v].st = writer[v].st
    BY <1>1 DEF Unfailed
  <2>. QED
    BY <2>1, StdinKept
<1>. QED
  BY <1>2, <1>3, <1>4 DEF PasteInv

\* The holder sends its next chunk.
LEMMA PasteSend ==
    ASSUME TerminalTypeOK, PasteInv, NEW w \in Writers, SendChunk(w), up, UNCHANGED <<link, up>>
    PROVE  PasteInv'
<1>1. /\ writer[w].st = "sending" /\ UNCHANGED <<alive, told, locks, stdin>>
      /\ writer'[w].st = "asked" /\ writer'[w].lock = writer[w].lock
      /\ writer'[w].next = writer[w].next
      /\ \A v \in Writers : v # w => writer'[v] = writer[v]
  BY DEF SendChunk, TerminalTypeOK, Writes
<1>2. OneLock'
  BY <1>1 DEF PasteInv, OneLock
<1>3. Exclusive'
  BY <1>1 DEF PasteInv, Exclusive, HoldsLock
<1>4. PICK m \in Requests : /\ m = [by |-> w, chunk |-> writer[w].next, on |-> link]
                            /\ m.by = w /\ m.chunk = writer[w].next /\ m.on = link
                            /\ wire' = Append(wire, m)
  <2>1. [by |-> w, chunk |-> writer[w].next, on |-> link] \in Requests
    BY DEF TerminalTypeOK, Writes, Requests
  <2>. QED
    BY <2>1 DEF SendChunk
<1>5. /\ wire \in Seq(Requests) /\ Len(wire) \in Nat /\ DOMAIN wire = 1 .. Len(wire)
      /\ DOMAIN wire' = 1 .. Len(wire) + 1
      /\ wire'[Len(wire) + 1] = m /\ \A i \in 1 .. Len(wire) : wire'[i] = wire[i]
  BY <1>4, AppendProperties DEF TerminalTypeOK, Requests
<1>6. \A i \in DOMAIN wire : wire[i].by \in Writers /\ wire[i].by # w
  BY <1>1, WireAt DEF PasteInv, OneAsked, Unfailed, Requests
<1>7. OneAsked'
  <2>1. SUFFICES ASSUME NEW i \in DOMAIN wire', writer'[wire'[i].by].st # "failed"
                 PROVE  /\ writer'[wire'[i].by].st = "asked"
                        /\ writer'[wire'[i].by].next = wire'[i].chunk
                        /\ wire'[i].on = link' /\ up'
                        /\ \A j \in DOMAIN wire' : wire'[j].by = wire'[i].by => j = i
    BY DEF OneAsked, Unfailed
  <2>2. \A j \in DOMAIN wire' : j \in 1 .. Len(wire) \/ j = Len(wire) + 1
    BY <1>5
  <2>3. CASE i \in 1 .. Len(wire)
    <3>1. wire'[i] = wire[i] /\ wire[i].by # w /\ wire[i].by \in Writers
      BY <1>5, <1>6, <2>3
    <3>2. /\ writer[wire[i].by].st = "asked" /\ writer[wire[i].by].next = wire[i].chunk
          /\ wire[i].on = link /\ up
          /\ \A j \in DOMAIN wire : wire[j].by = wire[i].by => j = i
      BY <1>1, <1>5, <2>1, <2>3, <3>1 DEF PasteInv, OneAsked, Unfailed
    <3>. QED
      BY <1>1, <1>4, <1>5, <2>2, <3>1, <3>2
  <2>4. CASE i = Len(wire) + 1
    BY <1>1, <1>4, <1>5, <1>6, <2>2, <2>4
  <2>. QED
    BY <2>2, <2>3, <2>4
<1>8. Behind' /\ LastAtIt' /\ PastesDoNotMix'
  <2>1. Behind'
    BY <1>1 DEF PasteInv, Behind, Positions, Unfailed
  <2>2. LastAtIt'
    <3>1. \A n \in DOMAIN stdin : Unfailed(stdin[n].by)' => Unfailed(stdin[n].by)
      BY <1>1, StdinAt DEF Unfailed, Bytes
    <3>2. \A v \in Writers : writer'[v].st \in HoldsLock => writer[v].st \in HoldsLock
      BY <1>1 DEF HoldsLock
    <3>. QED
      BY <1>1, <3>1, <3>2 DEF PasteInv, LastAtIt, Positions
  <2>3. PastesDoNotMix'
    <3>1. \A v \in Writers : Unfailed(v)' => Unfailed(v)
      BY <1>1 DEF Unfailed
    <3>. QED
      BY <1>1, <3>1, StillApart
  <2>. QED
    BY <2>1, <2>2, <2>3
<1>. QED
  BY <1>2, <1>3, <1>7, <1>8 DEF PasteInv

\* What is left on the wire was there before, in other places at most.
LEMMA WireLeft ==
    ASSUME TerminalTypeOK, NEW i \in DOMAIN wire, DaemonWrites(i)
    PROVE  \A j \in DOMAIN wire' :
             \E k \in DOMAIN wire :
               /\ wire'[j] = wire[k] /\ k # i
               /\ k = IF j < i THEN j ELSE j + 1
<1>1. /\ wire \in Seq(Requests) /\ i \in 1 .. Len(wire) /\ i \in Nat /\ Len(wire) \in Nat
      /\ DOMAIN wire = 1 .. Len(wire)
  BY WireAt
<1>2. PICK r \in Seq(Requests) :
        /\ r = SubSeq(wire, 1, i - 1) \o SubSeq(wire, i + 1, Len(wire))
        /\ Len(r) = Len(wire) - 1
        /\ \A j \in 1 .. Len(wire) - 1 : r[j] = IF j < i THEN wire[j] ELSE wire[j + 1]
  BY <1>1, WithoutAt
<1>3. wire' = r
  BY <1>2 DEF DaemonWrites
<1>4. DOMAIN r = 1 .. Len(wire) - 1
  BY <1>2
<1>5. SUFFICES ASSUME NEW j \in 1 .. Len(wire) - 1
               PROVE  \E k \in 1 .. Len(wire) :
                        /\ r[j] = wire[k] /\ k # i
                        /\ k = IF j < i THEN j ELSE j + 1
  BY <1>1, <1>3, <1>4
<1>6. CASE j < i
  <2>1. j \in 1 .. Len(wire) /\ j # i /\ r[j] = wire[j]
    BY <1>1, <1>2, <1>6
  <2>. QED
    BY <1>6, <2>1
<1>7. CASE ~ (j < i)
  <2>1. j + 1 \in 1 .. Len(wire) /\ j + 1 # i /\ r[j] = wire[j + 1]
    BY <1>1, <1>2, <1>7
  <2>. QED
    BY <1>7, <2>1
<1>. QED
  BY <1>6, <1>7

\* The rest of the wire is as it was, for those whose state is as it was.
LEMMA RestAsked ==
    ASSUME TerminalTypeOK, PasteInv, NEW i \in DOMAIN wire, DaemonWrites(i), UNCHANGED <<link, up>>,
           \A k \in DOMAIN wire : k # i /\ writer'[wire[k].by].st # "failed" =>
               writer'[wire[k].by] = writer[wire[k].by]
    PROVE  OneAsked'
<1>1. SUFFICES ASSUME NEW j \in DOMAIN wire', writer'[wire'[j].by].st # "failed"
               PROVE  /\ writer'[wire'[j].by].st = "asked"
                      /\ writer'[wire'[j].by].next = wire'[j].chunk
                      /\ wire'[j].on = link' /\ up'
                      /\ \A n \in DOMAIN wire' : wire'[n].by = wire'[j].by => n = j
  BY DEF OneAsked, Unfailed
<1>2. PICK k \in DOMAIN wire : wire'[j] = wire[k] /\ k # i /\ k = IF j < i THEN j ELSE j + 1
  BY WireLeft
<1>3. writer'[wire[k].by] = writer[wire[k].by] /\ Unfailed(wire[k].by)
  BY <1>1, <1>2 DEF Unfailed
<1>4. /\ writer[wire[k].by].st = "asked" /\ writer[wire[k].by].next = wire[k].chunk
      /\ wire[k].on = link /\ up
      /\ \A n \in DOMAIN wire : wire[n].by = wire[k].by => n = k
  BY <1>3 DEF PasteInv, OneAsked
<1>5. ASSUME NEW n \in DOMAIN wire', wire'[n].by = wire'[j].by PROVE n = j
  <2>1. PICK l \in DOMAIN wire : wire'[n] = wire[l] /\ l = IF n < i THEN n ELSE n + 1
    BY WireLeft
  <2>2. l = k
    BY <1>2, <1>4, <1>5, <2>1
  <2>3. i \in Int /\ n \in Int /\ j \in Int
    <3>1. wire' \in Seq(Requests)
      BY <1>5, WithoutAt, WireAt DEF DaemonWrites
    <3>. QED
      BY <3>1, WireAt
  <2>. QED
    BY <1>2, <2>1, <2>2, <2>3
<1>. QED
  BY <1>2, <1>3, <1>4, <1>5

\* The child gets a chunk that a writer has failed to see written, or the daemon drops it.
LEMMA PasteLate ==
    ASSUME TerminalTypeOK, PasteInv, NEW i \in DOMAIN wire, DaemonWrites(i),
           ~ Unfailed(wire[i].by), UNCHANGED <<link, up>>
    PROVE  PasteInv'
<1>1. PICK m \in Requests : m = wire[i]
  BY WireAt
<1>2. m.by \in Writers /\ ~ Unfailed(m.by)
  BY <1>1 DEF Requests
<1>3. Acked(m.by, m) = writer[m.by]
  BY <1>2 DEF Acked, Unfailed
<1>4. writer' = writer
  BY <1>1, <1>2, <1>3 DEF DaemonWrites, TerminalTypeOK
<1>5. UNCHANGED <<alive, told, locks>>
  BY DEF DaemonWrites
<1>6. OneLock' /\ Exclusive'
  BY <1>4, <1>5 DEF PasteInv, OneLock, Exclusive
<1>7. OneAsked'
  BY <1>4, RestAsked
<1>8. /\ stdin \in Seq(Bytes) /\ Len(stdin) \in Nat /\ DOMAIN stdin = 1 .. Len(stdin)
  BY DEF TerminalTypeOK, Bytes
<1>9. CASE stdin' = stdin
  BY <1>4, <1>6, <1>7, <1>9, StdinKept DEF PasteInv, Unfailed
<1>10. CASE stdin' = Append(stdin, [by |-> m.by, chunk |-> m.chunk])
  <2>1. [by |-> m.by, chunk |-> m.chunk] \in Bytes
    BY DEF Requests, Bytes
  <2>2. /\ DOMAIN stdin' = 1 .. Len(stdin) + 1
        /\ stdin'[Len(stdin) + 1].by = m.by
        /\ \A n \in 1 .. Len(stdin) : stdin'[n] = stdin[n]
    BY <1>8, <1>10, <2>1, AppendProperties
  <2>3. \A n \in DOMAIN stdin' : n \in DOMAIN stdin \/ n = Len(stdin) + 1
    BY <1>8, <2>2
  <2>4. ASSUME NEW w \in Writers, Unfailed(w) PROVE Positions(w)' = Positions(w)
    BY <1>2, <1>8, <2>2, <2>3, <2>4 DEF Positions
  <2>5. \A n \in DOMAIN stdin' :
          writer'[stdin'[n].by].st # "failed" =>
            n \in DOMAIN stdin /\ stdin'[n] = stdin[n] /\ Unfailed(stdin[n].by)
    BY <1>2, <1>4, <1>8, <2>2, <2>3 DEF Unfailed
  <2>6. Behind'
    <3>1. ASSUME NEW w \in Writers, Unfailed(w)', NEW k \in Positions(w)'
          PROVE  /\ writer'[w].st \notin {"new", "waiting"}
                 /\ writer'[w].st # "done" => stdin'[k].chunk < writer'[w].next
      <4>1. Unfailed(w) /\ k \in Positions(w)
        BY <1>4, <2>4, <3>1 DEF Unfailed
      <4>2. stdin'[k] = stdin[k]
        BY <1>8, <2>2, <4>1 DEF Positions
      <4>. QED
        BY <1>4, <4>1, <4>2 DEF PasteInv, Behind
    <3>. QED
      BY <3>1 DEF Behind
  <2>7. LastAtIt'
    <3>1. ASSUME NEW w \in Writers, writer'[w].st \in HoldsLock, NEW k \in Positions(w)',
                 NEW n \in DOMAIN stdin', n > k, writer'[stdin'[n].by].st # "failed"
          PROVE  stdin'[n].by = w
      <4>1. k \in Positions(w) /\ writer[w].st \in HoldsLock
        BY <1>4, <2>4, <3>1 DEF Unfailed, HoldsLock
      <4>. QED
        BY <2>5, <3>1, <4>1 DEF PasteInv, LastAtIt
    <3>. QED
      BY <3>1 DEF LastAtIt, Unfailed
  <2>8. PastesDoNotMix'
    <3>1. ASSUME NEW w \in Writers, Unfailed(w)',
                 NEW k \in Positions(w)', NEW j \in Positions(w)', k < j
          PROVE  /\ stdin'[k].chunk < stdin'[j].chunk
                 /\ \A n \in k .. j : writer'[stdin'[n].by].st # "failed" => stdin'[n].by = w
      <4>1. Unfailed(w) /\ k \in Positions(w) /\ j \in Positions(w)
        BY <1>4, <2>4, <3>1 DEF Unfailed
      <4>2. \A n \in k .. j : n \in 1 .. Len(stdin)
        BY <1>8, <4>1 DEF Positions
      <4>3. \A n \in k .. j : stdin'[n] = stdin[n]
        BY <2>2, <4>2
      <4>4. stdin'[k] = stdin[k] /\ stdin'[j] = stdin[j]
        BY <1>8, <2>2, <4>1 DEF Positions
      <4>5. /\ stdin[k].chunk < stdin[j].chunk
            /\ \A n \in k .. j : Unfailed(stdin[n].by) => stdin[n].by = w
        BY <3>1, <4>1 DEF PasteInv, PastesDoNotMix
      <4>. QED
        BY <1>4, <4>3, <4>4, <4>5 DEF Unfailed
    <3>. QED
      BY <3>1 DEF PastesDoNotMix, Unfailed
  <2>. QED
    BY <1>6, <1>7, <2>6, <2>7, <2>8 DEF PasteInv
<1>. QED
  BY <1>1, <1>9, <1>10 DEF DaemonWrites

\* The daemon handles the chunk that a writer waits for: it is the next of that writer's, whom
\* nobody has written after while the child lived.
LEMMA PasteInTime ==
    ASSUME TerminalTypeOK, PasteInv, NEW i \in DOMAIN wire, DaemonWrites(i),
           Unfailed(wire[i].by), UNCHANGED <<link, up>>
    PROVE  PasteInv'
<1>1. PICK m \in Requests : m = wire[i]
  BY WireAt
<1>2. PICK v \in Writers : v = m.by
  BY DEF Requests
<1>3. /\ writer[v].st = "asked" /\ writer[v].next = m.chunk /\ m.on = link /\ up
      /\ \A j \in DOMAIN wire : wire[j].by = v => j = i
  BY <1>1, <1>2 DEF PasteInv, OneAsked
<1>4. writer[v] \in Writes /\ writer[v].next \in Nat /\ m.chunk \in Nat
  BY DEF TerminalTypeOK, Writes, Requests
<1>5. /\ writer'[v].lock = writer[v].lock
      /\ \/ writer'[v].st = "done"
         \/ writer'[v].st = "sending" /\ writer'[v].next = m.chunk + 1
  BY <1>1, <1>2, <1>3, <1>4 DEF DaemonWrites, Acked, TerminalTypeOK, Writes
<1>6. \A w \in Writers : w # v => writer'[w] = writer[w]
  BY <1>1, <1>2 DEF DaemonWrites, TerminalTypeOK
<1>7. UNCHANGED <<alive, told, locks>>
  BY DEF DaemonWrites
<1>8. OneLock'
  BY <1>3, <1>5, <1>6, <1>7 DEF PasteInv, OneLock
<1>9. \A w \in Writers : writer'[w].st \in HoldsLock => writer[w].st \in HoldsLock
  BY <1>3, <1>6 DEF HoldsLock
<1>10. \A w \in Writers : writer'[w].lock = writer[w].lock /\ (Unfailed(w)' <=> Unfailed(w))
  BY <1>3, <1>5, <1>6 DEF Unfailed
<1>11. Exclusive'
  BY <1>9, <1>10 DEF PasteInv, Exclusive
<1>12. OneAsked'
  <2>1. \A k \in DOMAIN wire : k # i => wire[k].by \in Writers /\ wire[k].by # v
    BY <1>3, WireAt DEF Requests
  <2>. QED
    BY <1>6, <2>1, RestAsked
<1>13. /\ stdin \in Seq(Bytes) /\ Len(stdin) \in Nat /\ DOMAIN stdin = 1 .. Len(stdin)
       /\ \A n \in DOMAIN stdin : stdin[n].by \in Writers /\ stdin[n].chunk \in Nat
  BY StdinAt DEF TerminalTypeOK, Bytes
<1>14. CASE ~ alive
  <2>1. stdin' = stdin
    BY <1>14 DEF DaemonWrites
  <2>2. Behind'
    <3>1. ASSUME NEW w \in Writers, Unfailed(w)', NEW k \in Positions(w)
          PROVE  /\ writer'[w].st \notin {"new", "waiting"}
                 /\ writer'[w].st # "done" => stdin[k].chunk < writer'[w].next
      <4>1. /\ writer[w].st \notin {"new", "waiting"}
            /\ writer[w].st # "done" => stdin[k].chunk < writer[w].next
        BY <1>10, <3>1 DEF PasteInv, Behind
      <4>2. k \in DOMAIN stdin /\ stdin[k].chunk \in Nat
        BY <1>13 DEF Positions
      <4>3. CASE w = v
        BY <1>3, <1>4, <1>5, <4>1, <4>2, <4>3
      <4>. QED
        BY <1>6, <4>1, <4>3
    <3>. QED
      BY <2>1, <3>1 DEF Behind, Positions
  <2>3. LastAtIt'
    BY <1>9, <1>10, <1>13, <2>1 DEF PasteInv, LastAtIt, Positions
  <2>4. PastesDoNotMix'
    BY <1>10, <2>1, StillApart
  <2>. QED
    BY <1>8, <1>11, <1>12, <2>2, <2>3, <2>4 DEF PasteInv
<1>15. CASE alive
  <2>1. [by |-> m.by, chunk |-> m.chunk] \in Bytes
    BY DEF Requests, Bytes
  <2>2. stdin' = Append(stdin, [by |-> m.by, chunk |-> m.chunk])
    BY <1>1, <1>15 DEF DaemonWrites
  <2>3. /\ DOMAIN stdin' = 1 .. Len(stdin) + 1
        /\ stdin'[Len(stdin) + 1].by = v /\ stdin'[Len(stdin) + 1].chunk = m.chunk
        /\ \A n \in DOMAIN stdin : stdin'[n] = stdin[n]
    BY <1>2, <1>13, <2>1, <2>2, AppendProperties
  <2>4. \A n \in DOMAIN stdin' : n \in DOMAIN stdin \/ n = Len(stdin) + 1
    BY <1>13, <2>3
  <2>5. \A w \in Writers : writer[w].st \in HoldsLock => w = v
    <3>1. ~ told
      BY <1>15 DEF PasteInv, OneLock
    <3>2. \A w \in Writers : writer[w].st # "new" => writer[w].lock = locks
      BY <3>1 DEF PasteInv, OneLock
    <3>. QED
      BY <1>3, <3>2 DEF PasteInv, Exclusive, HoldsLock
  <2>6. ASSUME NEW w \in Writers, NEW k \in Positions(w)'
        PROVE  k \in Positions(w) \/ (w = v /\ k = Len(stdin) + 1)
    BY <2>3, <2>4 DEF Positions
  <2>7. \A k \in Positions(v) : stdin[k].chunk < m.chunk
    BY <1>3 DEF PasteInv, Behind, Unfailed
  <2>8. Behind'
    <3>1. ASSUME NEW w \in Writers, Unfailed(w)', NEW k \in Positions(w)'
          PROVE  /\ writer'[w].st \notin {"new", "waiting"}
                 /\ writer'[w].st # "done" => stdin'[k].chunk < writer'[w].next
      <4>1. CASE w # v
        <5>1. k \in Positions(w) /\ stdin'[k] = stdin[k] /\ writer'[w] = writer[w]
          BY <1>6, <2>3, <2>6, <3>1, <4>1 DEF Positions
        <5>. QED
          BY <1>10, <3>1, <5>1 DEF PasteInv, Behind
      <4>2. CASE w = v
        <5>1. CASE k \in Positions(v)
          <6>1. /\ stdin'[k] = stdin[k] /\ stdin[k].chunk < m.chunk
                /\ stdin[k].chunk \in Nat
            BY <1>13, <2>3, <2>7, <5>1 DEF Positions
          <6>2. stdin[k].chunk < m.chunk + 1
            BY <1>4, <6>1
          <6>. QED
            BY <1>5, <4>2, <6>1, <6>2
        <5>2. CASE k = Len(stdin) + 1
          <6>1. m.chunk < m.chunk + 1
            BY <1>4
          <6>. QED
            BY <1>5, <2>3, <4>2, <5>2, <6>1
        <5>. QED
          BY <2>6, <3>1, <4>2, <5>1, <5>2
      <4>. QED
        BY <4>1, <4>2
    <3>. QED
      BY <3>1 DEF Behind
  <2>9. LastAtIt'
    <3>1. ASSUME NEW w \in Writers, writer'[w].st \in HoldsLock, NEW k \in Positions(w)',
                 NEW n \in DOMAIN stdin', n > k, writer'[stdin'[n].by].st # "failed"
          PROVE  stdin'[n].by = w
      <4>1. w = v /\ writer[v].st \in HoldsLock
        BY <1>9, <2>5, <3>1
      <4>2. CASE n = Len(stdin) + 1
        BY <2>3, <4>1, <4>2
      <4>3. CASE n \in DOMAIN stdin
        <5>1. k \in Positions(v)
          BY <1>13, <2>6, <3>1, <4>1, <4>3
        <5>2. Unfailed(stdin[n].by) /\ stdin'[n] = stdin[n]
          BY <1>10, <1>13, <2>3, <3>1, <4>3 DEF Unfailed
        <5>. QED
          BY <3>1, <4>1, <4>3, <5>1, <5>2 DEF PasteInv, LastAtIt
      <4>. QED
        BY <2>4, <3>1, <4>2, <4>3
    <3>. QED
      BY <3>1 DEF LastAtIt, Unfailed
  <2>10. PastesDoNotMix'
    <3>1. ASSUME NEW w \in Writers, Unfailed(w)',
                 NEW k \in Positions(w)', NEW j \in Positions(w)', k < j
          PROVE  /\ stdin'[k].chunk < stdin'[j].chunk
                 /\ \A n \in k .. j : writer'[stdin'[n].by].st # "failed" => stdin'[n].by = w
      <4>1. Unfailed(w)
        BY <1>10, <3>1
      <4>2. k \in DOMAIN stdin' /\ j \in DOMAIN stdin'
        BY <3>1 DEF Positions
      <4>3. k \in Positions(w) /\ k \in DOMAIN stdin /\ stdin'[k] = stdin[k]
        BY <1>13, <2>3, <2>4, <2>6, <3>1, <4>2 DEF Positions
      <4>4. CASE j \in Positions(w)
        <5>1. j \in DOMAIN stdin /\ stdin'[j] = stdin[j]
          BY <2>3, <4>4 DEF Positions
        <5>2. \A n \in k .. j : n \in DOMAIN stdin /\ stdin'[n] = stdin[n]
          BY <1>13, <2>3, <4>3, <5>1
        <5>3. /\ stdin[k].chunk < stdin[j].chunk
              /\ \A n \in k .. j : Unfailed(stdin[n].by) => stdin[n].by = w
          BY <3>1, <4>1, <4>3, <4>4 DEF PasteInv, PastesDoNotMix
        <5>. QED
          BY <1>10, <1>13, <4>3, <5>1, <5>2, <5>3 DEF Unfailed
      <4>5. CASE w = v /\ j = Len(stdin) + 1
        <5>1. stdin'[k].chunk < stdin'[j].chunk
          BY <2>3, <2>7, <4>3, <4>5
        <5>2. ASSUME NEW n \in k .. j, writer'[stdin'[n].by].st # "failed"
              PROVE  stdin'[n].by = w
          <6>1. CASE n = j
            BY <2>3, <4>5, <6>1
          <6>2. CASE n = k
            BY <4>3, <6>2 DEF Positions
          <6>3. CASE n # j /\ n # k
            <7>1. n \in DOMAIN stdin /\ n > k
              BY <1>13, <4>3, <4>5, <5>2, <6>3
            <7>2. Unfailed(stdin[n].by) /\ stdin'[n] = stdin[n]
              BY <1>10, <1>13, <2>3, <5>2, <7>1 DEF Unfailed
            <7>3. writer[v].st \in HoldsLock
              BY <1>3 DEF HoldsLock
            <7>. QED
              BY <4>3, <4>5, <7>1, <7>2, <7>3 DEF PasteInv, LastAtIt
          <6>. QED
            BY <6>1, <6>2, <6>3
        <5>. QED
          BY <5>1, <5>2
      <4>. QED
        BY <2>6, <3>1, <4>4, <4>5
    <3>. QED
      BY <3>1 DEF PastesDoNotMix, Unfailed
  <2>. QED
    BY <1>8, <1>11, <1>12, <2>8, <2>9, <2>10 DEF PasteInv
<1>. QED
  BY <1>14, <1>15 DEF TerminalTypeOK

\* The connection goes: whoever waits for a reply fails, and what is left on the wire is theirs.
LEMMA PasteDrop == ASSUME TerminalTypeOK, PasteInv, Drop PROVE PasteInv'
<1>1. PICK who \in SUBSET Writers : who = {w \in Writers : writer[w].st = "asked"}
  OBVIOUS
<1>2. \A w \in Writers :
        writer'[w] = IF w \in who THEN [writer[w] EXCEPT !.st = "failed"] ELSE writer[w]
  BY <1>1 DEF Drop, TerminalTypeOK
<1>3. /\ \A w \in who : writer[w].st # "new"
      /\ \A w \in who : writer'[w].st = "failed"
      /\ UNCHANGED <<alive, told, locks, stdin>>
  BY <1>1, <1>2 DEF Drop, TerminalTypeOK, Writes
<1>4. OneAsked'
  <2>1. PICK n \in 0 .. Len(wire) : wire' = SubSeq(wire, 1, n)
    BY DEF Drop
  <2>2. wire \in Seq(Requests)
    BY DEF TerminalTypeOK, Requests
  <2>3. /\ Len(wire') = n /\ wire' \in Seq(Requests)
        /\ \A j \in 1 .. n : wire'[j] = wire[j]
    BY <2>1, <2>2, PrefixOf
  <2>4. \A j \in DOMAIN wire' : j \in DOMAIN wire /\ wire'[j] = wire[j]
    BY <2>2, <2>3
  <2>5. \A j \in DOMAIN wire : wire[j].by \in Writers
    BY WireAt DEF Requests
  <2>6. ASSUME NEW j \in DOMAIN wire PROVE writer'[wire[j].by].st = "failed"
    <3>1. CASE Unfailed(wire[j].by)
      BY <1>1, <1>3, <2>5, <3>1 DEF PasteInv, OneAsked
    <3>2. CASE writer[wire[j].by].st = "failed"
      BY <1>1, <1>2, <2>5, <3>2
    <3>. QED
      BY <3>1, <3>2 DEF Unfailed
  <2>. QED
    BY <2>4, <2>6 DEF OneAsked, Unfailed
<1>. QED
  BY <1>2, <1>3, <1>4, PasteFails

\* Every step keeps the pastes apart.
LEMMA PasteStep ==
    ASSUME TerminalTypeOK, PasteInv, [TerminalNext]_terminal_vars PROVE PasteInv'
<1>1. ASSUME UNCHANGED <<link, up, stdin_vars>> PROVE PasteInv'
  BY <1>1 DEF stdin_vars, PasteInv, OneLock, Exclusive, OneAsked, Behind, LastAtIt,
              PastesDoNotMix, Unfailed, Positions
<1>2. ASSUME NEW w \in Writers, SendChunk(w) \/ GiveUp(w), UNCHANGED <<link, up>> PROVE PasteInv'
  <2>1. CASE SendChunk(w) /\ up
    BY <1>2, <2>1, PasteSend
  <2>2. CASE (SendChunk(w) /\ ~ up) \/ GiveUp(w)
    <3>1. /\ writer[w].st \in {"sending", "asked"}
          /\ UNCHANGED <<alive, told, locks, stdin, wire>>
          /\ \A v \in Writers :
               writer'[v] = IF v \in {w} THEN [writer[v] EXCEPT !.st = "failed"] ELSE writer[v]
      BY <2>2 DEF SendChunk, GiveUp, TerminalTypeOK
    <3>2. \A v \in Writers : writer'[v].st # "failed" => writer'[v] = writer[v]
      BY <3>1 DEF TerminalTypeOK, Writes
    <3>3. OneAsked'
      <4>1. \A j \in DOMAIN wire : wire[j].by \in Writers
        BY WireAt DEF Requests
      <4>. QED
        BY <1>2, <3>1, <3>2, <4>1 DEF PasteInv, OneAsked, Unfailed
    <3>. QED
      BY <3>1, <3>3, PasteFails
  <2>. QED
    BY <1>2, <2>1, <2>2
<1>3. ASSUME NEW i \in DOMAIN wire, DaemonWrites(i), UNCHANGED <<link, up>> PROVE PasteInv'
  BY <1>3, PasteLate, PasteInTime
<1>4. ASSUME ChildExits \/ Evict, UNCHANGED <<link, up>> PROVE PasteInv'
  BY <1>4 DEF ChildExits, Evict, PasteInv, OneLock, Exclusive, OneAsked, Behind, LastAtIt,
              PastesDoNotMix, Unfailed, Positions
<1>5. CASE ConnectAgain
  <2>1. \A i \in DOMAIN wire : ~ Unfailed(wire[i].by)
    BY <1>5 DEF ConnectAgain, PasteInv, OneAsked
  <2>. QED
    BY <1>5, <2>1 DEF ConnectAgain, stdin_vars, PasteInv, OneLock, Exclusive, OneAsked, Behind,
              LastAtIt, PastesDoNotMix, Unfailed, Positions
<1>6. CASE UNCHANGED terminal_vars
  BY <1>1, <1>6 DEF terminal_vars
<1>. QED
  BY <1>1, <1>2, <1>3, <1>4, <1>5, <1>6, PasteWrite, PasteLock, PasteDrop
  DEF TerminalNext, StdinNext

\* Nobody writes at the start.
LEMMA PasteStart == ASSUME TerminalInit PROVE PasteInv
<1>1. DOMAIN wire = {} /\ DOMAIN stdin = {}
  BY DEF TerminalInit
<1>. QED
  BY <1>1 DEF TerminalInit, PasteInv, OneLock, Exclusive, OneAsked, Behind, LastAtIt,
              PastesDoNotMix, Unfailed, Positions, HoldsLock

\* WriteStdinLocks: over reconnects, timeouts of other writers and the lock's eviction, the
\* chunks of a write reach the child in order and none of another write among them.
THEOREM PastesTheorem == TerminalSpec => []PastesDoNotMix
<1>1. TerminalSpec => [](TerminalTypeOK /\ PasteInv)
  BY TypeStart, PasteStart, TypeStep, PasteStep, PTL DEF TerminalSpec
<1>2. TerminalTypeOK /\ PasteInv => PastesDoNotMix
  BY DEF PasteInv
<1>. QED
  BY <1>1, <1>2, PTL

=============================================================================
