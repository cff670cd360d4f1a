--------------------------- MODULE ClientLink_proofs ---------------------------
(***************************************************************************)
(* For any number of requests, connections and pushes, and queues of any   *)
(* length: ClientLink implements RequestLink, leaves nobody waiting who    *)
(* cannot be answered, and escalates at boot.  The constants are as        *)
(* LinkAssumption says.                                                    *)
(***************************************************************************)
EXTENDS ClientLink, FiniteSetTheorems, TLAPS

Elems(s) == {s[i] : i \in 1..Len(s)}

\* The requests that were put into the channel, and those of them that left it.
Sent == {r \in Reqs : caller[r] \in {"wait", "ok", "failed"}}
Left == Sent \ Elems(cmdq)

\* An id has been given to no more requests than have left the channel.
Counted == nextId - 1 <= Cardinality(Left)

\* A request is in the channel once, and only if it was put there.
Queued ==
  /\ \A i, j \in 1..Len(cmdq) : cmdq[i] = cmdq[j] => i = j
  /\ \A r \in Elems(cmdq) : caller[r] \in {"wait", "failed"}

\* What is in flight left the channel under an id that was given.
Known == \A i \in Ids : pending[i] # NoReq => pending[i] \in Left /\ i < nextId

\* The suspects of the streak that goes on, and of the boot before anybody refused.
Suspected ==
  /\ task \notin {"fatal", "gone"} => suspects < SuspectCap
  /\ task = "boot" /\ ~refused => tries = suspects

\* A frame is being written in write_all, and only there.
Writes == task = "write" <=> writing # NoFrame

TypeInv == LinkTypeOK /\ Writes /\ Counted /\ Queued /\ Known /\ Suspected

-----------------------------------------------------------------------------
(* Sequences and counting *)

LEMMA AppendElems ==
  ASSUME NEW S, NEW s \in Seq(S), NEW x \in S
  PROVE  /\ Append(s, x) \in Seq(S) /\ Len(Append(s, x)) = Len(s) + 1
         /\ \A i \in 1..Len(s) : Append(s, x)[i] = s[i]
         /\ Append(s, x)[Len(s) + 1] = x
         /\ Elems(Append(s, x)) = Elems(s) \cup {x}
<1>1. /\ Append(s, x) \in Seq(S) /\ Len(Append(s, x)) = Len(s) + 1
      /\ \A i \in 1..Len(s) : Append(s, x)[i] = s[i]
      /\ Append(s, x)[Len(s) + 1] = x
  OBVIOUS
<1>2. Elems(Append(s, x)) = Elems(s) \cup {x}
  <2>1. Len(s) \in Nat OBVIOUS
  <2>2. 1..(Len(s) + 1) = 1..Len(s) \cup {Len(s) + 1} BY <2>1
  <2> DEFINE t == Append(s, x)
  <2>3. Elems(t) = {t[i] : i \in 1..Len(s) \cup {Len(s) + 1}} BY <1>1, <2>2 DEF Elems
  <2> HIDE DEF t
  <2>4. \A i \in 1..Len(s) : t[i] = s[i] BY <1>1 DEF t
  <2>5. t[Len(s) + 1] = x BY <1>1 DEF t
  <2> QED BY <2>3, <2>4, <2>5 DEF Elems, t
<1> QED BY <1>1, <1>2

LEMMA TailElems ==
  ASSUME NEW S, NEW s \in Seq(S), s # <<>>
  PROVE  /\ Head(s) \in S /\ Tail(s) \in Seq(S) /\ Len(Tail(s)) = Len(s) - 1 /\ Len(s) >= 1
         /\ Head(s) = s[1]
         /\ \A i \in 1..Len(Tail(s)) : Tail(s)[i] = s[i + 1]
         /\ Elems(s) = {Head(s)} \cup Elems(Tail(s))
<1>1. /\ Head(s) \in S /\ Tail(s) \in Seq(S) /\ Len(Tail(s)) = Len(s) - 1 /\ Len(s) >= 1
      /\ Head(s) = s[1]
      /\ \A i \in 1..Len(Tail(s)) : Tail(s)[i] = s[i + 1]
  OBVIOUS
<1> DEFINE t == Tail(s)
           n == Len(s)
<1>2. n \in Nat OBVIOUS
<1>3. ASSUME NEW x PROVE x \in Elems(s) <=> x = Head(s) \/ x \in Elems(t)
  <2>1. ASSUME NEW i \in 1..n PROVE s[i] = s[1] \/ s[i] \in Elems(t)
    <3>1. CASE i = 1 BY <3>1
    <3>2. CASE i # 1
      <4>1. i - 1 \in 1..Len(t) /\ t[i - 1] = s[i] BY <1>1, <1>2, <3>2
      <4> QED BY <4>1 DEF Elems
    <3> QED BY <3>1, <3>2
  <2>2. ASSUME NEW i \in 1..Len(t) PROVE t[i] \in Elems(s)
    <3>1. i + 1 \in 1..n /\ t[i] = s[i + 1] BY <1>1, <1>2
    <3> QED BY <3>1 DEF Elems
  <2>3. Head(s) \in Elems(s) BY <1>1, <1>2 DEF Elems
  <2>4. x \in Elems(t) => x \in Elems(s)
    <3> HIDE DEF t
    <3> QED BY <2>2 DEF Elems
  <2>5. x \in Elems(s) => x = Head(s) \/ x \in Elems(t)
    <3> HIDE DEF t
    <3> QED BY <1>1, <2>1 DEF Elems
  <2> QED BY <2>3, <2>4, <2>5
<1> QED BY <1>1, <1>3

LEMMA EmptyElems ==
  ASSUME NEW s, s = <<>> PROVE Elems(s) = {} BY DEF Elems

\* The requests that have left the channel are as many as the requests at most.
LEMMA CountLemma ==
  ASSUME LinkAssumption, NEW A \in SUBSET Reqs, NEW B \in SUBSET Reqs, A \subseteq B
  PROVE  /\ Cardinality(A) \in Nat /\ Cardinality(B) \in Nat
         /\ Cardinality(A) <= Cardinality(B)
         /\ Cardinality(B) <= Cardinality(Reqs) /\ Cardinality(Reqs) \in Nat
         /\ \A r \in B \ A : Cardinality(A) + 1 <= Cardinality(B)
<1>1. IsFiniteSet(Reqs) /\ IsFiniteSet(A) /\ IsFiniteSet(B) BY FS_Subset DEF LinkAssumption
<1>2. \A S : IsFiniteSet(S) => Cardinality(S) \in Nat BY FS_CardinalityType
<1>3. Cardinality(A) <= Cardinality(B) /\ Cardinality(B) <= Cardinality(Reqs)
  BY <1>1, FS_Subset
<1>4. ASSUME NEW r \in B \ A PROVE Cardinality(A) + 1 <= Cardinality(B)
  <2>1. IsFiniteSet(A \cup {r}) /\ Cardinality(A \cup {r}) = Cardinality(A) + 1
    BY <1>1, FS_AddElement
  <2>2. A \cup {r} \subseteq B OBVIOUS
  <2>3. Cardinality(A \cup {r}) <= Cardinality(B) BY <1>1, <2>2, FS_Subset
  <2> QED BY <2>1, <2>3
<1> QED BY <1>1, <1>2, <1>3, <1>4

\* The callers and the channel are as they were, or more has left the channel.
LEMMA CountedSame ==
  ASSUME LinkAssumption, LinkTypeOK, Counted, nextId' = nextId, Left \subseteq Left'
  PROVE  Counted'
<1>1. \A A, B \in SUBSET Reqs : A \subseteq B =>
        Cardinality(A) \in Nat /\ Cardinality(B) \in Nat /\ Cardinality(A) <= Cardinality(B)
  BY CountLemma
<1>2. Left \in SUBSET Reqs /\ Left' \in SUBSET Reqs BY DEF Left, Sent
<1>3. /\ Cardinality(Left) \in Nat /\ Cardinality(Left') \in Nat
      /\ Cardinality(Left) <= Cardinality(Left')
  BY <1>1, <1>2
<1>4. Cardinality(Left)' = Cardinality(Left') OBVIOUS
<1>5. nextId \in Int BY DEF LinkTypeOK
<1> QED BY <1>3, <1>4, <1>5 DEF Counted

-----------------------------------------------------------------------------
(* Types, a part of the state at a time *)

TaskPart ==
  /\ task \in Tasks /\ tries \in Nat /\ suspects \in 0..SuspectCap /\ refused \in BOOLEAN
  /\ live \in BOOLEAN /\ state \in {"none", "Connected", "Disconnected", "Incompatible"}
CallPart ==
  /\ caller \in [Reqs -> {"new", "send", "wait", "ok", "failed", "refused"}]
  /\ via \in [Reqs -> 0..MaxConns] /\ answer \in [Reqs -> Reqs \cup {NoReq}]
LinkPart ==
  /\ cmdq \in Seq(Reqs) /\ Len(cmdq) <= CmdCap
  /\ nextId \in 1..(Cardinality(Reqs) + 1) /\ pending \in [Ids -> Reqs \cup {NoReq}]
  /\ writing \in Frames \cup {NoFrame}
WirePart ==
  /\ conn \in 0..MaxConns
  /\ up \in Seq(Frames) /\ Len(up) <= SockCap
  /\ down \in Seq(Frames \cup {Push}) /\ Len(down) <= SockCap
PeerPart ==
  /\ peer \in {"none", "serve", "cleanup", "closed"} /\ busy \in Frames \cup {NoFrame}
  /\ outq \in Seq(Frames \cup {Push}) /\ Len(outq) <= OutCap
  /\ held \in Frames \cup {Push, NoFrame} /\ notified \in BOOLEAN
  /\ ran \in [Reqs -> Nat] /\ pushes \in 0..MaxPushes

LEMMA Parts ==
  /\ LinkTypeOK <=> TaskPart /\ CallPart /\ LinkPart /\ WirePart /\ PeerPart
  /\ LinkTypeOK' <=> TaskPart' /\ CallPart' /\ LinkPart' /\ WirePart' /\ PeerPart'
<1>1. LinkTypeOK <=> TaskPart /\ CallPart /\ LinkPart /\ WirePart /\ PeerPart
  BY Zenon DEF LinkTypeOK, TaskPart, CallPart, LinkPart, WirePart, PeerPart
<1>2. LinkTypeOK' <=> TaskPart' /\ CallPart' /\ LinkPart' /\ WirePart' /\ PeerPart'
  BY Zenon DEF LinkTypeOK, TaskPart, CallPart, LinkPart, WirePart, PeerPart
<1> QED BY <1>1, <1>2

LEMMA SameParts ==
  /\ CallPart /\ UNCHANGED callVars => CallPart'
  /\ LinkPart /\ UNCHANGED taskVars => LinkPart'
  /\ WirePart /\ UNCHANGED <<conn, up, down>> => WirePart'
  /\ PeerPart /\ UNCHANGED peerVars => PeerPart'
  /\ TaskPart /\ UNCHANGED <<task, dialVars, live, state>> => TaskPart'
<1>1. CallPart /\ UNCHANGED callVars => CallPart' BY DEF CallPart, callVars
<1>2. LinkPart /\ UNCHANGED taskVars => LinkPart' BY DEF LinkPart, taskVars
<1>3. WirePart /\ UNCHANGED <<conn, up, down>> => WirePart' BY DEF WirePart
<1>4. PeerPart /\ UNCHANGED peerVars => PeerPart' BY DEF PeerPart, peerVars
<1>5. TaskPart /\ UNCHANGED <<task, dialVars, live, state>> => TaskPart' BY DEF TaskPart, dialVars
<1> QED BY <1>1, <1>2, <1>3, <1>4, <1>5

FailedAll(who) == \A r \in Reqs : caller'[r] = IF r \in who /\ caller[r] = "wait" THEN "failed" ELSE caller[r]

LEMMA FailsLemma ==
  ASSUME CallPart, NEW who, Fails(who), UNCHANGED <<via, answer>>
  PROVE  CallPart' /\ Sent' = Sent /\ FailedAll(who)
<1>1. CallPart' /\ FailedAll(who) BY DEF CallPart, Fails, FailedAll
<1>2. \A r \in Reqs : caller'[r] \in {"wait", "ok", "failed"} <=> caller[r] \in {"wait", "ok", "failed"}
  BY <1>1 DEF FailedAll, CallPart
<1> QED BY <1>1, <1>2 DEF Sent

LEMMA FrameTypes ==
  /\ \A i \in Ids, r \in Reqs : [id |-> i, of |-> r] \in Frames
  /\ NoFrame \notin Frames /\ Push \notin Frames /\ NoFrame.id = 0 /\ Push.id = 0
  /\ \A f \in Frames : f.id \in Ids /\ f.of \in Reqs /\ f.id # 0
BY DEF Frames, NoFrame, Push, Ids

\* A new connection starts empty.
LEMMA AcceptTypes ==
  ASSUME LinkAssumption, LinkTypeOK, Accept
  PROVE  WirePart' /\ PeerPart' /\ live' = TRUE
<1>1. WirePart /\ PeerPart BY Parts
<1>2. conn' \in 0..MaxConns BY <1>1 DEF Accept, WirePart, LinkAssumption
<1>3. <<>> \in Seq(Frames) /\ <<>> \in Seq(Frames \cup {Push}) /\ Len(<<>>) = 0 OBVIOUS
<1>4. 0 <= SockCap /\ 0 <= OutCap BY DEF LinkAssumption
<1>5. WirePart' BY <1>2, <1>3, <1>4 DEF Accept, WirePart
<1>6. PeerPart' BY <1>1, <1>3, <1>4 DEF Accept, PeerPart
<1> QED BY <1>5, <1>6 DEF Accept

LEMMA GiveUpTypes ==
  ASSUME LinkAssumption, LinkTypeOK, GiveUp, suspects' \in 0..SuspectCap
  PROVE  LinkTypeOK' /\ Sent' = Sent
<1>1. TaskPart /\ CallPart /\ LinkPart /\ WirePart /\ PeerPart BY Parts
<1>2. TaskPart' BY <1>1 DEF GiveUp, TaskPart, Tasks
<1>3. CallPart' /\ Sent' = Sent BY <1>1, FailsLemma DEF GiveUp
<1>4. <<>> \in Seq(Reqs) /\ Len(<<>>) = 0 /\ 0 <= CmdCap BY DEF LinkAssumption
<1>5. LinkPart' BY <1>1, <1>4 DEF GiveUp, LinkPart
<1>6. WirePart' /\ PeerPart' BY <1>1, SameParts DEF GiveUp
<1> QED BY <1>2, <1>3, <1>5, <1>6, Parts

\* The boot and the redials.
LEMMA BootTypes ==
  ASSUME LinkAssumption, LinkTypeOK, Suspected, Boot
  PROVE  LinkTypeOK' /\ Suspected' /\ UNCHANGED <<callVars, taskVars>>
<1>1. TaskPart /\ CallPart /\ LinkPart /\ WirePart /\ PeerPart BY Parts
<1>2. CASE BootAccept
  <2>1. TaskPart' /\ Suspected'
    BY <1>1, <1>2, AcceptTypes DEF BootAccept, TaskPart, Tasks, Suspected, dialVars
  <2>2. CallPart' /\ LinkPart' /\ WirePart' /\ PeerPart' /\ UNCHANGED <<callVars, taskVars>>
    BY <1>1, <1>2, AcceptTypes, SameParts DEF BootAccept
  <2> QED BY <2>1, <2>2, Parts
<1>3. ASSUME BootRefused \/ BootTransient \/ BootIncompatible
      PROVE  LinkTypeOK' /\ Suspected' /\ UNCHANGED <<callVars, taskVars>>
  <2>1. /\ UNCHANGED <<live, state, callVars, taskVars, conn, up, down, peerVars>>
        /\ task = "boot" /\ task' \in {"boot", "failed", "fatal"} /\ tries' = tries + 1
        /\ refused' \in {refused, TRUE} /\ suspects' \in {0, suspects, suspects + 1}
    BY <1>3 DEF BootRefused, BootTransient, BootIncompatible, BootTry, Suspect
  <2>2. suspects \in Nat /\ tries \in Nat /\ suspects < SuspectCap /\ SuspectCap \in Nat
    BY <1>1, <2>1 DEF TaskPart, Suspected, LinkAssumption
  <2>3. suspects' \in 0..SuspectCap /\ tries' \in Nat BY <2>1, <2>2
  <2>4. TaskPart' BY <1>1, <2>1, <2>3 DEF TaskPart, Tasks
  <2>5. Suspected'
    BY <1>3, <2>1, <2>2
       DEF BootRefused, BootTransient, BootIncompatible, BootTry, Suspect, Escalates, Suspected,
           LinkAssumption
  <2> QED BY <1>1, <2>1, <2>4, <2>5, SameParts, Parts
<1> QED BY <1>2, <1>3 DEF Boot

LEMMA DialTypes ==
  ASSUME LinkAssumption, LinkTypeOK, Suspected, DialAgain
  PROVE  /\ LinkTypeOK' /\ Suspected' /\ Sent' = Sent
         /\ GiveUp \/ UNCHANGED <<callVars, taskVars>>
<1>1. TaskPart /\ CallPart /\ LinkPart /\ WirePart /\ PeerPart BY Parts
<1>2. CASE DialAccept
  <2>1. TaskPart' /\ Suspected'
    BY <1>1, <1>2, AcceptTypes DEF DialAccept, TaskPart, Tasks, Suspected, dialVars
  <2>2. CallPart' /\ LinkPart' /\ WirePart' /\ PeerPart' /\ UNCHANGED <<callVars, taskVars>>
    BY <1>1, <1>2, AcceptTypes, SameParts DEF DialAccept
  <2> QED BY <2>1, <2>2, Parts DEF Sent, callVars
<1>3. ASSUME GiveUp, task = "dial", suspects' \in {suspects, suspects + 1}
      PROVE  LinkTypeOK' /\ Suspected' /\ Sent' = Sent
  <2>1. suspects' \in 0..SuspectCap BY <1>1, <1>3 DEF Suspected, TaskPart, LinkAssumption
  <2>2. LinkTypeOK' /\ Sent' = Sent BY <1>3, <2>1, GiveUpTypes
  <2> QED BY <1>3, <2>2 DEF GiveUp, Suspected
<1>4. ASSUME /\ UNCHANGED <<task, tries, refused, live, state, callVars, taskVars, conn, up, down,
                            peerVars>>
             /\ task = "dial"
             /\ suspects' = 0 \/ (suspects' = suspects + 1 /\ ~Escalates)
      PROVE  LinkTypeOK' /\ Suspected' /\ Sent' = Sent
  <2>1. suspects' \in 0..SuspectCap /\ suspects' < SuspectCap
    BY <1>1, <1>4 DEF Escalates, TaskPart, LinkAssumption
  <2>2. TaskPart' BY <1>1, <1>4, <2>1 DEF TaskPart
  <2>3. CallPart' /\ LinkPart' /\ WirePart' /\ PeerPart' BY <1>1, <1>4, SameParts
  <2> QED BY <1>4, <2>1, <2>2, <2>3, Parts DEF Suspected, Sent, callVars
<1>5. CASE DialIncompatible BY <1>5, <1>3 DEF DialIncompatible
<1>6. CASE DialRefused BY <1>6, <1>4 DEF DialRefused
<1>7. CASE DialTransient BY <1>7, <1>3, <1>4 DEF DialTransient, Suspect
<1> QED BY <1>2, <1>5, <1>6, <1>7 DEF DialAgain

\* The callers.
LEMMA CallTypes ==
  ASSUME LinkAssumption, LinkTypeOK, Suspected, NEW r \in Reqs, Gate(r) \/ Send(r) \/ Timeout(r)
  PROVE  LinkTypeOK' /\ Suspected'
<1>1. TaskPart /\ CallPart /\ LinkPart /\ WirePart /\ PeerPart BY Parts
<1>2. /\ UNCHANGED <<task, dialVars, live, state>> /\ UNCHANGED <<conn, up, down>>
      /\ UNCHANGED peerVars
  BY DEF Gate, Send, Timeout
<1>3. TaskPart' /\ WirePart' /\ PeerPart' /\ Suspected'
  BY <1>1, <1>2, SameParts DEF Suspected, dialVars
<1>4. CASE Gate(r)
  <2>1. CallPart' BY <1>1, <1>4 DEF Gate, CallPart, WirePart
  <2>2. LinkPart' BY <1>1, <1>4, SameParts DEF Gate
  <2> QED BY <1>3, <2>1, <2>2, Parts
<1>5. CASE Send(r)
  <2>1. cmdq' \in Seq(Reqs) /\ Len(cmdq') <= CmdCap
    <3>1. CASE UNCHANGED cmdq BY <1>1, <3>1 DEF LinkPart
    <3>2. CASE HasRoom /\ cmdq' = Append(cmdq, r)
      BY <1>1, <3>2, AppendElems DEF HasRoom, LinkPart, LinkAssumption
    <3> QED BY <1>5, <3>1, <3>2 DEF Send
  <2>2. LinkPart' BY <1>1, <1>5, <2>1 DEF Send, LinkPart
  <2>3. CallPart' BY <1>1, <1>5 DEF Send, CallPart
  <2> QED BY <1>3, <2>2, <2>3, Parts
<1>6. CASE Timeout(r)
  <2>1. CallPart' BY <1>1, <1>6, FailsLemma DEF Timeout
  <2>2. LinkPart' BY <1>1, <1>6, SameParts DEF Timeout
  <2> QED BY <1>3, <2>1, <2>2, Parts
<1> QED BY <1>4, <1>5, <1>6

\* There is an id left for the request at the head of the channel.
LEMMA IdLeft ==
  ASSUME LinkAssumption, LinkTypeOK, Counted, Queued, cmdq # <<>>
  PROVE  /\ nextId \in Ids /\ nextId + 1 \in 1..(Cardinality(Reqs) + 1)
         /\ Head(cmdq) \in Sent /\ Head(cmdq) \notin Elems(Tail(cmdq))
         /\ nextId <= Cardinality(Sent \ Elems(Tail(cmdq)))
<1> DEFINE t == Tail(cmdq)
           r == Head(cmdq)
<1>1. LinkPart BY Parts
<1>2. cmdq \in Seq(Reqs) BY <1>1 DEF LinkPart
<1>3. /\ r \in Reqs /\ t \in Seq(Reqs) /\ r = cmdq[1] /\ Len(t) = Len(cmdq) - 1 /\ Len(cmdq) >= 1
      /\ \A i \in 1..Len(t) : t[i] = cmdq[i + 1]
      /\ Elems(cmdq) = {r} \cup Elems(t)
  BY <1>2, TailElems
<1>4. Len(cmdq) \in Nat BY <1>2
<1>5. r \notin Elems(t)
  <2>1. SUFFICES ASSUME NEW i \in 1..Len(t), t[i] = r PROVE FALSE BY DEF Elems
  <2>2. i + 1 \in 1..Len(cmdq) /\ 1 \in 1..Len(cmdq) /\ i + 1 # 1 BY <1>3, <1>4
  <2>3. cmdq[i + 1] = cmdq[1] BY <1>3, <2>1
  <2> QED BY <2>2, <2>3 DEF Queued
<1>6. r \in Sent BY <1>3 DEF Queued, Sent
<1>7. Sent \ Elems(t) = (Sent \ Elems(cmdq)) \cup {r} BY <1>3, <1>5, <1>6
<1>8. Sent \ Elems(cmdq) \in SUBSET Reqs /\ Sent \ Elems(t) \in SUBSET Reqs BY DEF Sent
<1>9. r \in (Sent \ Elems(t)) \ (Sent \ Elems(cmdq)) BY <1>3, <1>5, <1>6
<1>10. /\ Cardinality(Sent \ Elems(cmdq)) \in Nat /\ Cardinality(Sent \ Elems(t)) \in Nat
       /\ Cardinality(Sent \ Elems(cmdq)) + 1 <= Cardinality(Sent \ Elems(t))
       /\ Cardinality(Sent \ Elems(t)) <= Cardinality(Reqs) /\ Cardinality(Reqs) \in Nat
  <2>1. \A A, B \in SUBSET Reqs : A \subseteq B =>
          /\ Cardinality(A) \in Nat /\ Cardinality(B) \in Nat
          /\ Cardinality(B) <= Cardinality(Reqs) /\ Cardinality(Reqs) \in Nat
          /\ \A x \in B \ A : Cardinality(A) + 1 <= Cardinality(B)
    BY CountLemma
  <2> HIDE DEF t, r
  <2> QED BY <1>7, <1>8, <1>9, <2>1
<1>11. nextId \in Nat /\ nextId >= 1 BY <1>1 DEF LinkPart
<1>12. nextId - 1 <= Cardinality(Sent \ Elems(cmdq)) BY DEF Counted, Left
<1>13. nextId <= Cardinality(Sent \ Elems(t)) BY <1>10, <1>11, <1>12
<1>14. nextId \in Ids /\ nextId + 1 \in 1..(Cardinality(Reqs) + 1) BY <1>10, <1>11, <1>13 DEF Ids
<1> QED BY <1>5, <1>6, <1>13, <1>14

LEMMA TakeTypes ==
  ASSUME LinkAssumption, LinkTypeOK, Suspected, Counted, Queued, Take
  PROVE  LinkTypeOK' /\ Suspected' /\ Counted' /\ Queued'
<1>1. TaskPart /\ CallPart /\ LinkPart /\ WirePart /\ PeerPart BY Parts
<1>2. cmdq # <<>> /\ cmdq \in Seq(Reqs) BY <1>1 DEF Take, LinkPart
<1>3. /\ Head(cmdq) \in Reqs /\ Tail(cmdq) \in Seq(Reqs) /\ Len(Tail(cmdq)) = Len(cmdq) - 1
      /\ \A i \in 1..Len(Tail(cmdq)) : Tail(cmdq)[i] = cmdq[i + 1]
      /\ Elems(cmdq) = {Head(cmdq)} \cup Elems(Tail(cmdq))
  BY <1>2, TailElems
<1>4. Len(cmdq) \in Nat /\ Len(cmdq) <= CmdCap /\ CmdCap \in Nat
  BY <1>1 DEF LinkPart, LinkAssumption
<1>5. CallPart' /\ Sent' = Sent /\ (FailedAll({Head(cmdq)}) \/ UNCHANGED caller)
  <2>1. CASE Fails({Head(cmdq)})
    BY <1>1, <2>1, FailsLemma DEF Take
  <2>2. CASE UNCHANGED caller
    BY <1>1, <2>2, SameParts DEF Take, callVars, Sent
  <2> QED BY <2>1, <2>2 DEF Take
<1>6. TaskPart' /\ Suspected' BY <1>1 DEF Take, TaskPart, Tasks, Suspected, dialVars
<1>7. WirePart' /\ PeerPart' BY <1>1, SameParts DEF Take
<1>8. /\ nextId \in Ids /\ nextId + 1 \in 1..(Cardinality(Reqs) + 1)
      /\ nextId <= Cardinality(Sent \ Elems(Tail(cmdq))) /\ Head(cmdq) \notin Elems(Tail(cmdq))
  BY <1>2, IdLeft
<1>9. LinkPart'
  <2>1. cmdq' \in Seq(Reqs) /\ Len(cmdq') <= CmdCap /\ nextId' \in 1..(Cardinality(Reqs) + 1)
    BY <1>3, <1>4, <1>8 DEF Take
  <2>2. pending' \in [Ids -> Reqs \cup {NoReq}]
    <3>1. pending \in [Ids -> Reqs \cup {NoReq}] BY <1>1 DEF LinkPart
    <3> QED BY <1>3, <3>1, <1>8 DEF Take, FreshId
  <2>3. writing' \in Frames \cup {NoFrame}
    BY <1>1, <1>3, <1>8, FrameTypes DEF Take, FreshId, LinkPart
  <2> QED BY <2>1, <2>2, <2>3 DEF LinkPart
<1>10. Counted'
  <2>1. cmdq' = Tail(cmdq) /\ nextId' = nextId + 1 BY DEF Take
  <2>2. nextId \in Int BY <1>1 DEF LinkPart
  <2>3. (Sent \ Elems(cmdq))' = Sent \ Elems(Tail(cmdq)) BY <1>5, <2>1 DEF Elems
  <2>4. nextId' - 1 = nextId BY <2>1, <2>2
  <2> QED BY <1>8, <2>3, <2>4 DEF Counted, Left
<1>11. Queued'
  <2>1. cmdq' = Tail(cmdq) BY DEF Take
  <2>2. \A i, j \in 1..Len(Tail(cmdq)) : Tail(cmdq)[i] = Tail(cmdq)[j] => i = j
    <3>1. SUFFICES ASSUME NEW i \in 1..Len(Tail(cmdq)), NEW j \in 1..Len(Tail(cmdq)),
                          Tail(cmdq)[i] = Tail(cmdq)[j]
                   PROVE  i = j
      OBVIOUS
    <3>2. i + 1 \in 1..Len(cmdq) /\ j + 1 \in 1..Len(cmdq) /\ i \in Int /\ j \in Int
      BY <1>3, <1>4
    <3>3. cmdq[i + 1] = cmdq[j + 1] BY <1>3, <3>1
    <3>4. i + 1 = j + 1 BY <3>2, <3>3 DEF Queued
    <3> QED BY <3>2, <3>4
  <2>3. \A r \in Elems(Tail(cmdq)) : caller[r] \in {"wait", "failed"} /\ r # Head(cmdq) /\ r \in Reqs
    <3>1. Elems(Tail(cmdq)) \subseteq Reqs BY <1>3 DEF Elems
    <3> QED BY <1>3, <1>8, <3>1 DEF Queued
  <2>4. \A r \in Elems(Tail(cmdq)) : caller'[r] = caller[r] BY <1>5, <2>3 DEF FailedAll
  <2>5. Elems(cmdq') = Elems(Tail(cmdq)) BY <2>1
  <2>6. \A r \in Elems(cmdq') : caller'[r] \in {"wait", "failed"} BY <2>3, <2>4, <2>5
  <2>7. \A i, j \in 1..Len(cmdq') : cmdq'[i] = cmdq'[j] => i = j BY <2>1, <2>2
  <2>8. Elems(cmdq)' = Elems(cmdq') BY DEF Elems
  <2> QED BY <2>6, <2>7, <2>8 DEF Queued
<1> QED BY <1>5, <1>6, <1>7, <1>9, <1>10, <1>11, Parts

\* The rest of run_connection, and the end of the client.
LEMMA ConnectionTypes ==
  ASSUME LinkAssumption, LinkTypeOK, Writes, Suspected,
         \/ Written \/ Read \/ Eof \/ NotLive \/ Drain \/ FireDisconnected \/ FireConnected
         \/ DropClient
  PROVE  LinkTypeOK' /\ Suspected' /\ Sent' = Sent /\ UNCHANGED <<cmdq, nextId>>
<1>1. TaskPart /\ CallPart /\ LinkPart /\ WirePart /\ PeerPart BY Parts
<1>2. CASE Written
  <2>1. TaskPart' /\ Suspected' BY <1>1, <1>2 DEF Written, TaskPart, Tasks, Suspected, dialVars
  <2>2. LinkPart' BY <1>1, <1>2 DEF Written, LinkPart
  <2>3. WirePart'
    <3>1. CASE UNCHANGED up BY <1>1, <1>2, <3>1 DEF Written, WirePart
    <3>2. CASE Len(up) < SockCap /\ up' = Append(up, writing)
      <4>1. writing \in Frames BY <1>1, <1>2 DEF Written, Writes, LinkPart
      <4>2. up' \in Seq(Frames) /\ Len(up') = Len(up) + 1
        BY <1>1, <3>2, <4>1, AppendElems DEF WirePart
      <4>3. Len(up) \in Nat /\ SockCap \in Nat BY <1>1 DEF WirePart, LinkAssumption
      <4>4. Len(up') <= SockCap BY <3>2, <4>2, <4>3
      <4> QED BY <1>1, <1>2, <4>2, <4>4 DEF Written, WirePart
    <3> QED BY <1>2, <3>1, <3>2 DEF Written
  <2>4. CallPart' /\ PeerPart' BY <1>1, <1>2, SameParts DEF Written
  <2> QED BY <1>2, <2>1, <2>2, <2>3, <2>4, Parts DEF Written, callVars, Sent
<1>3. CASE Read
  <2> DEFINE f == Head(down)
             r == IF f = Push THEN NoReq ELSE pending[f.id]
  <2>1. f \in Frames \cup {Push} /\ Tail(down) \in Seq(Frames \cup {Push})
        /\ Len(Tail(down)) = Len(down) - 1 /\ Len(down) >= 1
    BY <1>1, <1>3, TailElems DEF Read, WirePart
  <2>2. WirePart'
    <3>1. Len(down) <= SockCap /\ Len(down) \in Nat /\ SockCap \in Nat
      BY <1>1 DEF WirePart, LinkAssumption
    <3>2. Len(Tail(down)) <= SockCap BY <2>1, <3>1
    <3> QED BY <1>1, <1>3, <2>1, <3>2 DEF Read, WirePart
  <2>3. TaskPart' /\ PeerPart' /\ Suspected'
    BY <1>1, <1>3, SameParts DEF Read, Suspected, dialVars
  <2>4. CASE r = NoReq
    <3>1. UNCHANGED <<caller, answer, pending>> BY <1>3, <2>4 DEF Read
    <3>2. CallPart' /\ LinkPart'
      BY <1>1, <1>3, <3>1, SameParts DEF Read, callVars, taskVars
    <3> QED BY <1>3, <2>2, <2>3, <3>1, <3>2, Parts DEF Read, Sent
  <2>5. CASE r # NoReq
    <3>1. f \in Frames /\ f.id \in Ids /\ f.of \in Reqs /\ r = pending[f.id] /\ r \in Reqs
      BY <1>1, <2>1, <2>5, FrameTypes DEF LinkPart
    <3>2. /\ pending' = [pending EXCEPT ![f.id] = NoReq]
          /\ \/ caller[r] # "wait" /\ UNCHANGED <<caller, answer>>
             \/ /\ caller[r] = "wait" /\ caller' = [caller EXCEPT ![r] = "ok"]
                /\ answer' = [answer EXCEPT ![r] = f.of]
      BY <1>3, <2>5 DEF Read
    <3>3. pending' \in [Ids -> Reqs \cup {NoReq}] BY <1>1, <3>1, <3>2 DEF LinkPart
    <3>4. LinkPart' BY <1>1, <1>3, <3>3 DEF Read, LinkPart
    <3> HIDE DEF f, r
    <3>5. CallPart' BY <1>1, <1>3, <3>1, <3>2 DEF Read, CallPart
    <3>6. Sent' = Sent BY <1>1, <3>1, <3>2 DEF Sent, CallPart
    <3> QED BY <1>3, <2>2, <2>3, <3>4, <3>5, <3>6, Parts DEF Read
  <2> QED BY <2>4, <2>5
<1>4. CASE Drain
  <2>1. CallPart' /\ Sent' = Sent
    BY <1>1, <1>4, FailsLemma DEF Drain, DrainPending
  <2>2. LinkPart' BY <1>1, <1>4 DEF Drain, DrainPending, LinkPart
  <2>3. TaskPart' /\ Suspected'
    BY <1>1, <1>4 DEF Drain, TaskPart, Tasks, Suspected, dialVars
  <2>4. WirePart' /\ PeerPart' BY <1>1, <1>4, SameParts DEF Drain
  <2> QED BY <1>4, <2>1, <2>2, <2>3, <2>4, Parts DEF Drain, DrainPending
<1>5. CASE DropClient
  <2>1. LinkPart' BY <1>1, <1>5 DEF DropClient, LinkPart
  <2>2. TaskPart' /\ Suspected'
    BY <1>1, <1>5 DEF DropClient, TaskPart, Tasks, Suspected, dialVars
  <2>3. CallPart' /\ WirePart' /\ PeerPart' BY <1>1, <1>5, SameParts DEF DropClient
  <2> QED BY <1>5, <2>1, <2>2, <2>3, Parts DEF DropClient, callVars, Sent
<1>6. CASE Eof \/ NotLive \/ FireDisconnected \/ FireConnected
  <2>1. TaskPart' /\ Suspected'
    <3>1. CASE Eof BY <1>1, <3>1 DEF Eof, TaskPart, Tasks, Suspected, dialVars
    <3>2. CASE NotLive BY <1>1, <3>2 DEF NotLive, TaskPart, Tasks, Suspected, dialVars
    <3>3. CASE FireDisconnected
      <4>1. 0 \in 0..SuspectCap /\ 0 < SuspectCap BY DEF LinkAssumption
      <4> QED BY <1>1, <3>3, <4>1 DEF FireDisconnected, TaskPart, Tasks, Suspected
    <3>4. CASE FireConnected BY <1>1, <3>4 DEF FireConnected, TaskPart, Tasks, Suspected, dialVars
    <3> QED BY <1>6, <3>1, <3>2, <3>3, <3>4
  <2>2. CallPart' /\ LinkPart' /\ WirePart' /\ PeerPart' /\ UNCHANGED <<callVars, taskVars>>
    BY <1>1, <1>6, SameParts DEF Eof, NotLive, FireDisconnected, FireConnected
  <2> QED BY <2>1, <2>2, Parts DEF callVars, taskVars, Sent
<1> QED BY <1>2, <1>3, <1>4, <1>5, <1>6

\* The daemon's end.
Peer ==
  \/ Dispatch \/ Reply \/ \E why \in BOOLEAN : Leave(why)
  \/ Broadcast \/ SinkPush \/ Writer \/ Close({"cleanup"}) \/ Close({"serve"})

LEMMA PeerSame ==
  ASSUME Peer
  PROVE  UNCHANGED <<task, dialVars, live, state, callVars, taskVars, conn>>
BY DEF Peer, Dispatch, Reply, Leave, Broadcast, SinkPush, Writer, WriterTake, WriterWrite, Close

LEMMA PeerTypes ==
  ASSUME LinkAssumption, LinkTypeOK, Peer
  PROVE  LinkTypeOK'
<1>1. TaskPart /\ CallPart /\ LinkPart /\ WirePart /\ PeerPart BY Parts
<1>2. TaskPart' /\ CallPart' /\ LinkPart' BY <1>1, PeerSame, SameParts
<1>3. /\ Len(up) \in Nat /\ Len(down) \in Nat /\ Len(outq) \in Nat
      /\ SockCap \in Nat /\ OutCap \in Nat /\ MaxPushes \in Nat /\ pushes \in Nat
  BY <1>1 DEF WirePart, PeerPart, LinkAssumption
<1>4. UNCHANGED conn BY PeerSame
<1>5. CASE Dispatch
  <2>1. Head(up) \in Frames /\ Tail(up) \in Seq(Frames) /\ Len(Tail(up)) = Len(up) - 1
    BY <1>1, <1>5, TailElems DEF Dispatch, WirePart
  <2>2. Len(Tail(up)) <= SockCap BY <1>1, <1>3, <2>1 DEF WirePart
  <2>3. WirePart' BY <1>1, <1>4, <1>5, <2>1, <2>2 DEF Dispatch, WirePart
  <2>4. PeerPart' BY <1>1, <1>5, <2>1 DEF Dispatch, PeerPart
  <2> QED BY <1>2, <2>3, <2>4, Parts
<1>6. \A f \in Frames \cup {Push} : Len(outq) < OutCap =>
        Append(outq, f) \in Seq(Frames \cup {Push}) /\ Len(Append(outq, f)) <= OutCap
  BY <1>1, <1>3, AppendElems DEF PeerPart
<1>7. CASE Reply
  <2>1. busy \in Frames /\ busy.of \in Reqs BY <1>1, <1>7, FrameTypes DEF Reply, PeerPart
  <2>2. ran' \in [Reqs -> Nat] BY <1>1, <1>7, <2>1 DEF Reply, PeerPart
  <2>3. outq' \in Seq(Frames \cup {Push}) /\ Len(outq') <= OutCap
    BY <1>1, <1>6, <1>7, <2>1 DEF Reply, TryReply, PeerPart
  <2>4. peer' \in {"none", "serve", "cleanup", "closed"}
    BY <1>1, <1>7 DEF Reply, TryReply, PeerPart
  <2>5. PeerPart' BY <1>1, <1>7, <2>2, <2>3, <2>4 DEF Reply, PeerPart
  <2>6. WirePart' BY <1>1, <1>7, SameParts DEF Reply
  <2> QED BY <1>2, <2>5, <2>6, Parts
<1>8. CASE Broadcast \/ SinkPush
  <2>1. outq' \in Seq(Frames \cup {Push}) /\ Len(outq') <= OutCap
    BY <1>1, <1>6, <1>8 DEF Broadcast, SinkPush, PeerPart
  <2>2. pushes' \in 0..MaxPushes BY <1>3, <1>8 DEF Broadcast, SinkPush
  <2>3. PeerPart' BY <1>1, <1>8, <2>1, <2>2 DEF Broadcast, SinkPush, PeerPart
  <2>4. WirePart' BY <1>1, <1>8, SameParts DEF Broadcast, SinkPush
  <2> QED BY <1>2, <2>3, <2>4, Parts
<1>9. CASE WriterTake
  <2>1. /\ Head(outq) \in Frames \cup {Push} /\ Tail(outq) \in Seq(Frames \cup {Push})
        /\ Len(Tail(outq)) = Len(outq) - 1
    BY <1>1, <1>9, TailElems DEF WriterTake, PeerPart
  <2>2. Len(Tail(outq)) <= OutCap BY <1>1, <1>3, <2>1 DEF PeerPart
  <2>3. PeerPart' BY <1>1, <1>9, <2>1, <2>2 DEF WriterTake, PeerPart
  <2>4. WirePart' BY <1>1, <1>9, SameParts DEF WriterTake
  <2> QED BY <1>2, <2>3, <2>4, Parts
<1>10. CASE WriterWrite
  <2>1. held \in Frames \cup {Push} BY <1>1, <1>10 DEF WriterWrite, PeerPart
  <2>2. down' \in Seq(Frames \cup {Push}) /\ Len(down') <= SockCap
    <3>1. CASE down' = down BY <1>1, <3>1 DEF WirePart
    <3>2. CASE Len(down) < SockCap /\ down' = Append(down, held)
      BY <1>1, <1>3, <2>1, <3>2, AppendElems DEF WirePart
    <3> QED BY <1>10, <3>1, <3>2 DEF WriterWrite
  <2>3. WirePart' BY <1>1, <1>4, <1>10, <2>2 DEF WriterWrite, WirePart
  <2>4. PeerPart' BY <1>1, <1>10 DEF WriterWrite, PeerPart
  <2> QED BY <1>2, <2>3, <2>4, Parts
<1>11. ASSUME NEW why \in BOOLEAN, Leave(why) PROVE LinkTypeOK'
  <2>1. PeerPart' BY <1>1, <1>11 DEF Leave, PeerPart
  <2>2. WirePart' BY <1>1, <1>11, SameParts DEF Leave
  <2> QED BY <1>2, <2>1, <2>2, Parts
<1>12. ASSUME NEW states, Close(states) PROVE LinkTypeOK'
  <2>1. <<>> \in Seq(Frames) /\ <<>> \in Seq(Frames \cup {Push}) /\ Len(<<>>) = 0 OBVIOUS
  <2>2. 0 <= OutCap /\ 0 <= SockCap BY <1>3
  <2>3. PeerPart' BY <1>1, <1>12, <2>1, <2>2 DEF Close, PeerPart
  <2>4. WirePart' BY <1>1, <1>4, <1>12, <2>1, <2>2 DEF Close, WirePart
  <2> QED BY <1>2, <2>3, <2>4, Parts
<1> QED BY <1>5, <1>7, <1>8, <1>9, <1>10, <1>11, <1>12 DEF Peer, Writer

-----------------------------------------------------------------------------
(* The channel *)

\* A step that moves no request into or out of the channel.
LEMMA QueueSame ==
  ASSUME LinkAssumption, LinkTypeOK, Counted, Queued, UNCHANGED <<cmdq, nextId>>,
         Sent \subseteq Sent', \A r \in Elems(cmdq) : caller'[r] \in {"wait", "failed"}
  PROVE  Counted' /\ Queued' /\ Left \subseteq Left'
<1>1. Elems(cmdq)' = Elems(cmdq) BY DEF Elems
<1>2. Left \subseteq Left' BY <1>1 DEF Left
<1>3. Counted' BY <1>2, CountedSame
<1>4. Queued'
  <2>1. \A i, j \in 1..Len(cmdq)' : cmdq'[i] = cmdq'[j] => i = j BY DEF Queued
  <2>2. \A r \in Elems(cmdq)' : caller'[r] \in {"wait", "failed"} BY <1>1
  <2> QED BY <2>1, <2>2 DEF Queued
<1> QED BY <1>2, <1>3, <1>4

LEMMA ElemsType == ASSUME LinkTypeOK PROVE Elems(cmdq) \subseteq Reqs
BY DEF LinkTypeOK, Elems

LEMMA FailsQueue ==
  ASSUME LinkTypeOK, Queued, NEW who, FailedAll(who)
  PROVE  \A r \in Elems(cmdq) : caller'[r] \in {"wait", "failed"}
BY ElemsType DEF Queued, FailedAll

LEMMA SendQueue ==
  ASSUME LinkAssumption, TypeInv, NEW r \in Reqs, Send(r)
  PROVE  Counted' /\ Queued' /\ Left \subseteq Left' /\ UNCHANGED nextId
<1>1. LinkTypeOK /\ Queued /\ Counted /\ CallPart /\ LinkPart BY Parts DEF TypeInv
<1>2. caller[r] = "send" /\ UNCHANGED nextId BY DEF Send
<1>3. r \notin Elems(cmdq) /\ r \notin Sent BY <1>1, <1>2 DEF Queued, Sent
<1>4. \A q \in Reqs : q # r => caller'[q] = caller[q] BY <1>1 DEF Send, CallPart
<1>5. caller'[r] \in {"wait", "failed"} BY <1>1 DEF Send, CallPart
<1>6. Sent' = Sent \cup {r} BY <1>4, <1>5 DEF Sent
<1>7. CASE UNCHANGED cmdq
  <2>1. \A q \in Elems(cmdq) : caller'[q] \in {"wait", "failed"}
    BY <1>1, <1>3, <1>4, ElemsType DEF Queued
  <2> QED BY <1>1, <1>2, <1>6, <1>7, <2>1, QueueSame
<1>8. CASE cmdq' = Append(cmdq, r)
  <2>1. cmdq \in Seq(Reqs) BY <1>1 DEF LinkPart
  <2>2. /\ Len(Append(cmdq, r)) = Len(cmdq) + 1
        /\ \A i \in 1..Len(cmdq) : Append(cmdq, r)[i] = cmdq[i]
        /\ Append(cmdq, r)[Len(cmdq) + 1] = r
        /\ Elems(Append(cmdq, r)) = Elems(cmdq) \cup {r}
    BY <2>1, AppendElems
  <2>3. Elems(cmdq)' = Elems(cmdq) \cup {r} BY <1>8, <2>2 DEF Elems
  <2>4. Left' = Left BY <1>3, <1>6, <2>3 DEF Left
  <2>5. Counted' BY <1>1, <1>2, <2>4, CountedSame
  <2>6. \A q \in Elems(cmdq)' : caller'[q] \in {"wait", "failed"}
    BY <1>1, <1>4, <1>5, <2>3, ElemsType DEF Queued
  <2>7. \A i, j \in 1..Len(cmdq') : cmdq'[i] = cmdq'[j] => i = j
    <3>1. Len(cmdq) \in Nat BY <2>1
    <3>2. \A i \in 1..Len(cmdq) : cmdq'[i] = cmdq[i] /\ cmdq'[i] # r
      BY <1>3, <1>8, <2>2 DEF Elems
    <3>3. \A i \in 1..Len(cmdq') : i \in 1..Len(cmdq) \/ i = Len(cmdq) + 1 BY <1>8, <2>2, <3>1
    <3>4. cmdq'[Len(cmdq) + 1] = r BY <1>8, <2>2
    <3> QED BY <1>1, <3>2, <3>3, <3>4 DEF Queued
  <2> QED BY <1>2, <2>4, <2>5, <2>6, <2>7 DEF Queued
<1> QED BY <1>7, <1>8 DEF Send

\* Nobody enters pending.
LEMMA PendingShrinks ==
  ASSUME Known, Left \subseteq Left', nextId' = nextId,
         \A i \in Ids : pending'[i] \in {pending[i], NoReq}
  PROVE  Known'
BY DEF Known

LEMMA BootChannel ==
  ASSUME LinkAssumption, TypeInv, Boot
  PROVE  TypeInv' /\ Left \subseteq Left'
<1>1. LinkTypeOK' /\ Suspected' /\ UNCHANGED <<callVars, taskVars>> BY BootTypes DEF TypeInv
<1>2. UNCHANGED <<caller, cmdq, nextId, pending, writing>> BY <1>1 DEF callVars, taskVars
<1>3. Sent' = Sent BY <1>2 DEF Sent
<1>4. Counted' /\ Queued' /\ Left \subseteq Left'
  BY <1>2, <1>3, QueueSame DEF TypeInv, Queued
<1>5. Known' BY <1>2, <1>4, PendingShrinks DEF TypeInv
<1>6. Writes'
  <2>1. task # "write" /\ task' # "write"
    BY DEF Boot, BootAccept, BootRefused, BootTransient, BootIncompatible, BootTry
  <2> QED BY <1>2, <2>1 DEF TypeInv, Writes
<1> QED BY <1>1, <1>4, <1>5, <1>6 DEF TypeInv

LEMMA DialChannel ==
  ASSUME LinkAssumption, TypeInv, DialAgain
  PROVE  TypeInv' /\ Left \subseteq Left'
<1>1. /\ LinkTypeOK' /\ Suspected' /\ Sent' = Sent
      /\ GiveUp \/ UNCHANGED <<callVars, taskVars>>
  BY DialTypes DEF TypeInv
<1>2. Writes'
  <2>1. task # "write" /\ task' # "write" /\ UNCHANGED writing
    BY DEF DialAgain, DialAccept, DialRefused, DialTransient, DialIncompatible, GiveUp, taskVars
  <2> QED BY <2>1 DEF TypeInv, Writes
<1>3. CASE UNCHANGED <<callVars, taskVars>>
  <2>1. UNCHANGED <<caller, cmdq, nextId, pending>> BY <1>3 DEF callVars, taskVars
  <2>2. Counted' /\ Queued' /\ Left \subseteq Left'
    BY <1>1, <2>1, QueueSame DEF TypeInv, Queued
  <2>3. Known' BY <2>1, <2>2, PendingShrinks DEF TypeInv
  <2> QED BY <1>1, <1>2, <2>2, <2>3 DEF TypeInv
<1>4. CASE GiveUp
  <2>1. cmdq' = <<>> /\ UNCHANGED <<nextId, pending>> BY <1>4 DEF GiveUp
  <2>2. Elems(cmdq)' = {} /\ Len(cmdq') = 0 BY <2>1 DEF Elems
  <2>3. Left \subseteq Left' BY <1>1, <2>2 DEF Left
  <2>4. Counted' BY <2>1, <2>3, CountedSame DEF TypeInv
  <2>5. Queued' BY <2>2 DEF Queued
  <2>6. Known' BY <2>1, <2>3, PendingShrinks DEF TypeInv
  <2> QED BY <1>1, <1>2, <2>3, <2>4, <2>5, <2>6 DEF TypeInv
<1> QED BY <1>1, <1>3, <1>4

LEMMA CallChannel ==
  ASSUME LinkAssumption, TypeInv, NEW r \in Reqs, Gate(r) \/ Send(r) \/ Timeout(r)
  PROVE  TypeInv' /\ Left \subseteq Left'
<1>1. LinkTypeOK' /\ Suspected' BY CallTypes DEF TypeInv
<1>2. UNCHANGED <<task, nextId, pending, writing>> BY DEF Gate, Send, Timeout, taskVars
<1>3. Writes' BY <1>2 DEF TypeInv, Writes
<1>4. Counted' /\ Queued' /\ Left \subseteq Left'
  <2>1. CASE Send(r) BY <2>1, SendQueue
  <2>2. CASE Gate(r)
    <3>1. CallPart BY Parts DEF TypeInv
    <3>2. \A q \in Reqs : caller'[q] # caller[q] =>
            q = r /\ caller[q] = "new" /\ caller'[q] \in {"send", "refused"}
      BY <2>2, <3>1 DEF Gate, CallPart
    <3>3. Sent' = Sent BY <3>2 DEF Sent
    <3>4. \A q \in Elems(cmdq) : caller'[q] \in {"wait", "failed"}
      BY <3>2, ElemsType DEF TypeInv, Queued
    <3>5. UNCHANGED cmdq BY <2>2 DEF Gate, taskVars
    <3> QED BY <1>2, <3>3, <3>4, <3>5, QueueSame DEF TypeInv
  <2>3. CASE Timeout(r)
    <3>1. UNCHANGED cmdq BY <2>3 DEF Timeout, taskVars
    <3>2. Sent' = Sent /\ FailedAll({r})
      BY <2>3, Parts, FailsLemma DEF Timeout, TypeInv
    <3>3. \A q \in Elems(cmdq) : caller'[q] \in {"wait", "failed"}
      BY <3>2, FailsQueue DEF TypeInv
    <3> QED BY <1>2, <3>1, <3>2, <3>3, QueueSame DEF TypeInv
  <2> QED BY <2>1, <2>2, <2>3
<1>5. Known' BY <1>2, <1>4, PendingShrinks DEF TypeInv
<1> QED BY <1>1, <1>3, <1>4, <1>5 DEF TypeInv

LEMMA TakeChannel ==
  ASSUME LinkAssumption, TypeInv, Take
  PROVE  /\ TypeInv' /\ Left \subseteq Left' /\ Head(cmdq) \in Left' /\ Head(cmdq) \notin Left
         /\ nextId \in Ids /\ nextId' = nextId + 1 /\ nextId \in Nat
<1>1. LinkTypeOK' /\ Suspected' /\ Counted' /\ Queued' BY TakeTypes DEF TypeInv
<1>2. LinkPart /\ CallPart /\ cmdq # <<>> /\ cmdq \in Seq(Reqs) BY Parts DEF Take, TypeInv, LinkPart
<1>3. Head(cmdq) \in Sent /\ Head(cmdq) \notin Elems(Tail(cmdq)) /\ nextId \in Ids
  BY <1>2, IdLeft DEF TypeInv
<1>4. Sent' = Sent
  <2>1. CASE Fails({Head(cmdq)}) BY <1>2, <2>1, FailsLemma DEF Take
  <2>2. CASE UNCHANGED caller BY <2>2 DEF Sent
  <2> QED BY <2>1, <2>2 DEF Take
<1>5. Elems(cmdq)' = Elems(Tail(cmdq)) BY DEF Take, Elems
<1>6. Elems(cmdq) = {Head(cmdq)} \cup Elems(Tail(cmdq)) BY <1>2, TailElems
<1>7. Left \subseteq Left' /\ Head(cmdq) \in Left' /\ Head(cmdq) \notin Left
  BY <1>3, <1>4, <1>5, <1>6 DEF Left
<1>8. nextId' = nextId + 1 /\ nextId \in Nat BY <1>2 DEF Take, LinkPart
<1>9. Known'
  <2>1. \A i \in Ids : pending'[i] = pending[i] \/ (i = nextId /\ pending'[i] = Head(cmdq))
    BY <1>2, <1>3 DEF Take, FreshId, LinkPart
  <2>2. \A i \in Ids : i \in Int BY DEF Ids
  <2> QED BY <1>3, <1>7, <1>8, <2>1, <2>2 DEF Known, TypeInv
<1>10. Writes'
  <2>1. Head(cmdq) \in Reqs BY <1>2, TailElems
  <2>2. CASE Head(cmdq) \in Big
    <3>1. UNCHANGED <<task, writing>> BY <2>2 DEF Take
    <3> QED BY <3>1 DEF TypeInv, Writes
  <2>3. CASE Head(cmdq) \notin Big
    <3>1. task' = "write" /\ writing' = [id |-> nextId, of |-> Head(cmdq)]
      BY <2>3 DEF Take, FreshId
    <3>2. writing' # NoFrame BY <1>3, <2>1, <3>1, FrameTypes
    <3> QED BY <3>1, <3>2 DEF Writes
  <2> QED BY <2>2, <2>3
<1> QED BY <1>1, <1>3, <1>7, <1>8, <1>9, <1>10 DEF TypeInv

LEMMA ConnectionChannel ==
  ASSUME LinkAssumption, TypeInv,
         \/ Written \/ Read \/ Eof \/ NotLive \/ Drain \/ FireDisconnected \/ FireConnected
         \/ DropClient
  PROVE  TypeInv' /\ Left \subseteq Left'
<1>1. LinkTypeOK' /\ Suspected' /\ Sent' = Sent /\ UNCHANGED <<cmdq, nextId>>
  BY ConnectionTypes DEF TypeInv
<1>2. CallPart /\ LinkPart /\ WirePart BY Parts DEF TypeInv
<1>3. Writes'
  <2>1. CASE Written BY <2>1 DEF Written, Writes
  <2>2. CASE Read BY <2>2 DEF Read, Writes, TypeInv
  <2>3. CASE Eof \/ NotLive \/ FireDisconnected \/ FireConnected
    BY <2>3 DEF Eof, NotLive, FireDisconnected, FireConnected, taskVars, Writes, TypeInv
  <2>4. CASE Drain \/ DropClient BY <2>4 DEF Drain, DropClient, Writes, TypeInv
  <2> QED BY <2>1, <2>2, <2>3, <2>4
<1>4. /\ \A q \in Elems(cmdq) : caller'[q] \in {"wait", "failed"}
      /\ \A i \in Ids : pending'[i] \in {pending[i], NoReq}
  <2>1. CASE Read
    <3> DEFINE f == Head(down)
               q == IF f = Push THEN NoReq ELSE pending[f.id]
    <3>1. f \in Frames \cup {Push} BY <1>2, <2>1, TailElems DEF Read, WirePart
    <3>2. CASE q = NoReq
      <4>1. UNCHANGED <<caller, pending>> BY <2>1, <3>2 DEF Read
      <4> QED BY <4>1 DEF TypeInv, Queued
    <3>3. CASE q # NoReq
      <4>1. f.id \in Ids /\ q = pending[f.id] BY <3>1, <3>3, FrameTypes
      <4>2. pending' = [pending EXCEPT ![f.id] = NoReq] /\ caller' \in {caller, [caller EXCEPT ![q] = "ok"]}
        BY <2>1, <3>3 DEF Read
      <4>3. q \notin Elems(cmdq) BY <3>3, <4>1 DEF TypeInv, Known, Left
      <4> HIDE DEF f, q
      <4>4. \A i \in Ids : pending'[i] \in {pending[i], NoReq} BY <1>2, <4>2 DEF LinkPart
      <4>5. \A x \in Elems(cmdq) : caller'[x] = caller[x]
        BY <1>2, <4>2, <4>3, ElemsType DEF CallPart, TypeInv
      <4> QED BY <4>4, <4>5 DEF TypeInv, Queued
    <3> QED BY <3>2, <3>3
  <2>2. CASE Drain
    <3>1. FailedAll(InFlight) BY <1>2, <2>2, FailsLemma DEF Drain, DrainPending
    <3>2. \A i \in Ids : pending'[i] = NoReq BY <2>2 DEF Drain, DrainPending
    <3> QED BY <3>1, <3>2, FailsQueue DEF TypeInv
  <2>3. CASE DropClient
    <3>1. UNCHANGED caller /\ \A i \in Ids : pending'[i] = NoReq
      BY <2>3 DEF DropClient, callVars
    <3> QED BY <3>1 DEF TypeInv, Queued
  <2>4. CASE Written \/ Eof \/ NotLive \/ FireDisconnected \/ FireConnected
    <3>1. UNCHANGED <<caller, pending>>
      BY <2>4 DEF Written, Eof, NotLive, FireDisconnected, FireConnected, callVars, taskVars
    <3> QED BY <3>1 DEF TypeInv, Queued
  <2> QED BY <2>1, <2>2, <2>3, <2>4
<1>5. Counted' /\ Queued' /\ Left \subseteq Left' BY <1>1, <1>4, QueueSame DEF TypeInv
<1>6. Known' BY <1>1, <1>4, <1>5, PendingShrinks DEF TypeInv
<1> QED BY <1>1, <1>3, <1>5, <1>6 DEF TypeInv

LEMMA PeerChannel ==
  ASSUME LinkAssumption, TypeInv, Peer
  PROVE  TypeInv' /\ Left \subseteq Left'
<1>1. LinkTypeOK' BY PeerTypes DEF TypeInv
<1>2. UNCHANGED <<task, tries, suspects, refused, caller, cmdq, nextId, pending, writing>>
  BY PeerSame DEF dialVars, callVars, taskVars
<1>3. Sent' = Sent BY <1>2 DEF Sent
<1>4. Counted' /\ Queued' /\ Left \subseteq Left'
  BY <1>2, <1>3, QueueSame DEF TypeInv, Queued
<1>5. Known' BY <1>2, <1>4, PendingShrinks DEF TypeInv
<1> QED BY <1>1, <1>2, <1>4, <1>5 DEF TypeInv, Writes, Suspected

-----------------------------------------------------------------------------
(* Frames: a request is on its way to dispatch, or its response on its way *)
(* back, but never both, and never twice.                                  *)

\* What may still be dispatched; the responses that were not read.
Wire == Elems(up) \cup ({busy, writing} \ {NoFrame})
Responses == (Elems(outq) \cup Elems(down) \cup {held}) \ {Push, NoFrame}

\* An id leads to the request it was given to, or to nobody any more.
Faithful == \A f \in Wire \cup Responses : f.id < nextId /\ pending[f.id] \in {f.of, NoReq}

Unrun == \A f \in Wire : f.of \in Left /\ f.of \notin Big /\ ran[f.of] = 0
RanOnce == \A f \in Responses : ran[f.of] = 1

\* No request is on the wire twice.
Distinct ==
  /\ \A i, j \in 1..Len(up) : up[i].of = up[j].of => i = j
  /\ busy # NoFrame => \A f \in Elems(up) : f.of # busy.of
  /\ writing # NoFrame => \A f \in Elems(up) \cup ({busy} \ {NoFrame}) : f.of # writing.of

Untouched == \A r \in Reqs : r \notin Left => ran[r] = 0
Answered == \A r \in Reqs : caller[r] = "ok" => ran[r] = 1

FrameInv == Faithful /\ Unrun /\ RanOnce /\ Distinct /\ Untouched /\ Answered

LEMMA WireTypes ==
  ASSUME LinkTypeOK
  PROVE  /\ Wire \subseteq Frames /\ Responses \subseteq Frames
         /\ Elems(up) \subseteq Frames /\ busy \in Frames \cup {NoFrame}
         /\ writing \in Frames \cup {NoFrame}
<1>1. LinkPart /\ WirePart /\ PeerPart BY Parts
<1>2. /\ up \in Seq(Frames) /\ down \in Seq(Frames \cup {Push}) /\ outq \in Seq(Frames \cup {Push})
      /\ busy \in Frames \cup {NoFrame} /\ writing \in Frames \cup {NoFrame}
      /\ held \in Frames \cup {Push, NoFrame}
  BY <1>1 DEF LinkPart, WirePart, PeerPart
<1>3. \A S : \A q \in Seq(S) : Elems(q) \subseteq S BY DEF Elems
<1>4. /\ Elems(up) \subseteq Frames /\ Elems(down) \subseteq Frames \cup {Push}
      /\ Elems(outq) \subseteq Frames \cup {Push}
  BY <1>2, <1>3
<1> QED BY <1>2, <1>4 DEF Wire, Responses

\* No frame comes into being.
LEMMA FramesShrink ==
  ASSUME LinkTypeOK, FrameInv, Left \subseteq Left', UNCHANGED <<nextId, ran>>,
         \A i \in Ids : pending'[i] \in {pending[i], NoReq},
         Wire' \subseteq Wire, Responses' \subseteq Responses, Distinct',
         \A r \in Reqs : caller'[r] = "ok" => ran[r] = 1
  PROVE  FrameInv'
<1>1. \A f \in Wire \cup Responses : f.id \in Ids BY WireTypes, FrameTypes
<1>2. Faithful'
  <2>1. ASSUME NEW f \in Wire \cup Responses PROVE f.id < nextId' /\ pending'[f.id] \in {f.of, NoReq}
    BY <1>1 DEF FrameInv, Faithful
  <2>2. (Wire \cup Responses)' \subseteq Wire \cup Responses OBVIOUS
  <2> QED BY <2>1, <2>2 DEF Faithful
<1>3. Unrun' /\ RanOnce' BY DEF FrameInv, Unrun, RanOnce
<1>4. Untouched' /\ Answered' BY DEF FrameInv, Untouched, Answered
<1> QED BY <1>2, <1>3, <1>4 DEF FrameInv

\* The wire as it was, or less of it.
LEMMA WireSame ==
  ASSUME Distinct,
         \/ UNCHANGED <<up, busy>> /\ writing' \in {writing, NoFrame}
         \/ up' = <<>> /\ busy' = NoFrame /\ writing' \in {writing, NoFrame}
  PROVE  Wire' \subseteq Wire /\ Distinct'
<1>1. CASE UNCHANGED <<up, busy>> /\ writing' \in {writing, NoFrame}
  <2>1. Elems(up)' = Elems(up) /\ Len(up)' = Len(up) BY <1>1 DEF Elems
  <2> QED BY <1>1, <2>1 DEF Wire, Distinct
<1>2. CASE up' = <<>> /\ busy' = NoFrame /\ writing' \in {writing, NoFrame}
  <2>1. Elems(up)' = {} /\ Len(up)' = 0 BY <1>2 DEF Elems
  <2> QED BY <1>2, <2>1 DEF Wire, Distinct
<1> QED BY <1>1, <1>2

LEMMA ResponsesSame ==
  ASSUME \/ UNCHANGED <<outq, held>> /\ down' \in {down, <<>>}
         \/ outq' = <<>> /\ held' = NoFrame /\ down' \in {down, <<>>}
  PROVE  Responses' \subseteq Responses
<1>1. Elems(outq)' \subseteq Elems(outq)
  <2>1. CASE UNCHANGED outq BY <2>1 DEF Elems
  <2>2. CASE outq' = <<>> BY <2>2 DEF Elems
  <2> QED BY <2>1, <2>2
<1>2. Elems(down)' \subseteq Elems(down)
  <2>1. CASE UNCHANGED down BY <2>1 DEF Elems
  <2>2. CASE down' = <<>> BY <2>2 DEF Elems
  <2> QED BY <2>1, <2>2
<1>3. held' \in {held, NoFrame} OBVIOUS
<1> QED BY <1>1, <1>2, <1>3 DEF Responses

LEMMA BootFrames ==
  ASSUME LinkAssumption, TypeInv, FrameInv, Boot \/ DialAgain
  PROVE  FrameInv'
<1>1. LinkTypeOK /\ Left \subseteq Left' /\ CallPart
  BY BootChannel, DialChannel, Parts DEF TypeInv
<1>2. /\ UNCHANGED <<nextId, pending, ran, writing>>
      /\ \/ UNCHANGED <<up, busy, outq, held, down>>
         \/ up' = <<>> /\ busy' = NoFrame /\ outq' = <<>> /\ held' = NoFrame /\ down' = <<>>
      /\ \/ UNCHANGED caller \/ GiveUp
  <2>1. CASE Boot
    BY <2>1 DEF Boot, BootAccept, Accept, BootRefused, BootTransient, BootIncompatible, BootTry,
                callVars, taskVars, peerVars
  <2>2. CASE DialAgain
    <3>1. CASE DialAccept BY <3>1 DEF DialAccept, Accept, callVars, taskVars
    <3>2. CASE DialRefused BY <3>2 DEF DialRefused, callVars, taskVars, peerVars
    <3>3. CASE DialTransient
      BY <3>3 DEF DialTransient, Escalates, Suspect, GiveUp, callVars, taskVars, peerVars
    <3>4. CASE DialIncompatible BY <3>4 DEF DialIncompatible, GiveUp, peerVars
    <3> QED BY <2>2, <3>1, <3>2, <3>3, <3>4 DEF DialAgain
  <2> QED BY <2>1, <2>2
<1>3. Wire' \subseteq Wire /\ Distinct' BY <1>2, WireSame DEF FrameInv
<1>4. Responses' \subseteq Responses BY <1>2, ResponsesSame
<1>5. \A r \in Reqs : caller'[r] = "ok" => ran[r] = 1
  <2>1. CASE UNCHANGED caller BY <2>1 DEF FrameInv, Answered
  <2>2. CASE GiveUp
    <3>1. FailedAll(InQueue) BY <1>1, <2>2, FailsLemma DEF GiveUp
    <3> QED BY <3>1 DEF FailedAll, FrameInv, Answered
  <2> QED BY <1>2, <2>1, <2>2
<1> QED BY <1>1, <1>2, <1>3, <1>4, <1>5, FramesShrink

LEMMA CallFrames ==
  ASSUME LinkAssumption, TypeInv, FrameInv, NEW r \in Reqs, Gate(r) \/ Send(r) \/ Timeout(r)
  PROVE  FrameInv'
<1>1. LinkTypeOK /\ Left \subseteq Left' /\ CallPart BY CallChannel, Parts DEF TypeInv
<1>2. UNCHANGED <<nextId, pending, ran, writing, up, busy, outq, held, down>>
  BY DEF Gate, Send, Timeout, taskVars, peerVars
<1>3. Wire' \subseteq Wire /\ Distinct' BY <1>2, WireSame DEF FrameInv
<1>4. Responses' \subseteq Responses BY <1>2, ResponsesSame
<1>5. \A q \in Reqs : caller'[q] = "ok" => caller[q] = "ok"
  <2>1. CASE Gate(r) BY <1>1, <2>1 DEF Gate, CallPart
  <2>2. CASE Send(r) BY <1>1, <2>2 DEF Send, CallPart
  <2>3. CASE Timeout(r)
    <3>1. FailedAll({r}) BY <1>1, <2>3, FailsLemma DEF Timeout
    <3> QED BY <3>1 DEF FailedAll
  <2> QED BY <2>1, <2>2, <2>3
<1>6. \A q \in Reqs : caller'[q] = "ok" => ran[q] = 1 BY <1>5 DEF FrameInv, Answered
<1> QED BY <1>1, <1>2, <1>3, <1>4, <1>6, FramesShrink

\* The one step that puts a request on the wire.
LEMMA TakeFrames ==
  ASSUME LinkAssumption, TypeInv, FrameInv, Take
  PROVE  FrameInv'
<1> DEFINE h == Head(cmdq)
<1>1. /\ LinkTypeOK /\ LinkTypeOK' /\ Left \subseteq Left' /\ h \in Left' /\ h \notin Left
      /\ nextId \in Ids /\ nextId' = nextId + 1 /\ nextId \in Nat
  BY TakeChannel DEF TypeInv
<1>2. CallPart /\ LinkPart /\ h \in Reqs
  BY <1>1, Parts, TailElems DEF Take, LinkPart
<1>3. UNCHANGED <<ran, up, busy, outq, held, down>> BY DEF Take, peerVars
<1>4. Responses' = Responses BY <1>3 DEF Responses, Elems
<1>5. writing = NoFrame BY DEF Take, TypeInv, Writes
<1>6. /\ UNCHANGED <<pending, writing>> /\ FailedAll({h})
      \/ /\ pending' = [pending EXCEPT ![nextId] = h] /\ UNCHANGED caller /\ h \notin Big
         /\ writing' = [id |-> nextId, of |-> h]
  BY <1>2, FailsLemma DEF Take, FreshId
<1>7. Wire' \subseteq Wire \cup {[id |-> nextId, of |-> h]} /\ (h \in Big => Wire' \subseteq Wire)
  <2>1. Elems(up)' = Elems(up) BY <1>3 DEF Elems
  <2> HIDE DEF h
  <2>2. CASE UNCHANGED writing BY <1>3, <2>1, <2>2 DEF Wire
  <2>3. CASE writing' = [id |-> nextId, of |-> h] /\ h \notin Big
    BY <1>3, <2>1, <2>3 DEF Wire
  <2> QED BY <1>6, <2>2, <2>3
<1>8. \A i \in Ids : i # nextId => pending'[i] = pending[i]
  BY <1>2, <1>6 DEF LinkPart
<1>9. ran[h] = 0 BY <1>1, <1>2 DEF FrameInv, Untouched
<1>10. \A f \in Wire \cup Responses :
         /\ f \in Frames /\ f.id \in Ids /\ f.id \in Int /\ f.id < nextId
         /\ pending[f.id] \in {f.of, NoReq}
  BY <1>1, WireTypes, FrameTypes DEF FrameInv, Faithful, Ids
<1>11. Faithful'
  <2>1. \A f \in Wire \cup Responses : f.id < nextId' /\ pending'[f.id] \in {f.of, NoReq}
    BY <1>1, <1>8, <1>10
  <2>2. CASE Wire' \subseteq Wire BY <1>4, <2>1, <2>2 DEF Faithful
  <2>3. CASE pending' = [pending EXCEPT ![nextId] = h]
    <3>1. pending'[nextId] = h BY <1>1, <1>2, <2>3 DEF LinkPart
    <3>2. nextId < nextId' BY <1>1
    <3> QED BY <1>4, <1>7, <2>1, <3>1, <3>2 DEF Faithful
  <2>4. CASE UNCHANGED <<pending, writing>>
    <3>1. Wire' = Wire BY <1>3, <2>4 DEF Wire, Elems
    <3> QED BY <2>2, <3>1
  <2> QED BY <1>6, <2>3, <2>4
<1>12. Unrun'
  <2>1. \A f \in Wire : f.of \in Left' /\ f.of \notin Big /\ ran'[f.of] = 0
    BY <1>1, <1>3 DEF FrameInv, Unrun
  <2> HIDE DEF h
  <2>2. CASE h \in Big BY <1>7, <2>1, <2>2 DEF Unrun
  <2>3. CASE h \notin Big BY <1>1, <1>3, <1>7, <1>9, <2>1, <2>3 DEF Unrun
  <2> QED BY <2>2, <2>3
<1>13. RanOnce' BY <1>3, <1>4 DEF FrameInv, RanOnce
<1>14. Distinct'
  <2>1. Elems(up)' = Elems(up) /\ Len(up)' = Len(up) BY <1>3 DEF Elems
  <2>2. CASE UNCHANGED writing BY <1>3, <2>1, <2>2 DEF FrameInv, Distinct
  <2>3. CASE writing' = [id |-> nextId, of |-> h]
    <3>1. \A f \in Elems(up) \cup ({busy} \ {NoFrame}) : f.of # h
      BY <1>1 DEF FrameInv, Unrun, Wire
    <3> HIDE DEF h
    <3> QED BY <1>3, <2>1, <2>3, <3>1 DEF FrameInv, Distinct
  <2> QED BY <1>6, <2>2, <2>3
<1>15. Untouched' BY <1>1, <1>3 DEF FrameInv, Untouched
<1>16. Answered'
  <2>1. \A q \in Reqs : caller'[q] = "ok" => caller[q] = "ok" BY <1>6 DEF FailedAll
  <2> QED BY <1>3, <2>1 DEF FrameInv, Answered
<1> QED BY <1>11, <1>12, <1>13, <1>14, <1>15, <1>16 DEF FrameInv

\* A response that is read is its request's.
LEMMA OwnResponse ==
  ASSUME LinkAssumption, TypeInv, FrameInv, Read, Head(down) # Push, pending[Head(down).id] # NoReq
  PROVE  /\ Head(down) \in Frames /\ Head(down).id \in Ids
         /\ pending[Head(down).id] = Head(down).of /\ Head(down).of \in Reqs
         /\ ran[Head(down).of] = 1
<1> DEFINE f == Head(down)
<1>1. WirePart BY Parts DEF TypeInv
<1>2. f \in Frames \cup {Push} /\ f \in Elems(down) BY <1>1, TailElems DEF Read, WirePart
<1>3. f \in Frames /\ f.id \in Ids /\ f.of \in Reqs /\ f # NoFrame BY <1>2, FrameTypes
<1>4. f \in Responses BY <1>2, <1>3 DEF Responses
<1> QED BY <1>3, <1>4 DEF FrameInv, Faithful, RanOnce

LEMMA ConnectionFrames ==
  ASSUME LinkAssumption, TypeInv, FrameInv,
         \/ Written \/ Read \/ Eof \/ NotLive \/ Drain \/ FireDisconnected \/ FireConnected
         \/ DropClient
  PROVE  FrameInv'
<1>1. LinkTypeOK /\ Left \subseteq Left' /\ UNCHANGED nextId
  BY ConnectionChannel, ConnectionTypes DEF TypeInv
<1>2. CallPart /\ LinkPart /\ WirePart BY <1>1, Parts
<1>3. CASE Written
  <2>1. UNCHANGED <<caller, pending, ran, busy, outq, held, down>> /\ writing' = NoFrame
    BY <1>3 DEF Written, callVars, peerVars
  <2>2. Responses' \subseteq Responses BY <2>1, ResponsesSame
  <2>3. Wire' \subseteq Wire /\ Distinct'
    <3>1. CASE UNCHANGED up BY <2>1, <3>1, WireSame DEF FrameInv
    <3>2. CASE up' = Append(up, writing)
      <4>1. up \in Seq(Frames) /\ writing \in Frames /\ writing # NoFrame
        BY <1>2, <1>3, FrameTypes DEF Written, WirePart, LinkPart, TypeInv, Writes
      <4>2. /\ Len(Append(up, writing)) = Len(up) + 1
            /\ \A i \in 1..Len(up) : Append(up, writing)[i] = up[i]
            /\ Append(up, writing)[Len(up) + 1] = writing
            /\ Elems(Append(up, writing)) = Elems(up) \cup {writing}
        BY <4>1, AppendElems
      <4>3. Elems(up)' = Elems(up) \cup {writing} BY <3>2, <4>2 DEF Elems
      <4>4. Wire' \subseteq Wire BY <2>1, <4>1, <4>3 DEF Wire
      <4>5. \A f \in Elems(up) \cup ({busy} \ {NoFrame}) : f.of # writing.of
        BY <4>1 DEF FrameInv, Distinct
      <4>6. \A i, j \in 1..Len(up') : up'[i].of = up'[j].of => i = j
        <5>1. Len(up) \in Nat BY <4>1
        <5>2. \A i \in 1..Len(up) : up'[i] = up[i] /\ up'[i].of # writing.of
          BY <3>2, <4>2, <4>5 DEF Elems
        <5>3. \A i \in 1..Len(up') : i \in 1..Len(up) \/ i = Len(up) + 1 BY <3>2, <4>2, <5>1
        <5>4. up'[Len(up) + 1] = writing BY <3>2, <4>2
        <5> QED BY <5>2, <5>3, <5>4 DEF FrameInv, Distinct
      <4>7. busy # NoFrame => \A f \in Elems(up)' : f.of # busy.of
        BY <4>3, <4>5 DEF FrameInv, Distinct
      <4> QED BY <2>1, <4>4, <4>6, <4>7 DEF Distinct
    <3> QED BY <1>3, <3>1, <3>2 DEF Written
  <2> QED BY <1>1, <2>1, <2>2, <2>3, FramesShrink DEF FrameInv, Answered
<1>4. CASE Read
  <2> DEFINE f == Head(down)
             r == IF f = Push THEN NoReq ELSE pending[f.id]
  <2>1. UNCHANGED <<ran, up, busy, writing, outq, held>> /\ down' = Tail(down)
    BY <1>4 DEF Read, peerVars
  <2>2. Responses' \subseteq Responses
    <3>1. Elems(down)' = Elems(Tail(down)) /\ Elems(outq)' = Elems(outq) BY <2>1 DEF Elems
    <3>2. Elems(Tail(down)) \subseteq Elems(down) BY <1>2, <1>4, TailElems DEF Read, WirePart
    <3> QED BY <2>1, <3>1, <3>2 DEF Responses
  <2>3. Wire' \subseteq Wire /\ Distinct' BY <2>1, WireSame DEF FrameInv
  <2>4. /\ \A i \in Ids : pending'[i] \in {pending[i], NoReq}
        /\ \A q \in Reqs : caller'[q] = "ok" => ran[q] = 1
    <3>1. CASE r = NoReq
      <4>1. UNCHANGED <<caller, pending>> BY <1>4, <3>1 DEF Read
      <4> QED BY <4>1 DEF FrameInv, Answered
    <3>2. CASE r # NoReq
      <4>1. ran[r] = 1 /\ r \in Reqs BY <1>4, <3>2, OwnResponse
      <4>2. /\ pending' = [pending EXCEPT ![f.id] = NoReq]
            /\ caller' \in {caller, [caller EXCEPT ![r] = "ok"]}
        BY <1>4, <3>2 DEF Read
      <4> HIDE DEF f, r
      <4>3. \A i \in Ids : pending'[i] \in {pending[i], NoReq} BY <1>2, <4>2 DEF LinkPart
      <4>4. \A q \in Reqs : q # r => caller'[q] = caller[q] BY <1>2, <4>2 DEF CallPart
      <4> QED BY <4>1, <4>3, <4>4 DEF FrameInv, Answered
    <3> QED BY <3>1, <3>2
  <2> QED BY <1>1, <2>1, <2>2, <2>3, <2>4, FramesShrink
<1>5. CASE Drain \/ DropClient
  <2>1. UNCHANGED <<ran, up, busy, writing, outq, held, down>>
    BY <1>5 DEF Drain, DropClient, peerVars
  <2>2. \A i \in Ids : pending'[i] = NoReq BY <1>5 DEF Drain, DrainPending, DropClient
  <2>3. \A q \in Reqs : caller'[q] = "ok" => caller[q] = "ok"
    <3>1. CASE Drain
      <4>1. FailedAll(InFlight) BY <1>2, <3>1, FailsLemma DEF Drain, DrainPending
      <4> QED BY <4>1 DEF FailedAll
    <3>2. CASE DropClient BY <3>2 DEF DropClient, callVars
    <3> QED BY <1>5, <3>1, <3>2
  <2>4. Responses' \subseteq Responses BY <2>1, ResponsesSame
  <2>5. Wire' \subseteq Wire /\ Distinct' BY <2>1, WireSame DEF FrameInv
  <2> QED BY <1>1, <2>1, <2>2, <2>3, <2>4, <2>5, FramesShrink DEF FrameInv, Answered
<1>6. CASE Eof \/ NotLive \/ FireDisconnected \/ FireConnected
  <2>1. UNCHANGED <<caller, pending, ran, up, busy, writing, outq, held, down>>
    BY <1>6 DEF Eof, NotLive, FireDisconnected, FireConnected, callVars, taskVars, peerVars
  <2>2. Responses' \subseteq Responses BY <2>1, ResponsesSame
  <2>3. Wire' \subseteq Wire /\ Distinct' BY <2>1, WireSame DEF FrameInv
  <2> QED BY <1>1, <2>1, <2>2, <2>3, FramesShrink DEF FrameInv, Answered
<1> QED BY <1>3, <1>4, <1>5, <1>6

\* The one step that dispatches a request.
LEMMA ReplyFrames ==
  ASSUME LinkAssumption, TypeInv, FrameInv, Reply
  PROVE  FrameInv' /\ ran[busy.of] = 0 /\ busy.of \in Left /\ busy.of \notin Big
<1>1. LinkTypeOK /\ PeerPart /\ WirePart BY Parts DEF TypeInv
<1>2. /\ UNCHANGED <<caller, cmdq, nextId, pending, writing, up, down, held>> /\ busy' = NoFrame
      /\ busy \in Frames /\ busy # NoFrame
  BY <1>1 DEF Reply, callVars, taskVars, PeerPart
<1>3. busy \in Wire /\ busy.of \in Reqs BY <1>2, FrameTypes DEF Wire
<1>4. ran[busy.of] = 0 /\ busy.of \in Left /\ busy.of \notin Big BY <1>3 DEF FrameInv, Unrun
<1>5. Left' = Left BY <1>2 DEF Left, Sent, Elems
<1>6. /\ ran' = [ran EXCEPT ![busy.of] = ran[busy.of] + 1] /\ ran \in [Reqs -> Nat]
  BY <1>1 DEF Reply, PeerPart
<1>7. ran'[busy.of] = 1 /\ \A q \in Reqs : q # busy.of => ran'[q] = ran[q]
  BY <1>3, <1>4, <1>6
<1>8. Wire' \subseteq Wire /\ \A f \in Wire' : f.of # busy.of
  <2>1. Elems(up)' = Elems(up) BY <1>2 DEF Elems
  <2>2. \A f \in Elems(up) : f.of # busy.of BY <1>2 DEF FrameInv, Distinct
  <2>3. writing # NoFrame => writing.of # busy.of BY <1>2 DEF FrameInv, Distinct
  <2> QED BY <1>2, <2>1, <2>2, <2>3 DEF Wire
<1>9. Responses' \subseteq Responses \cup {busy}
  <2>1. Elems(outq)' \subseteq Elems(outq) \cup {busy}
    <3>1. CASE UNCHANGED outq BY <3>1 DEF Elems
    <3>2. CASE outq' = Append(outq, busy)
      <4>1. Elems(Append(outq, busy)) = Elems(outq) \cup {busy} BY <1>1, <1>2, AppendElems DEF PeerPart
      <4> QED BY <3>2, <4>1 DEF Elems
    <3> QED BY <3>1, <3>2 DEF Reply, TryReply
  <2>2. Elems(down)' = Elems(down) BY <1>2 DEF Elems
  <2> QED BY <1>2, <2>1, <2>2 DEF Responses
<1>10. Faithful'
  <2>1. \A f \in Wire \cup Responses : f.id < nextId' /\ pending'[f.id] \in {f.of, NoReq}
    BY <1>2 DEF FrameInv, Faithful
  <2>2. (Wire \cup Responses)' \subseteq Wire \cup Responses BY <1>3, <1>8, <1>9
  <2> QED BY <2>1, <2>2 DEF Faithful
<1>11. \A f \in Wire \cup Responses : f.of \in Reqs BY <1>1, WireTypes, FrameTypes
<1>12. Unrun' BY <1>5, <1>7, <1>8, <1>11 DEF FrameInv, Unrun
<1>13. RanOnce' BY <1>7, <1>9, <1>11 DEF FrameInv, RanOnce
<1>14. Distinct'
  <2>1. Elems(up)' = Elems(up) /\ Len(up)' = Len(up) BY <1>2 DEF Elems
  <2> QED BY <1>2, <2>1 DEF FrameInv, Distinct
<1>15. Untouched' BY <1>4, <1>5, <1>7 DEF FrameInv, Untouched
<1>16. Answered' BY <1>2, <1>7 DEF FrameInv, Answered
<1> QED BY <1>4, <1>10, <1>12, <1>13, <1>14, <1>15, <1>16 DEF FrameInv

LEMMA PeerFrames ==
  ASSUME LinkAssumption, TypeInv, FrameInv, Peer
  PROVE  FrameInv'
<1>1. LinkTypeOK /\ Left \subseteq Left' BY PeerChannel DEF TypeInv
<1>2. WirePart /\ PeerPart BY <1>1, Parts
<1>3. UNCHANGED <<caller, nextId, pending, writing>> BY PeerSame DEF callVars, taskVars
<1>4. ASSUME Wire' \subseteq Wire, Distinct', Responses' \subseteq Responses, UNCHANGED ran
      PROVE  FrameInv'
  BY <1>1, <1>3, <1>4, FramesShrink DEF FrameInv, Answered
<1>5. CASE Dispatch
  <2>1. /\ busy = NoFrame /\ busy' = Head(up) /\ up' = Tail(up) /\ up # <<>> /\ up \in Seq(Frames)
        /\ UNCHANGED <<ran, outq, held, down>>
    BY <1>2, <1>5 DEF Dispatch, WirePart
  <2>2. /\ Head(up) \in Frames /\ Head(up) = up[1] /\ Len(Tail(up)) = Len(up) - 1 /\ Len(up) >= 1
        /\ \A i \in 1..Len(Tail(up)) : Tail(up)[i] = up[i + 1]
        /\ Elems(up) = {Head(up)} \cup Elems(Tail(up))
    BY <2>1, TailElems
  <2>3. Elems(up)' = Elems(Tail(up)) /\ Len(up) \in Nat BY <2>1 DEF Elems
  <2>4. Wire' \subseteq Wire BY <1>3, <2>1, <2>2, <2>3, FrameTypes DEF Wire
  <2>5. Distinct'
    <3>1. \A i, j \in 1..Len(up') : up'[i].of = up'[j].of => i = j
      <4>1. \A i \in 1..Len(up') : i + 1 \in 1..Len(up) /\ up'[i] = up[i + 1] /\ i \in Int
        BY <2>1, <2>2, <2>3
      <4>2. SUFFICES ASSUME NEW i \in 1..Len(up'), NEW j \in 1..Len(up'), up'[i].of = up'[j].of
                     PROVE  i = j
        OBVIOUS
      <4>3. i + 1 = j + 1 BY <4>1, <4>2 DEF FrameInv, Distinct
      <4> QED BY <4>1, <4>3
    <3>2. \A f \in Elems(up)' : f.of # Head(up).of
      <4>1. SUFFICES ASSUME NEW i \in 1..Len(up'), up'[i].of = Head(up).of PROVE FALSE
        BY DEF Elems
      <4>2. i + 1 \in 1..Len(up) /\ up'[i] = up[i + 1] /\ i \in Int /\ 1 \in 1..Len(up) /\ i >= 1
        BY <2>1, <2>2, <2>3
      <4>3. i + 1 = 1 BY <2>2, <4>1, <4>2 DEF FrameInv, Distinct
      <4> QED BY <4>2, <4>3
    <3>3. writing # NoFrame => \A f \in Elems(up) : f.of # writing.of
      BY DEF FrameInv, Distinct
    <3> QED BY <1>3, <2>1, <2>2, <2>3, <3>1, <3>2, <3>3 DEF Distinct
  <2>6. Responses' \subseteq Responses BY <2>1, ResponsesSame
  <2> QED BY <1>4, <2>1, <2>4, <2>5, <2>6
<1>6. CASE Reply BY <1>6, ReplyFrames
<1>7. CASE Broadcast \/ SinkPush
  <2>1. UNCHANGED <<ran, up, busy, held, down>> BY <1>7 DEF Broadcast, SinkPush
  <2>2. Elems(outq)' \subseteq Elems(outq) \cup {Push}
    <3>1. CASE UNCHANGED outq BY <3>1 DEF Elems
    <3>2. CASE outq' = Append(outq, Push)
      <4>1. Elems(Append(outq, Push)) = Elems(outq) \cup {Push} BY <1>2, AppendElems DEF PeerPart
      <4> QED BY <3>2, <4>1 DEF Elems
    <3> QED BY <1>7, <3>1, <3>2 DEF Broadcast, SinkPush
  <2>3. Responses' \subseteq Responses
    <3>1. Elems(down)' = Elems(down) BY <2>1 DEF Elems
    <3> QED BY <2>1, <2>2, <3>1 DEF Responses
  <2>4. Wire' \subseteq Wire /\ Distinct' BY <1>3, <2>1, WireSame DEF FrameInv
  <2> QED BY <1>4, <2>1, <2>3, <2>4
<1>8. CASE Writer
  <2>1. UNCHANGED <<ran, up, busy>> BY <1>8 DEF Writer, WriterTake, WriterWrite
  <2>2. Wire' \subseteq Wire /\ Distinct' BY <1>3, <2>1, WireSame DEF FrameInv
  <2>3. Responses' \subseteq Responses
    <3>1. CASE WriterTake
      <4>1. Elems(outq) = {Head(outq)} \cup Elems(Tail(outq)) BY <1>2, <3>1, TailElems DEF WriterTake, PeerPart
      <4>2. Elems(outq)' = Elems(Tail(outq)) /\ held' = Head(outq) /\ Elems(down)' = Elems(down)
        BY <3>1 DEF WriterTake, Elems
      <4> QED BY <4>1, <4>2 DEF Responses
    <3>2. CASE WriterWrite
      <4>1. held \in Frames \cup {Push} BY <1>2, <3>2 DEF WriterWrite, PeerPart
      <4>2. Elems(down)' \subseteq Elems(down) \cup {held}
        <5>1. CASE down' = down BY <5>1 DEF Elems
        <5>2. CASE down' = Append(down, held)
          <6>1. Elems(Append(down, held)) = Elems(down) \cup {held} BY <1>2, <4>1, AppendElems DEF WirePart
          <6> QED BY <5>2, <6>1 DEF Elems
        <5> QED BY <3>2, <5>1, <5>2 DEF WriterWrite
      <4>3. held' = NoFrame /\ Elems(outq)' = Elems(outq) BY <3>2 DEF WriterWrite, Elems
      <4> QED BY <4>2, <4>3 DEF Responses
    <3> QED BY <1>8, <3>1, <3>2 DEF Writer
  <2> QED BY <1>4, <2>1, <2>2, <2>3
<1>9. ASSUME NEW why \in BOOLEAN, Leave(why) PROVE FrameInv'
  <2>1. UNCHANGED <<ran, up, busy, outq, held, down>> BY <1>9 DEF Leave
  <2> QED BY <1>3, <1>4, <2>1, WireSame, ResponsesSame DEF FrameInv
<1>10. ASSUME NEW states, Close(states) PROVE FrameInv'
  <2>1. /\ up' = <<>> /\ busy' = NoFrame /\ outq' = <<>> /\ held' = NoFrame
        /\ UNCHANGED <<ran, down>>
    BY <1>10 DEF Close
  <2> QED BY <1>3, <1>4, <2>1, WireSame, ResponsesSame DEF FrameInv
<1> QED BY <1>5, <1>6, <1>7, <1>8, <1>9, <1>10 DEF Peer

-----------------------------------------------------------------------------
(* Who waits                                                               *)

\* Who waits is in the channel or in flight, and nothing is in flight while the task redials.
Reach == \A r \in Reqs : caller[r] = "wait" => r \in Elems(cmdq) \/ \E i \in Ids : pending[i] = r
Idle == task \in {"fire", "dial", "gone"} => \A i \in Ids : pending[i] = NoReq
Escalated == task = "failed" => refused

WaitInv == Reach /\ Idle /\ Escalated

LEMMA WaitSame ==
  ASSUME WaitInv, UNCHANGED <<caller, cmdq, pending, refused>>,
         task' = task \/ task' \notin {"fire", "dial", "gone", "failed"}
         \/ (task = "fire" /\ task' = "dial")
  PROVE  WaitInv'
<1>1. Elems(cmdq)' = Elems(cmdq) BY DEF Elems
<1>2. Reach' BY <1>1 DEF WaitInv, Reach
<1>3. Idle' /\ Escalated' BY DEF WaitInv, Idle, Escalated
<1> QED BY <1>2, <1>3 DEF WaitInv

LEMMA BootWait ==
  ASSUME LinkAssumption, TypeInv, WaitInv, Boot \/ DialAgain
  PROVE  WaitInv'
<1>1. TaskPart /\ CallPart BY Parts DEF TypeInv
<1>2. ASSUME UNCHANGED <<caller, cmdq, pending>>, task = "boot",
             task' \notin {"fire", "dial", "gone"}, Escalated'
      PROVE  WaitInv'
  <2>1. Elems(cmdq)' = Elems(cmdq) BY <1>2 DEF Elems
  <2>2. Reach' BY <1>2, <2>1 DEF WaitInv, Reach
  <2> QED BY <1>2, <2>2 DEF WaitInv, Idle
<1>3. CASE BootAccept
  BY <1>2, <1>3 DEF BootAccept, callVars, taskVars, Escalated
<1>4. CASE BootRefused
  BY <1>2, <1>4 DEF BootRefused, BootTry, callVars, taskVars, Escalated
<1>5. CASE BootIncompatible
  BY <1>2, <1>5 DEF BootIncompatible, BootTry, callVars, taskVars, Escalated
<1>6. CASE BootTransient
  <2>1. /\ UNCHANGED <<caller, cmdq, pending, refused>> /\ task = "boot"
        /\ task' \in {"boot", "failed", "fatal"}
    BY <1>6 DEF BootTransient, BootTry, callVars, taskVars
  <2>2. tries \in Nat /\ suspects \in Nat /\ SuspectCap \in Nat /\ BootAttempts \in Nat
    BY <1>1 DEF TaskPart, LinkAssumption
  <2>3. Attempts >= SuspectCap BY <2>2 DEF Attempts
  <2>4. ~refused => tries = suspects BY <2>1 DEF TypeInv, Suspected
  <2>5. task' = "failed" => suspects + 1 < SuspectCap /\ tries + 1 >= Attempts
    BY <1>6, <2>2 DEF BootTransient, BootTry, Escalates
  <2>6. Attempts \in Nat BY <2>2 DEF Attempts
  <2>7. task' = "failed" => refused
    <3>1. SUFFICES ASSUME task' = "failed", ~refused PROVE FALSE
      BY <1>1 DEF TaskPart
    <3> QED BY <2>2, <2>3, <2>4, <2>5, <2>6, <3>1
  <2>8. Escalated' BY <2>1, <2>7 DEF Escalated
  <2> QED BY <1>2, <2>1, <2>8
<1>7. ASSUME GiveUp, task = "dial" PROVE WaitInv'
  <2>1. FailedAll(InQueue) BY <1>1, <1>7, FailsLemma DEF GiveUp
  <2>2. \A i \in Ids : pending'[i] = NoReq BY <1>7 DEF WaitInv, Idle, GiveUp
  <2>3. \A r \in Reqs : caller[r] = "wait" => r \in InQueue
    <3>1. NoReq \notin Reqs BY DEF LinkAssumption
    <3> QED BY <1>7, <3>1 DEF WaitInv, Reach, Idle, Elems, InQueue
  <2>4. \A r \in Reqs : caller'[r] # "wait" BY <2>1, <2>3 DEF FailedAll
  <2> QED BY <1>7, <2>2, <2>4 DEF WaitInv, Reach, Idle, Escalated, GiveUp
<1>8. CASE DialAgain
  <2>1. CASE DialAccept
    BY <2>1, WaitSame DEF DialAccept, callVars, taskVars, dialVars
  <2>2. CASE DialRefused BY <2>2, WaitSame DEF DialRefused, callVars, taskVars
  <2>3. CASE DialTransient BY <1>7, <2>3, WaitSame DEF DialTransient, callVars, taskVars
  <2>4. CASE DialIncompatible BY <1>7, <2>4 DEF DialIncompatible
  <2> QED BY <1>8, <2>1, <2>2, <2>3, <2>4 DEF DialAgain
<1> QED BY <1>3, <1>4, <1>5, <1>6, <1>8 DEF Boot

LEMMA CallWait ==
  ASSUME LinkAssumption, TypeInv, WaitInv, NEW r \in Reqs, Gate(r) \/ Send(r) \/ Timeout(r)
  PROVE  WaitInv'
<1>1. CallPart /\ LinkPart BY Parts DEF TypeInv
<1>2. UNCHANGED <<task, refused, pending>> BY DEF Gate, Send, Timeout, dialVars, taskVars
<1>3. Elems(cmdq) \subseteq Elems(cmdq)'
      /\ \A q \in Reqs : caller'[q] = "wait" => caller[q] = "wait" \/ q \in Elems(cmdq)'
  <2>1. CASE Gate(r)
    <3>1. Elems(cmdq)' = Elems(cmdq) BY <2>1 DEF Gate, taskVars, Elems
    <3> QED BY <1>1, <2>1, <3>1 DEF Gate, CallPart
  <2>2. CASE Send(r)
    <3>1. CASE UNCHANGED cmdq /\ caller' = [caller EXCEPT ![r] = "failed"]
      BY <1>1, <3>1 DEF CallPart, Elems
    <3>2. CASE cmdq' = Append(cmdq, r) /\ caller' = [caller EXCEPT ![r] = "wait"]
      <4>1. Elems(Append(cmdq, r)) = Elems(cmdq) \cup {r} BY <1>1, AppendElems DEF LinkPart
      <4>2. Elems(cmdq)' = Elems(cmdq) \cup {r} BY <3>2, <4>1 DEF Elems
      <4> QED BY <1>1, <3>2, <4>2 DEF CallPart
    <3> QED BY <2>2, <3>1, <3>2 DEF Send
  <2>3. CASE Timeout(r)
    <3>1. FailedAll({r}) BY <1>1, <2>3, FailsLemma DEF Timeout
    <3>2. Elems(cmdq)' = Elems(cmdq) BY <2>3 DEF Timeout, taskVars, Elems
    <3> QED BY <3>1, <3>2 DEF FailedAll
  <2> QED BY <2>1, <2>2, <2>3
<1>4. Reach' BY <1>2, <1>3 DEF WaitInv, Reach
<1> QED BY <1>2, <1>4 DEF WaitInv, Idle, Escalated

LEMMA ConnectionWait ==
  ASSUME LinkAssumption, TypeInv, WaitInv, Connection \/ DropClient
  PROVE  WaitInv'
<1>1. CallPart /\ LinkPart /\ WirePart BY Parts DEF TypeInv
<1>2. NoReq \notin Reqs BY DEF LinkAssumption
<1>3. UNCHANGED refused
  BY DEF Connection, Take, Written, Read, Eof, NotLive, Drain, FireDisconnected, FireConnected,
         DropClient, dialVars
<1>4. CASE Take
  <2>1. /\ Left \subseteq Left' /\ nextId \in Ids /\ nextId \in Nat BY <1>4, TakeChannel
  <2>2. cmdq # <<>> /\ cmdq \in Seq(Reqs) BY <1>1, <1>4 DEF Take, LinkPart
  <2>3. Elems(cmdq) = {Head(cmdq)} \cup Elems(Tail(cmdq)) /\ Head(cmdq) \in Reqs
    BY <2>2, TailElems
  <2>4. Elems(cmdq)' = Elems(Tail(cmdq)) BY <1>4 DEF Take, Elems
  <2>5. task = "run" /\ task' \in {"run", "write"} BY <1>4 DEF Take
  <2>6. CASE Fails({Head(cmdq)}) /\ UNCHANGED pending
    <3>1. FailedAll({Head(cmdq)}) BY <1>1, <1>4, <2>6, FailsLemma DEF Take
    <3>2. Reach' BY <2>3, <2>4, <2>6, <3>1 DEF WaitInv, Reach, FailedAll
    <3> QED BY <2>5, <3>2 DEF WaitInv, Idle, Escalated
  <2>7. CASE UNCHANGED caller /\ pending' = [pending EXCEPT ![nextId] = Head(cmdq)]
    <3>1. pending[nextId] = NoReq
      <4>1. ~(nextId < nextId) BY <2>1
      <4> QED BY <2>1, <4>1 DEF TypeInv, Known
    <3>2. pending'[nextId] = Head(cmdq) /\ \A i \in Ids : i # nextId => pending'[i] = pending[i]
      BY <1>1, <2>1, <2>7 DEF LinkPart
    <3>3. \A q \in Reqs : (\E i \in Ids : pending[i] = q) => \E i \in Ids : pending'[i] = q
      BY <1>2, <3>1, <3>2
    <3>4. Reach' BY <2>1, <2>3, <2>4, <2>7, <3>2, <3>3 DEF WaitInv, Reach
    <3> QED BY <2>5, <3>4 DEF WaitInv, Idle, Escalated
  <2> QED BY <1>4, <2>6, <2>7 DEF Take, FreshId
<1>5. CASE Read
  <2> DEFINE f == Head(down)
             r == IF f = Push THEN NoReq ELSE pending[f.id]
  <2>1. UNCHANGED <<task, cmdq>> /\ task = "run" BY <1>5 DEF Read
  <2>2. f \in Frames \cup {Push} BY <1>1, <1>5, TailElems DEF Read, WirePart
  <2>3. Elems(cmdq)' = Elems(cmdq) BY <2>1 DEF Elems
  <2>4. CASE r = NoReq
    <3>1. UNCHANGED <<caller, pending>> BY <1>5, <2>4 DEF Read
    <3> QED BY <1>3, <2>1, <3>1, WaitSame
  <2>5. CASE r # NoReq
    <3>1. f.id \in Ids /\ r = pending[f.id] /\ r \in Reqs
      BY <1>1, <2>2, <2>5, FrameTypes DEF LinkPart
    <3>2. /\ pending' = [pending EXCEPT ![f.id] = NoReq]
          /\ \/ caller[r] # "wait" /\ UNCHANGED caller
             \/ caller' = [caller EXCEPT ![r] = "ok"]
      BY <1>5, <2>5 DEF Read
    <3> HIDE DEF f, r
    <3>3. \A i \in Ids : i # f.id => pending'[i] = pending[i] BY <1>1, <3>2 DEF LinkPart
    <3>4. \A q \in Reqs : caller'[q] = "wait" => caller[q] = "wait" /\ q # r
      BY <1>1, <3>1, <3>2 DEF CallPart
    <3>5. Reach' BY <2>3, <3>1, <3>3, <3>4 DEF WaitInv, Reach
    <3> QED BY <1>3, <2>1, <3>5 DEF WaitInv, Idle, Escalated
  <2> QED BY <2>4, <2>5
<1>6. CASE Drain
  <2>1. FailedAll(InFlight) BY <1>1, <1>6, FailsLemma DEF Drain, DrainPending
  <2>2. Elems(cmdq)' = Elems(cmdq) BY <1>6 DEF Drain, DrainPending, Elems
  <2>3. \A q \in Reqs : (\E i \in Ids : pending[i] = q) => q \in InFlight
    BY <1>2 DEF InFlight
  <2>4. Reach' BY <2>1, <2>2, <2>3 DEF WaitInv, Reach, FailedAll
  <2>5. \A i \in Ids : pending'[i] = NoReq BY <1>6 DEF Drain, DrainPending
  <2>6. task' = "fire" BY <1>6 DEF Drain
  <2> QED BY <2>4, <2>5, <2>6 DEF WaitInv, Idle, Escalated
<1>7. CASE DropClient
  <2>1. \A q \in Reqs : caller'[q] # "wait" BY <1>7 DEF DropClient, callVars
  <2>2. task' = "dropped" BY <1>7 DEF DropClient
  <2> QED BY <2>1, <2>2 DEF WaitInv, Reach, Idle, Escalated
<1>8. CASE Written \/ Eof \/ NotLive \/ FireDisconnected \/ FireConnected
  <2>1. UNCHANGED <<caller, cmdq, pending>>
    BY <1>8 DEF Written, Eof, NotLive, FireDisconnected, FireConnected, callVars, taskVars
  <2>2. \/ task' \in {"run", "lost", "drain"}
        \/ task = "fire" /\ task' = "dial"
    BY <1>8 DEF Written, Eof, NotLive, FireDisconnected, FireConnected
  <2> QED BY <1>3, <2>1, <2>2, WaitSame
<1> QED BY <1>4, <1>5, <1>6, <1>7, <1>8 DEF Connection

LEMMA PeerWait == ASSUME WaitInv, Peer PROVE WaitInv'
BY PeerSame, WaitSame DEF dialVars, callVars, taskVars

-----------------------------------------------------------------------------
(* The theorems                                                            *)

LinkInv == TypeInv /\ FrameInv /\ WaitInv

LEMMA Cases ==
  ASSUME LinkTypeOK, LinkNext
  PROVE  \/ Boot \/ DialAgain \/ Connection \/ DropClient \/ Peer
         \/ \E r \in Reqs : Gate(r) \/ Send(r) \/ Timeout(r)
<1>1. notified \in BOOLEAN BY DEF LinkTypeOK
<1> QED BY <1>1 DEF LinkNext, Handler, ToldOfOverflow, Peer

LEMMA Start == ASSUME LinkAssumption, LinkInit PROVE LinkInv
<1>1. Cardinality(Reqs) \in Nat BY FS_CardinalityType DEF LinkAssumption
<1>2. Elems(cmdq) = {} /\ Elems(up) = {} /\ Elems(outq) = {} /\ Elems(down) = {}
  BY DEF LinkInit, Elems
<1>3. Sent = {} /\ Left = {} BY <1>2 DEF LinkInit, Sent, Left
<1>4. LinkTypeOK
  <2>1. <<>> \in Seq(Reqs) /\ <<>> \in Seq(Frames) /\ <<>> \in Seq(Frames \cup {Push}) /\ Len(<<>>) = 0
    OBVIOUS
  <2>2. TaskPart
    <3>1. 0 \in 0..SuspectCap BY DEF LinkAssumption
    <3> QED BY <3>1 DEF LinkInit, TaskPart, Tasks
  <2>3. CallPart BY DEF LinkInit, CallPart, LinkAssumption
  <2>4. LinkPart BY <1>1, <2>1 DEF LinkInit, LinkPart, LinkAssumption
  <2>5. WirePart BY <2>1 DEF LinkInit, WirePart, LinkAssumption
  <2>6. PeerPart
    <3>1. 0 \in 0..MaxPushes /\ 0 <= OutCap BY DEF LinkAssumption
    <3>2. ran \in [Reqs -> Nat] BY DEF LinkInit
    <3> QED BY <2>1, <3>1, <3>2 DEF LinkInit, PeerPart
  <2> QED BY <2>2, <2>3, <2>4, <2>5, <2>6, Parts
<1>5. Writes /\ Known /\ Suspected BY DEF LinkInit, Writes, Known, Suspected, LinkAssumption
<1>6. Counted
  <2>1. Cardinality({}) = 0 BY FS_EmptySet
  <2> QED BY <1>3, <2>1 DEF Counted, LinkInit
<1>7. Queued
  <2>1. Len(cmdq) = 0 BY DEF LinkInit
  <2> QED BY <1>2, <2>1 DEF Queued
<1>8. FrameInv
  <2>1. Wire = {} /\ Responses = {} BY <1>2 DEF Wire, Responses, LinkInit
  <2>2. Len(up) = 0 /\ busy = NoFrame /\ writing = NoFrame BY DEF LinkInit
  <2>3. Distinct BY <1>2, <2>2 DEF Distinct
  <2>4. Untouched /\ Answered BY DEF LinkInit, Untouched, Answered
  <2> QED BY <2>1, <2>3, <2>4 DEF FrameInv, Faithful, Unrun, RanOnce
<1>9. WaitInv BY DEF LinkInit, WaitInv, Reach, Idle, Escalated
<1> QED BY <1>4, <1>5, <1>6, <1>7, <1>8, <1>9 DEF LinkInv, TypeInv

LEMMA Step == ASSUME LinkAssumption, LinkInv, LinkNext PROVE LinkInv'
<1>1. TypeInv /\ FrameInv /\ WaitInv /\ LinkTypeOK BY DEF LinkInv, TypeInv
<1>2. CASE Boot \/ DialAgain
  BY <1>1, <1>2, BootChannel, DialChannel, BootFrames, BootWait DEF LinkInv
<1>3. CASE Connection \/ DropClient
  <2>1. CASE Take BY <1>1, <1>3, <2>1, TakeChannel, TakeFrames, ConnectionWait DEF LinkInv
  <2>2. CASE \/ Written \/ Read \/ Eof \/ NotLive \/ Drain \/ FireDisconnected \/ FireConnected
             \/ DropClient
    BY <1>1, <1>3, <2>2, ConnectionChannel, ConnectionFrames, ConnectionWait DEF LinkInv
  <2> QED BY <1>3, <2>1, <2>2 DEF Connection
<1>4. CASE Peer BY <1>1, <1>4, PeerChannel, PeerFrames, PeerWait DEF LinkInv
<1>5. ASSUME NEW r \in Reqs, Gate(r) \/ Send(r) \/ Timeout(r) PROVE LinkInv'
  BY <1>1, <1>5, CallChannel, CallFrames, CallWait DEF LinkInv
<1> QED BY <1>1, <1>2, <1>3, <1>4, <1>5, Cases

LEMMA Stutter == ASSUME LinkInv, UNCHANGED link_vars PROVE LinkInv'
<1>1. UNCHANGED <<task, tries, suspects, refused, live, state, caller, via, answer, cmdq, nextId,
                  pending, writing, conn, up, down, peer, busy, outq, held, notified, ran, pushes>>
  BY DEF link_vars
<1>2. UNCHANGED <<dialVars, callVars, taskVars, peerVars>>
  BY <1>1 DEF dialVars, callVars, taskVars, peerVars
<1>3. LinkTypeOK' BY <1>1, <1>2, Parts, SameParts DEF LinkInv, TypeInv
<1>4. Elems(cmdq)' = Elems(cmdq) /\ Elems(up)' = Elems(up) BY <1>1 DEF Elems
<1>5. Sent' = Sent /\ Left' = Left BY <1>1, <1>4 DEF Sent, Left
<1>6. Writes' /\ Known' /\ Suspected' /\ Counted' /\ Queued'
  BY <1>1, <1>4, <1>5 DEF LinkInv, TypeInv, Writes, Known, Suspected, Counted, Queued
<1>7. FrameInv'
  <2>1. Wire' \subseteq Wire /\ Distinct' BY <1>1, WireSame DEF LinkInv, FrameInv
  <2>2. Responses' \subseteq Responses BY <1>1, ResponsesSame
  <2> QED BY <1>1, <1>5, <2>1, <2>2, FramesShrink DEF LinkInv, TypeInv, FrameInv, Answered
<1>8. WaitInv' BY <1>1, WaitSame DEF LinkInv
<1> QED BY <1>3, <1>6, <1>7, <1>8 DEF LinkInv, TypeInv

\* The invariant of every connection, caller and queue, for any constants as assumed.
THEOREM LinkInvariant == ASSUME LinkAssumption PROVE LinkSpec => []LinkInv
<1>1. LinkInit => LinkInv BY Start
<1>2. LinkInv /\ [LinkNext]_link_vars => LinkInv' BY Step, Stutter
<1> QED BY <1>1, <1>2, PTL DEF LinkSpec

\* DaemonClient, its queues and the daemon's queue keep their types and bounds: an id is left for
\* every request, whatever was timed out, refused or requeued by a reconnect.
THEOREM LinkTypeCorrect == ASSUME LinkAssumption PROVE LinkSpec => []LinkTypeOK
<1>1. LinkInv => LinkTypeOK BY DEF LinkInv, TypeInv
<1> QED BY <1>1, LinkInvariant, PTL

\* drain_pending and the gate of request_inner leave nobody waiting in flight while the task
\* redials or after it gave up.
THEOREM StrandedTheorem == ASSUME LinkAssumption PROVE LinkSpec => []NoneStranded
<1>1. LinkInv => NoneStranded
  <2>1. SUFFICES ASSUME LinkInv, task \in {"dial", "gone"}, NEW r \in Reqs, caller[r] = "wait"
                 PROVE  r \in InQueue
    BY DEF NoneStranded
  <2>2. NoReq \notin Reqs \/ r \in Elems(cmdq) \/ r = NoReq
    BY <2>1 DEF LinkInv, WaitInv, Reach, Idle
  <2>3. NoReq \notin Reqs BY DEF LinkAssumption
  <2> QED BY <2>1, <2>3 DEF LinkInv, WaitInv, Reach, Idle, Elems, InQueue
<1> QED BY <1>1, LinkInvariant, PTL

\* connect_with_retry gives up with Disconnected only after an attempt found nobody listening.
THEOREM EscalatesTheorem == ASSUME LinkAssumption PROVE LinkSpec => []BootEscalates
<1>1. LinkInv => BootEscalates BY DEF LinkInv, WaitInv, Escalated, BootEscalates
<1> QED BY <1>1, LinkInvariant, PTL

-----------------------------------------------------------------------------
(* ClientLink implements RequestLink                                       *)

LEMMA NoRequestStep ==
  ASSUME UNCHANGED <<caller, answer, ran>>
  PROVE  UNCHANGED Requests!request_vars
BY DEF Requests!request_vars

LEMMA FailStep ==
  ASSUME LinkTypeOK, NEW who, FailedAll(who),
         caller' \in [Reqs -> {"new", "send", "wait", "ok", "failed", "refused"}],
         UNCHANGED <<answer, ran>>
  PROVE  Requests!RequestNext
<1>1. PICK lost \in SUBSET Reqs : lost = {r \in Reqs : r \in who /\ caller[r] = "wait"} OBVIOUS
<1>2. Requests!Fail(lost) BY <1>1 DEF Requests!Fail, FailedAll
<1>3. \A r \in lost : r \in Reqs /\ caller[r] \in {"send", "wait"} BY <1>1
<1> QED BY <1>2, <1>3 DEF Requests!RequestNext

LEMMA RequestStep ==
  ASSUME LinkAssumption, LinkInv, LinkNext
  PROVE  [Requests!RequestNext]_(Requests!request_vars)
<1>1. TypeInv /\ FrameInv /\ LinkTypeOK /\ CallPart /\ PeerPart BY Parts DEF LinkInv, TypeInv
<1>2. LinkTypeOK' /\ CallPart' BY Step, Parts DEF LinkInv, TypeInv
<1>3. ASSUME NEW who, Fails(who), UNCHANGED <<via, answer, ran>>
      PROVE  Requests!RequestNext
  <2>1. FailedAll(who) BY <1>1, <1>3, FailsLemma
  <2> QED BY <1>1, <1>2, <1>3, <2>1, FailStep DEF CallPart
<1>4. CASE Boot \/ DialAgain
  <2>1. UNCHANGED <<caller, answer, ran>> \/ (Fails(InQueue) /\ UNCHANGED <<via, answer, ran>>)
    <3>1. CASE Boot
      BY <3>1 DEF Boot, BootAccept, Accept, BootRefused, BootTransient, BootIncompatible, BootTry,
                  callVars, peerVars
    <3>2. CASE DialAgain
      BY <3>2 DEF DialAgain, DialAccept, Accept, DialRefused, DialTransient, DialIncompatible,
                  GiveUp, callVars, peerVars
    <3> QED BY <1>4, <3>1, <3>2
  <2> QED BY <1>3, <2>1, NoRequestStep
<1>5. CASE DropClient BY <1>5, NoRequestStep DEF DropClient, callVars, peerVars
<1>6. CASE Connection
  <2>1. CASE Take
    <3>1. UNCHANGED <<caller, answer, ran>>
          \/ (Fails({Head(cmdq)}) /\ UNCHANGED <<via, answer, ran>>)
      BY <2>1 DEF Take, peerVars
    <3> QED BY <1>3, <3>1, NoRequestStep
  <2>2. CASE Drain
    <3>1. Fails(InFlight) /\ UNCHANGED <<via, answer, ran>>
      BY <2>2 DEF Drain, DrainPending, peerVars
    <3> QED BY <1>3, <3>1
  <2>3. CASE Read
    <3> DEFINE f == Head(down)
               r == IF f = Push THEN NoReq ELSE pending[f.id]
    <3>1. UNCHANGED ran BY <2>3 DEF Read, peerVars
    <3>2. CASE UNCHANGED <<caller, answer>> BY <3>1, <3>2, NoRequestStep
    <3>3. CASE r # NoReq /\ caller[r] = "wait"
      <4>1. f # Push /\ pending[f.id] # NoReq BY <3>3
      <4>2. r = f.of /\ r \in Reqs /\ ran[r] = 1 BY <1>1, <2>3, <4>1, OwnResponse
      <4>3. caller' = [caller EXCEPT ![r] = "ok"] /\ answer' = [answer EXCEPT ![r] = r]
        BY <2>3, <3>3, <4>2 DEF Read
      <4> HIDE DEF f, r
      <4>4. PICK q \in Reqs : q = r BY <4>2
      <4>5. Requests!Answer(q)
        BY <1>1, <3>1, <3>3, <4>2, <4>3, <4>4 DEF Requests!Answer, CallPart
      <4> QED BY <4>5 DEF Requests!RequestNext
    <3> QED BY <2>3, <3>2, <3>3 DEF Read
  <2>4. CASE Written \/ Eof \/ NotLive \/ FireDisconnected \/ FireConnected
    BY <2>4, NoRequestStep
       DEF Written, Eof, NotLive, FireDisconnected, FireConnected, callVars, peerVars
  <2> QED BY <1>6, <2>1, <2>2, <2>3, <2>4 DEF Connection
<1>7. CASE Peer
  <2>1. CASE Reply
    <3> DEFINE r == busy.of
    <3>1. ran[r] = 0 /\ r \in Left /\ r \notin Big BY <1>1, <2>1, ReplyFrames
    <3>2. r \in Reqs /\ caller[r] \in {"wait", "failed"}
      BY <3>1, <1>1 DEF Left, Sent, FrameInv, Answered
    <3>3. ran' = [ran EXCEPT ![r] = ran[r] + 1] /\ UNCHANGED <<caller, answer>>
      BY <2>1 DEF Reply, callVars
    <3> HIDE DEF r
    <3>4. ran' = [ran EXCEPT ![r] = 1] BY <3>1, <3>3
    <3>5. Requests!Run(r) BY <3>1, <3>2, <3>3, <3>4 DEF Requests!Run
    <3> QED BY <3>2, <3>5 DEF Requests!RequestNext
  <2>2. CASE ~Reply
    <3>1. UNCHANGED <<caller, answer, ran>>
      BY <1>7, <2>2, PeerSame
         DEF Peer, Dispatch, Leave, Broadcast, SinkPush, Writer, WriterTake, WriterWrite, Close,
             callVars
    <3> QED BY <3>1, NoRequestStep
  <2> QED BY <2>1, <2>2
<1>8. ASSUME NEW r \in Reqs, Gate(r) \/ Send(r) \/ Timeout(r)
      PROVE  [Requests!RequestNext]_(Requests!request_vars)
  <2>1. UNCHANGED <<answer, ran>> BY <1>8 DEF Gate, Send, Timeout, peerVars
  <2>2. CASE Gate(r)
    <3>1. caller[r] = "new" /\ caller' \in {[caller EXCEPT ![r] = "send"], [caller EXCEPT ![r] = "refused"]}
      BY <2>2 DEF Gate
    <3>2. CASE caller' = [caller EXCEPT ![r] = "send"]
      <4>1. Requests!Ask(r) BY <1>1, <2>1, <3>1, <3>2 DEF Requests!Ask, CallPart
      <4> QED BY <4>1 DEF Requests!RequestNext
    <3>3. CASE caller' = [caller EXCEPT ![r] = "refused"]
      <4>1. Requests!Refuse(r) BY <1>1, <2>1, <3>1, <3>3 DEF Requests!Refuse, CallPart
      <4> QED BY <4>1 DEF Requests!RequestNext
    <3> QED BY <3>1, <3>2, <3>3
  <2>3. CASE Send(r)
    <3>1. caller[r] = "send" BY <2>3 DEF Send
    <3>2. CASE caller' = [caller EXCEPT ![r] = "failed"]
      <4>1. Requests!Fail({r}) BY <1>1, <2>1, <3>1, <3>2 DEF Requests!Fail, CallPart
      <4> QED BY <3>1, <4>1 DEF Requests!RequestNext
    <3>3. CASE caller' = [caller EXCEPT ![r] = "wait"]
      <4>1. [q \in Reqs |-> IF caller'[q] \in {"send", "wait"} THEN "asked" ELSE caller'[q]]
            = [q \in Reqs |-> IF caller[q] \in {"send", "wait"} THEN "asked" ELSE caller[q]]
        BY <1>1, <3>1, <3>3 DEF CallPart
      <4> QED BY <2>1, <4>1 DEF Requests!request_vars
    <3> QED BY <2>3, <3>2, <3>3 DEF Send
  <2>4. CASE Timeout(r)
    <3>1. Fails({r}) /\ UNCHANGED <<via, answer>> BY <2>4 DEF Timeout
    <3> QED BY <1>3, <2>1, <3>1
  <2> QED BY <1>8, <2>2, <2>3, <2>4
<1> QED BY <1>1, <1>4, <1>5, <1>6, <1>7, <1>8, Cases

\* request_inner, the connection task, handle_client and its writer together implement RequestLink:
\* at most one dispatch for a request, and its caller gets the response to it or a failure.
THEOREM RequestsTheorem == ASSUME LinkAssumption PROVE LinkSpec => RequestsServed
<1>1. LinkInit => Requests!RequestInit BY DEF LinkInit, Requests!RequestInit
<1>2. LinkInv /\ [LinkNext]_link_vars => [Requests!RequestNext]_(Requests!request_vars)
  <2>1. UNCHANGED link_vars => UNCHANGED <<caller, answer, ran>> BY DEF link_vars
  <2> QED BY <2>1, NoRequestStep, RequestStep
<1> QED BY <1>1, <1>2, LinkInvariant, PTL DEF LinkSpec, RequestsServed, Requests!RequestSpec

=============================================================================
