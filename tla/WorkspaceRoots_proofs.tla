------------------------ MODULE WorkspaceRoots_proofs ------------------------
(***************************************************************************)
(* For any number of workspaces, roots and commands, any queue and any     *)
(* number of others' changes and lost connections: WorkspaceRoots is type  *)
(* correct, and what a command is told of workspaces that are its own is   *)
(* what the core's copy says of them (OwnWordHolds).                       *)
(*                                                                         *)
(* An answer is worth something when the command was alone on its          *)
(* workspaces: Current says where it may be and that no push behind it     *)
(* says otherwise.  The daemon's steps that touch a workspace share        *)
(* TouchCurrent, and those after which a command waits no more OverStep.   *)
(***************************************************************************)
EXTENDS WorkspaceRoots, SequenceTheorems, TLAPS

\* The answer is no, or about the workspaces the command is on.
Fits(ans, c) == ans = Refusal \/ DOMAIN ans = cmd[c].on

Pending ==
    \A i \in DOMAIN reqs : LET c == reqs[i].by IN
        /\ cmd[c].st \in {"asked", "over"} /\ cmd[c].verb = reqs[i].verb
        /\ reqs[i].verb # "list" => cmd[c].on = {reqs[i].on} /\ reqs[i].on \in born
        /\ reply.to # c
        /\ \A p \in DOMAIN frames : frames[p].to # c
        /\ \A j \in DOMAIN reqs : reqs[j].by = c => j = i

Answered ==
    /\ reply # NoReply => cmd[reply.to].st # "new" /\ Fits(reply.ans, reply.to)
    /\ \A p \in DOMAIN frames : frames[p].kind = "reply" =>
         cmd[frames[p].to].st # "new" /\ Fits(frames[p].ans, frames[p].to)
    /\ \A c \in Cmds :
         /\ cmd[c].st = "answered" => Fits(cmd[c].ans, c)
         /\ cmd[c].verb = "list" => cmd[c].on = Folders

Born ==
    /\ leaving \subseteq born
    /\ \A f \in Folders :
         /\ db[f] # {} => f \in born
         /\ f \in leaving => db[f] = {}
    /\ \A i \in DOMAIN reqs : reqs[i].verb = "create" =>
         /\ db[reqs[i].on] = {} /\ reqs[i].on \notin leaving
         /\ \A j \in DOMAIN reqs : reqs[j].verb = "create" /\ reqs[j].on = reqs[i].on => j = i

Solitude ==
    /\ \A c \in alone : Waits(c)
    /\ \A c \in alone, d \in Cmds : Waits(d) /\ d # c => cmd[c].on \cap cmd[d].on = {}
    /\ \A c \in Cmds : Waits(c) => cmd[c].on \cap settled = {}

\* A push of the workspace says what the daemon's database does.
Says(m, f) == m.kind = "push" /\ f \in DOMAIN m.ans => m.ans[f] = db[f]

\* The answer says so of all its workspaces.
IsSo(ans, c) == \A f \in cmd[c].on : ans[f] = db[f]

Current ==
    /\ \A f \in settled : Known[f] = db[f] /\ \A n \in DOMAIN frames : Says(frames[n], f)
    /\ reply.to \in alone /\ cmd[reply.to].st = "asked" /\ reply.ans # Refusal => IsSo(reply.ans, reply.to)
    /\ \A p \in DOMAIN frames : LET m == frames[p] IN
         m.kind = "reply" /\ m.to \in alone /\ cmd[m.to].st = "asked" /\ m.ans # Refusal =>
           /\ IsSo(m.ans, m.to)
           /\ \A n \in DOMAIN frames, f \in cmd[m.to].on : n > p => Says(frames[n], f)
    /\ \A c \in alone : cmd[c].st = "answered" /\ cmd[c].ans # Refusal =>
         /\ IsSo(cmd[c].ans, c)
         /\ \A n \in DOMAIN frames, f \in cmd[c].on : Says(frames[n], f)

CopyInv == Pending /\ Answered /\ Born /\ Solitude /\ Current

----------------------------------------------------------------------------
\* The word on one workspace.
LEMMA WordIs ==
    ASSUME NEW f \in Folders, NEW R \in SUBSET Roots
    PROVE  Word(f, R) \in Words /\ DOMAIN Word(f, R) = {f} /\ Word(f, R)[f] = R
<1>1. Word(f, R) \in [{f} -> SUBSET Roots] /\ {f} \in SUBSET Folders
  BY DEF Word
<1>. QED
  BY <1>1 DEF Words, Word

\* The answer of a refused request is of no workspace.
LEMMA RefusalIs == Refusal \in Words /\ DOMAIN Refusal = {}
<1>1. Refusal \in [{} -> SUBSET Roots] /\ {} \in SUBSET Folders
  BY DEF Refusal
<1>. QED
  BY <1>1 DEF Words, Refusal

\* What a word may be.
LEMMA WordsAre ==
    ASSUME NEW ans \in Words
    PROVE  DOMAIN ans \subseteq Folders /\ \A f \in DOMAIN ans : ans[f] \in SUBSET Roots
<1>1. PICK F \in SUBSET Folders : ans \in [F -> SUBSET Roots]
  BY DEF Words
<1>. QED
  BY <1>1

\* What is on its way, and what an append or a removal at the head makes of it.
LEMMA ReqAt == ASSUME RootsTypeOK, NEW i \in DOMAIN reqs
               PROVE  reqs[i] \in RootRequests /\ i \in Nat /\ reqs[i].by \in Cmds
<1>1. reqs \in Seq(RootRequests)
  BY DEF RootsTypeOK
<1>2. reqs[i] \in RootRequests /\ i \in Nat
  BY <1>1
<1>. QED
  BY <1>2 DEF RootRequests

\* A push is for nobody, a reply for a command.
LEMMA FrameAt == ASSUME RootsTypeOK, NEW p \in DOMAIN frames
                 PROVE  /\ frames[p] \in RootFrames /\ p \in Nat /\ frames[p].ans \in Words
                        /\ \/ frames[p].kind = "push" /\ frames[p].to = Nobody
                           \/ frames[p].kind = "reply" /\ frames[p].to \in Cmds
<1>1. frames \in Seq(RootFrames)
  BY DEF RootsTypeOK
<1>2. frames[p] \in RootFrames /\ p \in Nat
  BY <1>1
<1>. QED
  BY <1>2 DEF RootFrames

\* The head is the first, and the rest keeps its order.
LEMMA TailAt ==
    ASSUME NEW S, NEW q \in Seq(S), q # <<>>
    PROVE  /\ Tail(q) \in Seq(S) /\ Head(q) \in S /\ Head(q) = q[1] /\ 1 \in DOMAIN q
           /\ \A n \in DOMAIN Tail(q) : n \in Nat /\ n >= 1 /\ n + 1 \in DOMAIN q /\ Tail(q)[n] = q[n + 1]
<1>1. Len(q) \in Nat /\ Len(q) # 0 /\ DOMAIN q = 1 .. Len(q)
  BY EmptySeq
<1>2. /\ Tail(q) \in Seq(S) /\ Head(q) \in S /\ Head(q) = q[1] /\ Len(Tail(q)) = Len(q) - 1
      /\ \A n \in 1 .. Len(q) - 1 : Tail(q)[n] = q[n + 1]
  BY HeadTailProperties
<1>3. DOMAIN Tail(q) = 1 .. Len(q) - 1
  BY <1>1, <1>2
<1>. QED
  BY <1>1, <1>2, <1>3

\* What is appended comes after everything that is there.
LEMMA AppendAt ==
    ASSUME NEW S, NEW q \in Seq(S), NEW m \in S
    PROVE  /\ Append(q, m) \in Seq(S)
           /\ \A n \in DOMAIN q : n \in DOMAIN Append(q, m)
           /\ \A n \in DOMAIN Append(q, m) :
                \/ n \in DOMAIN q /\ Append(q, m)[n] = q[n]
                \/ Append(q, m)[n] = m /\ \A k \in DOMAIN q : n > k
           /\ \A n, k \in DOMAIN Append(q, m) : n \notin DOMAIN q /\ k \notin DOMAIN q => n = k
<1>1. Len(q) \in Nat /\ DOMAIN q = 1 .. Len(q)
  OBVIOUS
<1>2. /\ Append(q, m) \in Seq(S) /\ Len(Append(q, m)) = Len(q) + 1
      /\ \A n \in 1 .. Len(q) : Append(q, m)[n] = q[n]
      /\ Append(q, m)[Len(q) + 1] = m
  BY AppendProperties
<1>3. DOMAIN Append(q, m) = 1 .. Len(q) + 1
  BY <1>1, <1>2
<1>. QED
  BY <1>1, <1>2, <1>3

\* How far a command is.
LEMMA CmdIs == ASSUME RootsTypeOK, NEW c \in Cmds
               PROVE  cmd[c] \in Commands /\ cmd[c].on \subseteq Folders /\ cmd[c].ans \in Words
  BY DEF RootsTypeOK, Commands

----------------------------------------------------------------------------
(* The core's copy *)

\* A copy never loaded knows no root.
LEMMA KnownIs == ASSUME RootsTypeOK PROVE Known \in [Folders -> SUBSET Roots]
  BY DEF RootsTypeOK, Known

\* An answer changes what the copy says of the workspaces it names and of no other, even when a
\* copy that was never loaded is left alone.
LEMMA UpsertIs ==
    ASSUME RootsTypeOK, NEW ans \in Words, cache' = Upsert(ans)
    PROVE  /\ cache' \in {NeverLoaded} \cup [Folders -> SUBSET Roots]
           /\ \A f \in Folders : Known'[f] = IF f \in DOMAIN ans THEN ans[f] ELSE Known[f]
<1>1. DOMAIN ans \subseteq Folders /\ \A f \in DOMAIN ans : ans[f] \in SUBSET Roots
  BY WordsAre
<1>2. CASE cache = NeverLoaded /\ \A f \in DOMAIN ans : ans[f] = {}
  <2>1. cache' = NeverLoaded
    BY <1>2 DEF Upsert
  <2>. QED
    BY <1>1, <1>2, <2>1 DEF Known
<1>3. CASE ~ (cache = NeverLoaded /\ \A f \in DOMAIN ans : ans[f] = {})
  <2>1. cache' = Amended(ans)
    BY <1>3 DEF Upsert
  <2>2. Amended(ans) \in [Folders -> SUBSET Roots]
    BY <1>1, KnownIs DEF Amended
  <2>3. cache' # NeverLoaded
    BY <2>1, <2>2, RootsAssumption
  <2>4. Known' = Amended(ans)
    BY <2>1, <2>3 DEF Known
  <2>. QED
    BY <2>1, <2>2, <2>4 DEF Amended
<1>. QED
  BY <1>2, <1>3

\* A list is the copy.
LEMMA LoadIs ==
    ASSUME NEW ans \in Words, DOMAIN ans = Folders, cache' = Load(ans)
    PROVE  cache' \in [Folders -> SUBSET Roots] /\ Known' = ans
<1>1. ans \in [Folders -> SUBSET Roots]
  BY DEF Words
<1>2. ans # NeverLoaded
  BY <1>1, RootsAssumption
<1>. QED
  BY <1>1, <1>2 DEF Load, Known

----------------------------------------------------------------------------
(* What the daemon sends *)

\* Of the frames that come, each says of f alone what the database does.
Pushes(f) ==
    /\ frames' \in Seq(RootFrames)
    /\ \A n \in DOMAIN frames' :
         \/ n \in DOMAIN frames /\ frames'[n] = frames[n]
         \/ /\ frames'[n].kind = "push" /\ frames'[n].to = Nobody
            /\ DOMAIN frames'[n].ans = {f} /\ frames'[n].ans[f] = db'[f]

\* A push that finds no room is skipped, and that is all the difference.
LEMMA PushedIs ==
    ASSUME RootsTypeOK, NEW f \in Folders, db'[f] \in SUBSET Roots,
           frames' = Pushed(frames, f, db'[f])
    PROVE  Pushes(f)
<1>1. frames \in Seq(RootFrames)
  BY DEF RootsTypeOK
<1>2. PICK m : m = [kind |-> "push", to |-> Nobody, ans |-> Word(f, db'[f])]
  OBVIOUS
<1>3. /\ m \in RootFrames /\ m.kind = "push" /\ m.to = Nobody
      /\ DOMAIN m.ans = {f} /\ m.ans[f] = db'[f]
  BY <1>2, WordIs DEF RootFrames
<1>4. frames' = Append(frames, m) \/ frames' = frames
  BY <1>2 DEF Pushed
<1>. QED
  BY <1>1, <1>3, <1>4, AppendAt DEF Pushes

\* A step of the daemon on one workspace.
Touches(f) ==
    /\ db' \in [Folders -> SUBSET Roots]
    /\ \A g \in Folders : g # f => db'[g] = db[g]
    /\ Pushes(f)
    /\ UNCHANGED <<cmd, cache>>
    /\ alone' \subseteq alone /\ settled' \subseteq settled

\* What comes of the copy and of the answers that are on their way, but for the handler's.
CurrentCopy ==
    /\ \A f \in settled : Known[f] = db[f] /\ \A n \in DOMAIN frames : Says(frames[n], f)
    /\ \A p \in DOMAIN frames : LET m == frames[p] IN
         m.kind = "reply" /\ m.to \in alone /\ cmd[m.to].st = "asked" /\ m.ans # Refusal =>
           /\ IsSo(m.ans, m.to)
           /\ \A n \in DOMAIN frames, f \in cmd[m.to].on : n > p => Says(frames[n], f)
    /\ \A c \in alone : cmd[c].st = "answered" /\ cmd[c].ans # Refusal =>
         /\ IsSo(cmd[c].ans, c)
         /\ \A n \in DOMAIN frames, f \in cmd[c].on : Says(frames[n], f)

CurrentReply ==
    reply.to \in alone /\ cmd[reply.to].st = "asked" /\ reply.ans # Refusal => IsSo(reply.ans, reply.to)

\* The two halves of Current.
LEMMA CurrentIs == Current <=> CurrentCopy /\ CurrentReply
  BY DEF Current, CurrentCopy, CurrentReply

\* Nothing that was said of f before is still to be heeded.
Unheard(f) ==
    /\ f \notin settled'
    /\ \A c \in alone' : f \in cmd[c].on =>
         cmd[c].st # "answered" /\ \A p \in DOMAIN frames : frames[p].to # c

\* Of a workspace that changes, nothing said before is heeded any more, and what comes says the
\* change; of the others nothing is said.
LEMMA TouchCurrent ==
    ASSUME RootsTypeOK, CopyInv, NEW f \in Folders, Touches(f), db'[f] = db[f] \/ Unheard(f)
    PROVE  CurrentCopy'
<1>0. CurrentCopy
  BY CurrentIs DEF CopyInv
<1>1. Known' = Known /\ cmd' = cmd /\ alone' \subseteq alone /\ settled' \subseteq settled
  BY DEF Touches, Known
<1>t. /\ settled' \subseteq Folders /\ alone' \subseteq Cmds
      /\ \A c \in Cmds : cmd[c].on \subseteq Folders
  BY CmdIs DEF Touches, RootsTypeOK
<1>2. ASSUME NEW n \in DOMAIN frames', NEW g \in Folders, db'[g] = db[g],
             n \in DOMAIN frames => Says(frames[n], g)
      PROVE  Says(frames[n], g)'
  <2>1. CASE n \in DOMAIN frames /\ frames'[n] = frames[n]
    BY <1>2, <2>1 DEF Says
  <2>2. CASE DOMAIN frames'[n].ans = {f} /\ frames'[n].ans[f] = db'[f]
    BY <2>2 DEF Says
  <2>. QED
    BY <2>1, <2>2 DEF Touches, Pushes
<1>3. \A g \in Folders : db'[g] = db[g] \/ (g = f /\ Unheard(f))
  BY DEF Touches
<1>4. ASSUME NEW g \in settled'
      PROVE  Known'[g] = db'[g] /\ \A n \in DOMAIN frames' : Says(frames[n], g)'
  <2>1. g \in settled /\ g \in Folders /\ db'[g] = db[g]
    BY <1>1, <1>3, <1>4, <1>t DEF Unheard
  <2>. QED
    BY <1>0, <1>1, <1>2, <2>1 DEF CurrentCopy
<1>5. ASSUME NEW p \in DOMAIN frames', frames'[p].kind = "reply", frames'[p].to \in alone',
             cmd'[frames'[p].to].st = "asked", frames'[p].ans # Refusal
      PROVE  /\ IsSo(frames[p].ans, frames[p].to)'
             /\ \A n \in DOMAIN frames', g \in cmd'[frames'[p].to].on : n > p => Says(frames[n], g)'
  <2>1. p \in DOMAIN frames /\ frames'[p] = frames[p]
    BY <1>5 DEF Touches, Pushes
  <2>2. PICK c \in Cmds : c = frames[p].to /\ c \in alone /\ c \in alone' /\ c = frames'[p].to
    BY <1>1, <1>5, <1>t, <2>1
  <2>3. \A g \in cmd[c].on : g \in Folders /\ db'[g] = db[g]
    BY <1>3, <1>t, <2>1, <2>2 DEF Unheard
  <2>4. /\ IsSo(frames[p].ans, c)
        /\ \A n \in DOMAIN frames, g \in cmd[c].on : n > p => Says(frames[n], g)
    BY <1>0, <1>1, <1>5, <2>1, <2>2 DEF CurrentCopy
  <2>5. IsSo(frames[p].ans, frames[p].to)'
    BY <1>1, <2>1, <2>2, <2>3, <2>4 DEF IsSo
  <2>. QED
    BY <1>1, <1>2, <2>2, <2>3, <2>4, <2>5
<1>6. ASSUME NEW c \in alone', cmd'[c].st = "answered", cmd'[c].ans # Refusal
      PROVE  /\ IsSo(cmd[c].ans, c)'
             /\ \A n \in DOMAIN frames', g \in cmd'[c].on : Says(frames[n], g)'
  <2>1. c \in alone /\ c \in Cmds
    BY <1>1, <1>6, <1>t
  <2>2. \A g \in cmd[c].on : g \in Folders /\ db'[g] = db[g]
    BY <1>1, <1>3, <1>6, <1>t, <2>1 DEF Unheard
  <2>3. /\ IsSo(cmd[c].ans, c)
        /\ \A n \in DOMAIN frames, g \in cmd[c].on : Says(frames[n], g)
    BY <1>0, <1>1, <1>6, <2>1 DEF CurrentCopy
  <2>4. IsSo(cmd[c].ans, c)'
    BY <1>1, <2>2, <2>3 DEF IsSo
  <2>. QED
    BY <1>1, <1>2, <2>2, <2>3, <2>4
<1>. QED
  BY <1>4, <1>5, <1>6 DEF CurrentCopy

----------------------------------------------------------------------------
\* The requests that are left, in their order.
Fewer(off) ==
    /\ reqs' \in Seq(RootRequests)
    /\ \A i \in DOMAIN reqs' : i \in Nat /\ i + off \in DOMAIN reqs /\ reqs'[i] = reqs[i + off]

\* No request leaves.
LEMMA SameReqs == ASSUME RootsTypeOK, UNCHANGED reqs PROVE Fewer(0)
<1>1. \A i \in DOMAIN reqs : i \in Nat /\ i + 0 = i
  BY ReqAt
<1>. QED
  BY <1>1 DEF RootsTypeOK, Fewer

\* The handler takes the first request; its caller has no other on its way.
LEMMA HandledIs ==
    ASSUME RootsTypeOK, NEW q, Handles(q)
    PROVE  /\ q \in RootRequests /\ 1 \in DOMAIN reqs /\ q = reqs[1] /\ Fewer(1)
           /\ \A i \in DOMAIN reqs' : i + 1 # 1
           /\ reply = NoReply /\ q.by \in Cmds
<1>1. reqs \in Seq(RootRequests) /\ reqs # <<>>
  BY DEF RootsTypeOK, Handles
<1>2. /\ Tail(reqs) \in Seq(RootRequests) /\ Head(reqs) \in RootRequests /\ Head(reqs) = reqs[1]
      /\ 1 \in DOMAIN reqs
      /\ \A n \in DOMAIN Tail(reqs) : n \in Nat /\ n >= 1 /\ n + 1 \in DOMAIN reqs
                                      /\ Tail(reqs)[n] = reqs[n + 1]
  BY <1>1, TailAt
<1>3. q = reqs[1] /\ reqs' = Tail(reqs) /\ q = Head(reqs) /\ reply = NoReply
  BY <1>2 DEF Handles
<1>4. Fewer(1)
  BY <1>2, <1>3 DEF Fewer
<1>5. q.by \in Cmds
  BY <1>2, <1>3, ReqAt
<1>. QED
  BY <1>2, <1>3, <1>4, <1>5

\* Requests leave in order, and nobody is answered twice.
LEMMA PendingFewer ==
    ASSUME RootsTypeOK, CopyInv, NEW off \in {0, 1}, Fewer(off), born \subseteq born',
           \A c \in Cmds : cmd'[c].verb = cmd[c].verb /\ cmd'[c].on = cmd[c].on,
           \A i \in DOMAIN reqs' :
             /\ cmd'[reqs'[i].by].st \in {"asked", "over"} /\ reply'.to # reqs'[i].by
             /\ \A p \in DOMAIN frames' : frames'[p].to # reqs'[i].by
    PROVE  Pending'
<1>1. SUFFICES ASSUME NEW i \in DOMAIN reqs'
               PROVE  /\ cmd'[reqs'[i].by].st \in {"asked", "over"}
                      /\ cmd'[reqs'[i].by].verb = reqs'[i].verb
                      /\ reqs'[i].verb # "list" =>
                           cmd'[reqs'[i].by].on = {reqs'[i].on} /\ reqs'[i].on \in born'
                      /\ reply'.to # reqs'[i].by
                      /\ \A p \in DOMAIN frames' : frames'[p].to # reqs'[i].by
                      /\ \A j \in DOMAIN reqs' : reqs'[j].by = reqs'[i].by => j = i
  BY DEF Pending
<1>2. \A j \in DOMAIN reqs' : j \in Nat /\ j + off \in DOMAIN reqs /\ reqs'[j] = reqs[j + off]
  BY DEF Fewer
<1>3. PICK k \in DOMAIN reqs : k = i + off /\ reqs'[i] = reqs[k] /\ reqs[k].by \in Cmds
  BY <1>2, ReqAt
<1>4. /\ cmd[reqs[k].by].verb = reqs[k].verb
      /\ reqs[k].verb # "list" => cmd[reqs[k].by].on = {reqs[k].on} /\ reqs[k].on \in born
      /\ \A j \in DOMAIN reqs : reqs[j].by = reqs[k].by => j = k
  BY DEF CopyInv, Pending
<1>5. ASSUME NEW j \in DOMAIN reqs', reqs'[j].by = reqs'[i].by PROVE j = i
  <2>1. j + off = i + off
    BY <1>2, <1>3, <1>4, <1>5
  <2>. QED
    BY <1>2, <2>1
<1>. QED
  BY <1>3, <1>4, <1>5

\* What a commit does to the workspaces.
Commits(verb, f) ==
    /\ db' \in [Folders -> SUBSET Roots]
    /\ \A g \in Folders : g # f => db'[g] = db[g]
    /\ born' = born \cup {f}
    /\ verb # "create" => db[f] # {}
    /\ leaving' \subseteq leaving \cup {f}
    /\ f \in leaving' => f \in leaving \/ db'[f] = {}
    /\ f \in leaving' /\ verb # "create" => db[f] = {} \/ db'[f] = {} \/ f \in leaving
    /\ Pushes(f)

\* Every verb is such a commit, with its broadcast.
LEMMA CommitIs ==
    ASSUME RootsTypeOK, NEW verb \in Verbs, NEW f \in Folders, NEW R \in SUBSET Roots,
           Commit(verb, f, R)
    PROVE  Commits(verb, f)
<1>1. /\ After(verb, f, R) \in [Folders -> SUBSET Roots]
      /\ \A g \in Folders : g # f => After(verb, f, R)[g] = db[g]
      /\ verb = "remove" => After(verb, f, R)[f] = {}
  BY DEF After, Verbs, RootsTypeOK
<1>2. db' = After(verb, f, R) /\ ~ Refused(verb, f, R) /\ born' = born \cup {f}
  BY DEF Commit
<1>3. verb # "create" => db[f] # {}
  BY <1>2 DEF Refused
<1>4. Pushes(f)
  <2>1. CASE verb = "remove"
    BY <2>1 DEF Commit, Pushes, RootsTypeOK
  <2>2. CASE verb # "remove"
    BY <1>1, <1>2, <2>2, PushedIs DEF Commit
  <2>. QED
    BY <2>1, <2>2
<1>5. leaving' = IF verb = "remove" THEN leaving \cup {f} ELSE leaving
  BY DEF Commit
<1>. QED
  BY <1>1, <1>2, <1>3, <1>4, <1>5 DEF Commits

\* An id is given once, so a creation on its way finds its workspace as it was.
LEMMA BornCommit ==
    ASSUME RootsTypeOK, CopyInv, NEW verb \in Verbs, NEW f \in Folders, Commits(verb, f),
           NEW off \in {0, 1}, Fewer(off), verb # "create" \/ f \notin leaving,
           \A i \in DOMAIN reqs' : reqs'[i].verb = "create" => verb # "create" \/ reqs'[i].on # f
    PROVE  Born'
<1>1. leaving' \subseteq born'
  BY DEF Commits, CopyInv, Born
<1>t. leaving \subseteq Folders /\ leaving' \subseteq Folders
  BY DEF Commits, RootsTypeOK
<1>2. ASSUME NEW g \in Folders PROVE (db'[g] # {} => g \in born') /\ (g \in leaving' => db'[g] = {})
  <2>1. CASE g # f
    BY <2>1 DEF Commits, CopyInv, Born
  <2>2. CASE g = f
    <3>1. f \in leaving => db[f] = {}
      BY DEF CopyInv, Born
    <3>. QED
      BY <2>2, <3>1 DEF Commits
  <2>. QED
    BY <2>1, <2>2
<1>3. \A j \in DOMAIN reqs' : j \in Nat /\ j + off \in DOMAIN reqs /\ reqs'[j] = reqs[j + off]
  BY DEF Fewer
<1>4. ASSUME NEW i \in DOMAIN reqs', reqs'[i].verb = "create"
      PROVE  /\ db'[reqs'[i].on] = {} /\ reqs'[i].on \notin leaving'
             /\ \A j \in DOMAIN reqs' :
                  reqs'[j].verb = "create" /\ reqs'[j].on = reqs'[i].on => j = i
  <2>1. PICK k \in DOMAIN reqs : k = i + off /\ reqs'[i] = reqs[k]
    BY <1>3
  <2>2. /\ db[reqs[k].on] = {} /\ reqs[k].on \notin leaving
        /\ \A j \in DOMAIN reqs : reqs[j].verb = "create" /\ reqs[j].on = reqs[k].on => j = k
    BY <1>4, <2>1 DEF CopyInv, Born
  <2>3. reqs[k].on \in Folders
    BY <1>4, <2>1, ReqAt DEF RootRequests
  <2>4. reqs[k].on # f
    BY <1>4, <2>1, <2>2 DEF Commits
  <2>5. db'[reqs[k].on] = {} /\ reqs[k].on \notin leaving'
    BY <2>2, <2>3, <2>4 DEF Commits
  <2>6. ASSUME NEW j \in DOMAIN reqs', reqs'[j].verb = "create", reqs'[j].on = reqs'[i].on
        PROVE  j = i
    <3>1. j + off = i + off
      BY <1>3, <2>1, <2>2, <2>6
    <3>. QED
      BY <1>3, <3>1
  <2>. QED
    BY <2>1, <2>5, <2>6
<1>. QED
  BY <1>1, <1>2, <1>4 DEF Born

\* What is said of nobody else's workspaces stays so when history shrinks.
LEMMA SolitudeLess ==
    ASSUME RootsTypeOK, CopyInv, UNCHANGED cmd, alone' \subseteq alone, settled' \subseteq settled
    PROVE  Solitude'
<1>1. alone \subseteq Cmds /\ \A c \in Cmds : Waits(c)' <=> Waits(c)
  BY DEF RootsTypeOK, Waits
<1>. QED
  BY <1>1 DEF CopyInv, Solitude

\* Another client's change.
LEMMA OtherStep ==
    ASSUME RootsTypeOK, CopyInv, NEW verb \in Verbs, NEW f \in Folders, NEW R \in SUBSET Roots,
           Other(verb, f, R)
    PROVE  RootsTypeOK' /\ CopyInv'
<1>1. Commits(verb, f) /\ (verb = "create") # (f \in born)
      /\ UNCHANGED <<reqs, reply, cache, cmd, cuts>> /\ others' = others + 1
  BY CommitIs DEF Other
<1>2. Nobody \notin Cmds
  BY RootsAssumption
<1>3. alone' = alone \ Touching({f}) /\ settled' = settled \ {f}
  <2>1. \A c \in Touching({f}) : c # Nobody
    BY <1>2 DEF Touching
  <2>. QED
    BY <2>1 DEF Other, Disturb
<1>4. Touches(f) /\ Pushes(f)
  BY <1>1, <1>3 DEF Commits, Touches
<1>5. Unheard(f)
  <2>1. ASSUME NEW c \in alone', f \in cmd[c].on PROVE FALSE
    <3>1. c \in Cmds /\ Waits(c) /\ c \notin Touching({f})
      BY <1>3, <2>1 DEF RootsTypeOK, CopyInv, Solitude
    <3>. QED
      BY <2>1, <3>1 DEF Touching
  <2>. QED
    BY <1>3, <2>1 DEF Unheard
<1>6. CurrentCopy'
  BY <1>4, <1>5, TouchCurrent
<1>7. CurrentReply'
  <2>1. SUFFICES ASSUME reply.to \in alone', cmd[reply.to].st = "asked", reply.ans # Refusal
                 PROVE  \A g \in cmd[reply.to].on : reply.ans[g] = db'[g]
    BY <1>1 DEF CurrentReply, IsSo
  <2>2. reply.to \in Cmds /\ reply.to \in alone /\ f \notin cmd[reply.to].on
    BY <1>3, <1>5, <2>1 DEF RootsTypeOK, Unheard, CopyInv, Solitude, Touching
  <2>3. IsSo(reply.ans, reply.to)
    BY <2>1, <2>2, CurrentIs DEF CurrentReply, CopyInv
  <2>4. cmd[reply.to].on \subseteq Folders
    BY <2>2, CmdIs
  <2>. QED
    BY <1>1, <2>2, <2>3, <2>4 DEF Commits, IsSo
<1>8. Fewer(0)
  BY <1>1, SameReqs
<1>9. \A p \in DOMAIN frames' : (p \in DOMAIN frames /\ frames'[p] = frames[p])
                               \/ (frames'[p].to = Nobody /\ frames'[p].kind = "push")
  BY <1>4 DEF Pushes
<1>10. Pending'
  <2>1. \A i \in DOMAIN reqs : reqs[i].by \in Cmds
    BY ReqAt
  <2>2. born \subseteq born'
    BY <1>1 DEF Commits
  <2>. QED
    BY <1>1, <1>2, <1>8, <1>9, <2>1, <2>2, PendingFewer DEF CopyInv, Pending
<1>11. Answered'
  BY <1>1, <1>9 DEF CopyInv, Answered, Fits
<1>12. Born'
  <2>1. verb # "create" \/ f \notin leaving
    BY <1>1 DEF CopyInv, Born
  <2>2. \A i \in DOMAIN reqs : reqs[i].verb = "create" => verb # "create" \/ reqs[i].on # f
    BY <1>1 DEF CopyInv, Pending
  <2>. QED
    BY <1>1, <1>8, <2>1, <2>2, BornCommit
<1>13. Solitude'
  BY <1>1, <1>3, SolitudeLess
<1>14. RootsTypeOK'
  BY <1>1, <1>3, <1>4 DEF RootsTypeOK, Commits, Pushes
<1>. QED
  BY <1>6, <1>7, <1>10, <1>11, <1>12, <1>13, <1>14, CurrentIs DEF CopyInv, CurrentCopy, CurrentReply, Current

\* What is left of a step that has no caller go on and touches no request but those it takes.
LEMMA PendingServed ==
    ASSUME RootsTypeOK, CopyInv, NEW q, Handles(q), UNCHANGED cmd, born \subseteq born',
           NEW f, Pushes(f), reply'.to = q.by
    PROVE  Pending'
<1>1. /\ q \in RootRequests /\ 1 \in DOMAIN reqs /\ q = reqs[1] /\ Fewer(1) /\ q.by \in Cmds
      /\ \A i \in DOMAIN reqs' : i + 1 # 1
  BY HandledIs
<1>2. ASSUME NEW i \in DOMAIN reqs'
      PROVE  /\ cmd'[reqs'[i].by].st \in {"asked", "over"} /\ reply'.to # reqs'[i].by
             /\ \A p \in DOMAIN frames' : frames'[p].to # reqs'[i].by
  <2>1. i + 1 \in DOMAIN reqs /\ reqs'[i] = reqs[i + 1]
    BY <1>1 DEF Fewer
  <2>2. reqs[i + 1].by \in Cmds
    BY <2>1, ReqAt
  <2>3. /\ cmd[reqs[i + 1].by].st \in {"asked", "over"}
        /\ \A p \in DOMAIN frames : frames[p].to # reqs[i + 1].by
        /\ \A j \in DOMAIN reqs : reqs[j].by = reqs[i + 1].by => j = i + 1
    BY <2>1 DEF CopyInv, Pending
  <2>4. reqs[1].by # reqs[i + 1].by
    BY <1>1, <2>3
  <2>. QED
    BY <1>1, <2>1, <2>2, <2>3, <2>4, RootsAssumption DEF Pushes
<1>. QED
  BY <1>1, <1>2, PendingFewer

\* The frames hold the replies they held.
LEMMA AnsweredPushed ==
    ASSUME RootsTypeOK, CopyInv, UNCHANGED cmd, NEW f, Pushes(f),
           reply' # NoReply =>
             /\ cmd[reply'.to].st # "new"
             /\ reply'.ans = Refusal \/ DOMAIN reply'.ans = cmd[reply'.to].on
    PROVE  Answered'
  BY DEF CopyInv, Answered, Fits, Pushes

\* WorkspaceRemoved is broadcast, perhaps long after the removal.
LEMMA AnnounceStep ==
    ASSUME RootsTypeOK, CopyInv, NEW f \in Folders, Announce(f)
    PROVE  RootsTypeOK' /\ CopyInv'
<1>1. /\ f \in leaving /\ leaving' = leaving \ {f} /\ db[f] = {} /\ db' = db
      /\ UNCHANGED <<db, born, reqs, reply, cache, cmd, alone, settled, others, cuts>>
  BY DEF Announce, CopyInv, Born
<1>2. Pushes(f)
  BY <1>1, PushedIs DEF Announce, RootsTypeOK
<1>3. Touches(f) /\ db'[f] = db[f]
  BY <1>1, <1>2 DEF Touches, RootsTypeOK
<1>4. CurrentCopy'
  BY <1>3, TouchCurrent
<1>5. CurrentReply'
  BY <1>1, CurrentIs DEF CopyInv, CurrentReply, IsSo
<1>6. Pending'
  <2>1. \A i \in DOMAIN reqs : reqs[i].by \in Cmds
    BY ReqAt
  <2>2. \A p \in DOMAIN frames' : (p \in DOMAIN frames /\ frames'[p] = frames[p]) \/ frames'[p].to = Nobody
    BY <1>2 DEF Pushes
  <2>3. Fewer(0)
    BY <1>1, SameReqs
  <2>. QED
    BY <1>1, <2>1, <2>2, <2>3, PendingFewer, RootsAssumption DEF CopyInv, Pending
<1>7. Answered'
  BY <1>1, <1>2, AnsweredPushed DEF CopyInv, Answered, Fits
<1>8. Born'
  BY <1>1 DEF CopyInv, Born
<1>9. Solitude'
  BY <1>1, SolitudeLess
<1>10. RootsTypeOK'
  BY <1>1, <1>2 DEF RootsTypeOK, Pushes
<1>. QED
  BY <1>4, <1>5, <1>6, <1>7, <1>8, <1>9, <1>10, CurrentIs
  DEF CopyInv, CurrentCopy, CurrentReply, Current

\* What is said of the roots stands while nothing it is about changes.
LEMMA CopySame ==
    ASSUME CopyInv, UNCHANGED <<db, frames, cache, cmd, alone, settled>>
    PROVE  CurrentCopy'
<1>1. CurrentCopy
  BY CurrentIs DEF CopyInv
<1>2. Known' = Known
  BY DEF Known
<1>3. \A n, g : Says(frames[n], g)' <=> Says(frames[n], g)
  BY DEF Says
<1>4. \A f \in settled' : Known'[f] = db'[f] /\ \A n \in DOMAIN frames' : Says(frames[n], f)'
  BY <1>1, <1>2, <1>3 DEF CurrentCopy
<1>5. ASSUME NEW p \in DOMAIN frames', frames'[p].kind = "reply", frames'[p].to \in alone',
             cmd'[frames'[p].to].st = "asked", frames'[p].ans # Refusal
      PROVE  /\ IsSo(frames[p].ans, frames[p].to)'
             /\ \A n \in DOMAIN frames', g \in cmd'[frames'[p].to].on : n > p => Says(frames[n], g)'
  <2>1. /\ IsSo(frames[p].ans, frames[p].to)
        /\ \A n \in DOMAIN frames, g \in cmd[frames[p].to].on : n > p => Says(frames[n], g)
    BY <1>1, <1>5 DEF CurrentCopy
  <2>. QED
    BY <1>3, <2>1 DEF IsSo
<1>6. ASSUME NEW c \in alone', cmd'[c].st = "answered", cmd'[c].ans # Refusal
      PROVE  /\ IsSo(cmd[c].ans, c)'
             /\ \A n \in DOMAIN frames', g \in cmd'[c].on : Says(frames[n], g)'
  <2>1. /\ IsSo(cmd[c].ans, c)
        /\ \A n \in DOMAIN frames, g \in cmd[c].on : Says(frames[n], g)
    BY <1>1, <1>6 DEF CurrentCopy
  <2>. QED
    BY <1>3, <2>1 DEF IsSo
<1>. QED
  BY <1>4, <1>5, <1>6 DEF CurrentCopy

\* The handler's answer, to a request that changes nothing.
LEMMA ServeStep ==
    ASSUME RootsTypeOK, CopyInv, NEW q, ServeList(q) \/ ServeRefused(q)
    PROVE  RootsTypeOK' /\ CopyInv'
<1>1. /\ Handles(q) /\ UNCHANGED <<db, born, leaving, frames, cache, cmd, alone, settled, others, cuts>>
      /\ reply' = [to |-> q.by, ans |-> reply'.ans, after |-> reply'.after]
      /\ \/ reply'.ans = Refusal
         \/ q.verb = "list" /\ reply'.ans = db
  BY DEF ServeList, ServeRefused, Answer, daemon_side
<1>2. /\ q \in RootRequests /\ 1 \in DOMAIN reqs /\ q = reqs[1] /\ Fewer(1) /\ q.by \in Cmds
  BY <1>1, HandledIs
<1>3. cmd[q.by].st # "new" /\ (q.verb = "list" => cmd[q.by].on = Folders)
  BY <1>2 DEF CopyInv, Pending, Answered
<1>4. db \in Words
  BY DEF RootsTypeOK, Words
<1>5. reply' \in [to : Cmds, ans : Words, after : SUBSET Folders]
  <2>1. reply'.after \in SUBSET Folders
    <3>1. CASE q.verb = "remove"
      BY <1>2, <3>1 DEF ServeList, ServeRefused, Answer, RootRequests
    <3>2. CASE q.verb # "remove"
      BY <3>2 DEF ServeList, ServeRefused, Answer
    <3>. QED
      BY <3>1, <3>2
  <2>. QED
    BY <1>1, <1>2, <1>4, <2>1, RefusalIs
<1>6. RootsTypeOK'
  BY <1>1, <1>2, <1>5 DEF RootsTypeOK, Fewer
<1>7. \A f : Pushes(f)
  BY <1>1 DEF Pushes, RootsTypeOK
<1>8. Pending'
  BY <1>1, <1>7, PendingServed
<1>9. Answered'
  <2>1. reply'.ans = Refusal \/ DOMAIN reply'.ans = cmd[q.by].on
    BY <1>1, <1>3 DEF RootsTypeOK
  <2>. QED
    BY <1>1, <1>3, <1>7, <2>1, AnsweredPushed
<1>10. Born'
  <2>1. \A i \in DOMAIN reqs' : i \in Nat /\ i + 1 \in DOMAIN reqs /\ reqs'[i] = reqs[i + 1]
    BY <1>2 DEF Fewer
  <2>2. ASSUME NEW i \in DOMAIN reqs', reqs'[i].verb = "create"
        PROVE  /\ db[reqs'[i].on] = {} /\ reqs'[i].on \notin leaving
               /\ \A j \in DOMAIN reqs' :
                    reqs'[j].verb = "create" /\ reqs'[j].on = reqs'[i].on => j = i
    <3>1. /\ db[reqs[i + 1].on] = {} /\ reqs[i + 1].on \notin leaving
          /\ \A j \in DOMAIN reqs :
               reqs[j].verb = "create" /\ reqs[j].on = reqs[i + 1].on => j = i + 1
      BY <2>1, <2>2 DEF CopyInv, Born
    <3>2. ASSUME NEW j \in DOMAIN reqs', reqs'[j].verb = "create", reqs'[j].on = reqs'[i].on
          PROVE  j = i
      <4>1. j + 1 = i + 1
        BY <2>1, <3>1, <3>2
      <4>. QED
        BY <2>1, <4>1
    <3>. QED
      BY <2>1, <3>1, <3>2
  <2>. QED
    BY <1>1, <2>2 DEF CopyInv, Born
<1>11. Solitude'
  BY <1>1, SolitudeLess
<1>12. CurrentCopy'
  BY <1>1, CopySame
<1>13. CurrentReply'
  BY <1>1, <1>3 DEF CurrentReply, IsSo
<1>. QED
  BY <1>6, <1>8, <1>9, <1>10, <1>11, <1>12, <1>13, CurrentIs
  DEF CopyInv, CurrentCopy, CurrentReply, Current

\* The handler commits a change, broadcasts it and has its answer.
LEMMA ChangeStep ==
    ASSUME RootsTypeOK, CopyInv, NEW q, ServeChange(q)
    PROVE  RootsTypeOK' /\ CopyInv'
<1>1. /\ Handles(q) /\ q.verb # "list" /\ Commit(q.verb, q.on, q.roots)
      /\ UNCHANGED <<cache, cmd, others, cuts>> /\ Disturb({q.on}, q.by)
      /\ reply' = [to |-> q.by, ans |-> Word(q.on, db'[q.on]),
                   after |-> IF q.verb = "remove" THEN {q.on} ELSE {}]
  BY DEF ServeChange, Answer
<1>2. /\ q \in RootRequests /\ 1 \in DOMAIN reqs /\ q = reqs[1] /\ Fewer(1) /\ q.by \in Cmds
      /\ \A i \in DOMAIN reqs' : i + 1 # 1
  BY <1>1, HandledIs
<1>3. PICK f \in Folders, verb \in Verbs, c \in Cmds :
        f = q.on /\ verb = q.verb /\ c = q.by /\ q.roots \in SUBSET Roots
  BY <1>1, <1>2 DEF RootRequests
<1>4. Commits(verb, f)
  BY <1>1, <1>3, CommitIs
<1>5. /\ db'[f] \in SUBSET Roots
      /\ Word(f, db'[f]) \in Words /\ DOMAIN Word(f, db'[f]) = {f} /\ Word(f, db'[f])[f] = db'[f]
  BY <1>4, WordIs DEF Commits
<1>6. /\ reply'.to = c /\ reply'.ans = Word(f, db'[f])
      /\ reply' \in [to : Cmds, ans : Words, after : SUBSET Folders]
  BY <1>1, <1>3, <1>5
<1>7. alone' = alone \ (Touching({f}) \ {c}) /\ settled' = settled \ {f}
  BY <1>1, <1>3 DEF Disturb
<1>8. Touches(f) /\ Pushes(f)
  BY <1>1, <1>4, <1>7 DEF Commits, Touches
<1>9. /\ cmd[c].st \in {"asked", "over"} /\ cmd[c].on = {f}
      /\ \A p \in DOMAIN frames : frames[p].to # c
  BY <1>1, <1>2, <1>3 DEF CopyInv, Pending
<1>10. Unheard(f)
  <2>1. ASSUME NEW d \in alone', f \in cmd[d].on, d # c PROVE FALSE
    <3>1. d \in Cmds /\ Waits(d) /\ d \notin Touching({f})
      BY <1>7, <2>1 DEF RootsTypeOK, CopyInv, Solitude
    <3>. QED
      BY <2>1, <3>1 DEF Touching
  <2>. QED
    BY <1>7, <1>9, <2>1 DEF Unheard
<1>11. CurrentCopy'
  BY <1>8, <1>10, TouchCurrent
<1>12. CurrentReply'
  BY <1>1, <1>5, <1>6, <1>9 DEF CurrentReply, IsSo
<1>13. Pending'
  <2>1. born \subseteq born'
    BY <1>4 DEF Commits
  <2>. QED
    BY <1>1, <1>3, <1>6, <1>8, <2>1, PendingServed
<1>14. Answered'
  BY <1>1, <1>5, <1>6, <1>8, <1>9, AnsweredPushed
<1>15. Born'
  <2>1. verb # "create" \/ f \notin leaving
    BY <1>2, <1>3 DEF CopyInv, Born
  <2>2. ASSUME NEW i \in DOMAIN reqs', reqs'[i].verb = "create", verb = "create"
        PROVE  reqs'[i].on # f
    <3>1. i + 1 \in DOMAIN reqs /\ reqs'[i] = reqs[i + 1] /\ i + 1 # 1
      BY <1>2 DEF Fewer
    <3>. QED
      BY <1>2, <1>3, <2>2, <3>1 DEF CopyInv, Born
  <2>. QED
    BY <1>2, <1>4, <2>1, <2>2, BornCommit
<1>16. Solitude'
  BY <1>1, <1>7, SolitudeLess
<1>17. RootsTypeOK'
  BY <1>1, <1>2, <1>4, <1>6, <1>7, <1>8 DEF RootsTypeOK, Commits, Pushes, Fewer
<1>. QED
  BY <1>11, <1>12, <1>13, <1>14, <1>15, <1>16, <1>17, CurrentIs
  DEF CopyInv, CurrentCopy, CurrentReply, Current

\* The answer is queued behind whatever was broadcast before it.
LEMMA SendReplyStep == ASSUME RootsTypeOK, CopyInv, SendReply PROVE RootsTypeOK' /\ CopyInv'
<1>1. /\ reply # NoReply /\ reply' = NoReply
      /\ frames' = Append(frames, [kind |-> "reply", to |-> reply.to, ans |-> reply.ans])
      /\ UNCHANGED <<db, born, leaving, reqs, cache, cmd, alone, settled, others, cuts>>
  BY DEF SendReply, daemon_side
<1>2. PICK m : m = [kind |-> "reply", to |-> reply.to, ans |-> reply.ans]
  OBVIOUS
<1>3. /\ m \in RootFrames /\ m.kind = "reply" /\ m.to = reply.to /\ m.ans = reply.ans
      /\ reply.to \in Cmds
  BY <1>1, <1>2 DEF RootsTypeOK, RootFrames
<1>4. /\ frames \in Seq(RootFrames) /\ frames' \in Seq(RootFrames)
      /\ \A n \in DOMAIN frames : n \in DOMAIN frames'
      /\ \A n \in DOMAIN frames' :
           \/ n \in DOMAIN frames /\ frames'[n] = frames[n]
           \/ frames'[n] = m /\ \A k \in DOMAIN frames : n > k
      /\ \A n, k \in DOMAIN frames' : n \notin DOMAIN frames /\ k \notin DOMAIN frames => n = k
  BY <1>1, <1>2, <1>3, AppendAt DEF RootsTypeOK
<1>5. RootsTypeOK'
  BY <1>1, <1>4 DEF RootsTypeOK
<1>6. Pending'
  <2>1. Fewer(0)
    BY <1>1, SameReqs
  <2>2. \A i \in DOMAIN reqs : reqs[i].by \in Cmds
    BY ReqAt
  <2>3. reply'.to = Nobody
    BY <1>1 DEF NoReply
  <2>4. ASSUME NEW i \in DOMAIN reqs
        PROVE  /\ cmd[reqs[i].by].st \in {"asked", "over"} /\ Nobody # reqs[i].by
               /\ \A p \in DOMAIN frames' : frames'[p].to # reqs[i].by
    <3>1. /\ cmd[reqs[i].by].st \in {"asked", "over"} /\ reply.to # reqs[i].by
          /\ \A p \in DOMAIN frames : frames[p].to # reqs[i].by
      BY DEF CopyInv, Pending
    <3>. QED
      BY <1>3, <1>4, <2>2, <3>1, RootsAssumption
  <2>. QED
    BY <1>1, <2>1, <2>3, <2>4, PendingFewer
<1>7. Answered'
  BY <1>1, <1>3, <1>4 DEF CopyInv, Answered, Fits
<1>8. Born'
  BY <1>1 DEF CopyInv, Born
<1>9. Solitude'
  BY <1>1, SolitudeLess
<1>10. CurrentReply'
  BY <1>1 DEF CurrentReply, NoReply
<1>11. CurrentCopy'
  <2>0. CurrentCopy /\ CurrentReply
    BY CurrentIs DEF CopyInv
  <2>1. ASSUME NEW n \in DOMAIN frames', NEW g, n \in DOMAIN frames => Says(frames[n], g)
        PROVE  Says(frames[n], g)'
    BY <1>1, <1>3, <1>4, <2>1 DEF Says
  <2>2. ASSUME NEW p \in DOMAIN frames', frames'[p].kind = "reply", frames'[p].to \in alone,
               cmd[frames'[p].to].st = "asked", frames'[p].ans # Refusal
        PROVE  /\ IsSo(frames[p].ans, frames[p].to)'
               /\ \A n \in DOMAIN frames', g \in cmd[frames'[p].to].on : n > p => Says(frames[n], g)'
    <3>1. CASE p \in DOMAIN frames /\ frames'[p] = frames[p]
      <4>1. /\ IsSo(frames[p].ans, frames[p].to)
            /\ \A n \in DOMAIN frames, g \in cmd[frames[p].to].on : n > p => Says(frames[n], g)
        BY <2>0, <2>2, <3>1 DEF CurrentCopy
      <4>. QED
        BY <1>1, <2>1, <3>1, <4>1 DEF IsSo
    <3>2. CASE frames'[p] = m /\ \A k \in DOMAIN frames : p > k
      <4>1. IsSo(reply.ans, reply.to)
        BY <1>3, <2>0, <2>2, <3>2 DEF CurrentReply
      <4>2. IsSo(frames[p].ans, frames[p].to)'
        BY <1>1, <1>3, <3>2, <4>1 DEF IsSo
      <4>3. ASSUME NEW n \in DOMAIN frames', n > p, NEW g PROVE Says(frames[n], g)'
        <5>1. n \in Nat /\ p \in Nat
          BY <1>4
        <5>2. n \notin DOMAIN frames
          BY <3>2, <4>3, <5>1
        <5>. QED
          BY <2>1, <5>2
      <4>. QED
        BY <4>2, <4>3
    <3>. QED
      BY <1>4, <3>1, <3>2
  <2>3. \A g \in settled : Known'[g] = db'[g] /\ \A n \in DOMAIN frames' : Says(frames[n], g)'
    BY <1>1, <2>0, <2>1 DEF CurrentCopy, Known
  <2>4. \A c \in alone : cmd[c].st = "answered" /\ cmd[c].ans # Refusal =>
          /\ IsSo(cmd[c].ans, c)'
          /\ \A n \in DOMAIN frames', g \in cmd[c].on : Says(frames[n], g)'
    BY <1>1, <2>0, <2>1 DEF CurrentCopy, IsSo
  <2>. QED
    BY <1>1, <2>2, <2>3, <2>4 DEF CurrentCopy
<1>. QED
  BY <1>5, <1>6, <1>7, <1>8, <1>9, <1>10, <1>11, CurrentIs
  DEF CopyInv, CurrentCopy, CurrentReply, Current

----------------------------------------------------------------------------
\* A command that is not yet made has no request, no reply and no answer.
LEMMA NotYet ==
    ASSUME RootsTypeOK, CopyInv, NEW c \in Cmds, cmd[c].st = "new"
    PROVE  /\ c \notin alone /\ reply.to # c
           /\ \A i \in DOMAIN reqs : reqs[i].by # c
           /\ \A p \in DOMAIN frames : frames[p].to # c
<1>1. c \notin alone
  BY DEF CopyInv, Solitude, Waits
<1>2. reply.to # c
  BY RootsAssumption DEF CopyInv, Answered, NoReply
<1>3. \A i \in DOMAIN reqs : reqs[i].by # c
  BY DEF CopyInv, Pending
<1>4. \A p \in DOMAIN frames : frames[p].to # c
  BY FrameAt, RootsAssumption DEF CopyInv, Answered
<1>. QED
  BY <1>1, <1>2, <1>3, <1>4

\* The window asks for a list or for a change.
LEMMA AskStep ==
    ASSUME RootsTypeOK, CopyInv, NEW c \in Cmds, NEW verb \in Verbs \cup {"list"},
           NEW F \in SUBSET Folders, NEW q \in RootRequests, Ask(c, verb, F, q),
           q.by = c, q.verb = verb, verb = "list" => F = Folders, verb # "list" => F = {q.on},
           born' = IF verb = "list" THEN born ELSE born \cup F,
           verb = "create" => q.on \notin born
    PROVE  RootsTypeOK' /\ CopyInv'
<1>1. /\ cmd[c].st = "new"
      /\ cmd' = [cmd EXCEPT ![c] = [st |-> "asked", verb |-> verb, on |-> F, ans |-> Refusal]]
      /\ alone' = IF Touching(F) = {} THEN alone \cup {c} ELSE alone \ Touching(F)
      /\ settled' = settled \ F
      /\ reqs' = Append(reqs, q)
      /\ UNCHANGED <<db, leaving, reply, frames, cache, others, cuts>>
  BY DEF Ask
<1>2. /\ cmd'[c].st = "asked" /\ cmd'[c].verb = verb /\ cmd'[c].on = F
      /\ \A d \in Cmds : d # c => cmd'[d] = cmd[d]
      /\ cmd' \in [Cmds -> Commands]
  BY <1>1, RefusalIs DEF RootsTypeOK, Commands
<1>3. /\ c \notin alone /\ reply.to # c
      /\ \A i \in DOMAIN reqs : reqs[i].by # c
      /\ \A p \in DOMAIN frames : frames[p].to # c
  BY <1>1, NotYet
<1>4. /\ reqs' \in Seq(RootRequests)
      /\ \A n \in DOMAIN reqs' : \/ n \in DOMAIN reqs /\ reqs'[n] = reqs[n]
                                 \/ n \notin DOMAIN reqs /\ reqs'[n] = q
      /\ \A n, k \in DOMAIN reqs' : n \notin DOMAIN reqs /\ k \notin DOMAIN reqs => n = k
  <2>1. reqs \in Seq(RootRequests)
    BY DEF RootsTypeOK
  <2>2. \A k \in DOMAIN reqs : k \in Nat
    BY <2>1
  <2>. QED
    BY <1>1, <2>1, <2>2, AppendAt
<1>5. /\ \A i \in DOMAIN reqs : reqs[i].by \in Cmds
      /\ \A p \in DOMAIN frames : frames[p].kind = "reply" => frames[p].to \in Cmds
      /\ reply # NoReply => reply.to \in Cmds
  BY ReqAt, FrameAt, RootsAssumption DEF RootsTypeOK
<1>6. alone \subseteq Cmds /\ alone' \subseteq alone \cup {c}
  BY <1>1 DEF RootsTypeOK
<1>7. RootsTypeOK'
  <2>1. q.verb # "list" => q.on \in Folders
    BY DEF RootRequests
  <2>2. born' \subseteq Folders
    BY DEF RootsTypeOK
  <2>. QED
    BY <1>1, <1>2, <1>4, <1>6, <2>2 DEF RootsTypeOK
<1>8. Pending'
  <2>1. ASSUME NEW i \in DOMAIN reqs'
        PROVE  /\ cmd'[reqs'[i].by].st \in {"asked", "over"}
               /\ cmd'[reqs'[i].by].verb = reqs'[i].verb
               /\ reqs'[i].verb # "list" =>
                    cmd'[reqs'[i].by].on = {reqs'[i].on} /\ reqs'[i].on \in born'
               /\ reply'.to # reqs'[i].by
               /\ \A p \in DOMAIN frames' : frames'[p].to # reqs'[i].by
               /\ \A j \in DOMAIN reqs' : reqs'[j].by = reqs'[i].by => j = i
    <3>1. CASE i \in DOMAIN reqs /\ reqs'[i] = reqs[i]
      <4>1. /\ cmd[reqs[i].by].st \in {"asked", "over"} /\ cmd[reqs[i].by].verb = reqs[i].verb
            /\ reqs[i].verb # "list" => cmd[reqs[i].by].on = {reqs[i].on} /\ reqs[i].on \in born
            /\ reply.to # reqs[i].by
            /\ \A p \in DOMAIN frames : frames[p].to # reqs[i].by
            /\ \A j \in DOMAIN reqs : reqs[j].by = reqs[i].by => j = i
        BY <3>1 DEF CopyInv, Pending
      <4>2. reqs[i].by \in Cmds /\ reqs[i].by # c
        BY <1>3, <1>5, <3>1
      <4>3. \A j \in DOMAIN reqs' : reqs'[j].by = reqs'[i].by => j = i
        BY <1>4, <3>1, <4>1, <4>2
      <4>. QED
        BY <1>1, <1>2, <3>1, <4>1, <4>2, <4>3
    <3>2. CASE i \notin DOMAIN reqs /\ reqs'[i] = q
      <4>1. \A j \in DOMAIN reqs' : reqs'[j].by = c => j = i
        BY <1>3, <1>4, <3>2
      <4>. QED
        BY <1>1, <1>2, <1>3, <3>2, <4>1
    <3>. QED
      BY <1>4, <3>1, <3>2
  <2>. QED
    BY <2>1 DEF Pending
<1>9. Answered'
  <2>1. reply # NoReply => cmd'[reply.to] = cmd[reply.to]
    BY <1>2, <1>3, <1>5
  <2>2. \A p \in DOMAIN frames : frames[p].kind = "reply" => cmd'[frames[p].to] = cmd[frames[p].to]
    BY <1>2, <1>3, <1>5
  <2>3. ASSUME NEW d \in Cmds
        PROVE  /\ cmd'[d].st = "answered" => cmd'[d].ans = Refusal \/ DOMAIN cmd'[d].ans = cmd'[d].on
               /\ cmd'[d].verb = "list" => cmd'[d].on = Folders
    BY <1>2 DEF CopyInv, Answered, Fits
  <2>. QED
    BY <1>1, <2>1, <2>2, <2>3 DEF CopyInv, Answered, Fits
<1>10. Born'
  <2>1. ASSUME NEW i \in DOMAIN reqs', reqs'[i].verb = "create"
        PROVE  /\ db[reqs'[i].on] = {} /\ reqs'[i].on \notin leaving
               /\ \A j \in DOMAIN reqs' :
                    reqs'[j].verb = "create" /\ reqs'[j].on = reqs'[i].on => j = i
    <3>0. \A j \in DOMAIN reqs : reqs[j].verb = "create" => reqs[j].on \in born
      BY DEF CopyInv, Pending
    <3>1. CASE i \in DOMAIN reqs /\ reqs'[i] = reqs[i]
      <4>1. /\ db[reqs[i].on] = {} /\ reqs[i].on \notin leaving
            /\ \A j \in DOMAIN reqs : reqs[j].verb = "create" /\ reqs[j].on = reqs[i].on => j = i
        BY <2>1, <3>1 DEF CopyInv, Born
      <4>. QED
        BY <1>4, <2>1, <3>0, <3>1, <4>1
    <3>2. CASE i \notin DOMAIN reqs /\ reqs'[i] = q
      <4>1. q.on \in Folders /\ q.on \notin born
        BY <2>1, <3>2 DEF RootRequests
      <4>2. db[q.on] = {} /\ q.on \notin leaving
        BY <4>1 DEF CopyInv, Born
      <4>. QED
        BY <1>4, <3>0, <3>2, <4>1, <4>2
    <3>. QED
      BY <1>4, <3>1, <3>2
  <2>. QED
    BY <1>1, <2>1 DEF CopyInv, Born
<1>11. Solitude'
  <2>1. \A d \in Cmds : d # c => cmd'[d].on = cmd[d].on /\ (Waits(d)' <=> Waits(d))
    BY <1>2 DEF Waits
  <2>2. Waits(c)' /\ cmd'[c].on = F
    BY <1>2 DEF Waits
  <2>3. ASSUME NEW d \in alone' PROVE d \in Cmds /\ Waits(d)'
    BY <1>6, <2>1, <2>2, <2>3 DEF CopyInv, Solitude
  <2>4. ASSUME NEW d \in alone', NEW e \in Cmds, Waits(e)', e # d PROVE cmd'[d].on \cap cmd'[e].on = {}
    <3>1. CASE d # c /\ e # c
      BY <1>6, <2>1, <2>4, <3>1 DEF CopyInv, Solitude
    <3>2. CASE d # c /\ e = c
      <4>1. d \in alone /\ d \in Cmds /\ Waits(d) /\ d \notin Touching(F)
        BY <1>1, <1>6, <3>2 DEF CopyInv, Solitude
      <4>. QED
        BY <2>1, <2>2, <3>2, <4>1 DEF Touching
    <3>3. CASE d = c
      <4>1. Touching(F) = {} /\ Waits(e) /\ e # c
        BY <1>1, <1>3, <2>1, <2>4, <3>3
      <4>. QED
        BY <2>1, <2>2, <3>3, <4>1 DEF Touching
    <3>. QED
      BY <3>1, <3>2, <3>3
  <2>5. ASSUME NEW d \in Cmds, Waits(d)' PROVE cmd'[d].on \cap settled' = {}
    BY <1>1, <2>1, <2>2, <2>5 DEF CopyInv, Solitude
  <2>. QED
    BY <2>3, <2>4, <2>5 DEF Solitude
<1>12. CurrentReply' /\ CurrentCopy'
  <2>1. CurrentReply /\ CurrentCopy
    BY CurrentIs DEF CopyInv
  <2>2. Known' = Known /\ settled' \subseteq settled
    BY <1>1 DEF Known
  <2>3. \A d \in alone' : d # c => d \in alone /\ cmd'[d] = cmd[d]
    BY <1>2, <1>6
  <2>4. CurrentReply'
    BY <1>1, <1>3, <2>1, <2>3 DEF CurrentReply, IsSo
  <2>5. \A g \in settled' : Known'[g] = db'[g] /\ \A n \in DOMAIN frames' : Says(frames[n], g)'
    BY <1>1, <2>1, <2>2 DEF CurrentCopy, Says
  <2>6. ASSUME NEW p \in DOMAIN frames', frames'[p].kind = "reply", frames'[p].to \in alone',
               cmd'[frames'[p].to].st = "asked", frames'[p].ans # Refusal
        PROVE  /\ IsSo(frames[p].ans, frames[p].to)'
               /\ \A n \in DOMAIN frames', g \in cmd'[frames'[p].to].on : n > p => Says(frames[n], g)'
    <3>1. frames[p].to # c /\ frames[p].to \in alone /\ cmd'[frames[p].to] = cmd[frames[p].to]
      BY <1>1, <1>3, <2>3, <2>6
    <3>2. /\ IsSo(frames[p].ans, frames[p].to)
          /\ \A n \in DOMAIN frames, g \in cmd[frames[p].to].on : n > p => Says(frames[n], g)
      BY <1>1, <2>1, <2>6, <3>1 DEF CurrentCopy
    <3>. QED
      BY <1>1, <3>1, <3>2 DEF IsSo, Says
  <2>7. \A d \in alone' : cmd'[d].st = "answered" /\ cmd'[d].ans # Refusal =>
          /\ IsSo(cmd[d].ans, d)'
          /\ \A n \in DOMAIN frames', g \in cmd'[d].on : Says(frames[n], g)'
    BY <1>1, <1>2, <2>1, <2>3 DEF CurrentCopy, IsSo, Says
  <2>. QED
    BY <2>4, <2>5, <2>6, <2>7 DEF CurrentCopy
<1>. QED
  BY <1>7, <1>8, <1>9, <1>10, <1>11, <1>12, CurrentIs
  DEF CopyInv, CurrentCopy, CurrentReply, Current

\* What is left when the head of the frames is taken.
LEMMA ReceiveIs ==
    ASSUME RootsTypeOK, Receive
    PROVE  /\ 1 \in DOMAIN frames /\ Head(frames) = frames[1] /\ frames' \in Seq(RootFrames)
           /\ \A n \in DOMAIN frames' : /\ n \in Nat /\ n + 1 \in DOMAIN frames /\ n + 1 > 1
                                        /\ frames'[n] = frames[n + 1]
           /\ UNCHANGED <<db, born, leaving, reqs, reply, alone, settled, others, cuts>>
           /\ frames[1].ans \in Words
<1>1. frames \in Seq(RootFrames) /\ frames # <<>> /\ frames' = Tail(frames)
  BY DEF RootsTypeOK, Receive
<1>2. /\ Tail(frames) \in Seq(RootFrames) /\ Head(frames) = frames[1] /\ 1 \in DOMAIN frames
      /\ \A n \in DOMAIN Tail(frames) : n \in Nat /\ n >= 1 /\ n + 1 \in DOMAIN frames
                                        /\ Tail(frames)[n] = frames[n + 1]
  BY <1>1, TailAt
<1>3. frames[1].ans \in Words
  BY <1>2, FrameAt
<1>. QED
  BY <1>1, <1>2, <1>3 DEF Receive, daemon_side

\* A push changes the copy: what it says of a settled workspace is what the copy says already.
LEMMA PushStep ==
    ASSUME RootsTypeOK, CopyInv, Receive, frames[1].kind = "push"
    PROVE  RootsTypeOK' /\ CopyInv'
<1>1. /\ 1 \in DOMAIN frames /\ Head(frames) = frames[1] /\ frames' \in Seq(RootFrames)
      /\ \A n \in DOMAIN frames' : /\ n \in Nat /\ n + 1 \in DOMAIN frames /\ n + 1 > 1
                                   /\ frames'[n] = frames[n + 1]
      /\ UNCHANGED <<db, born, leaving, reqs, reply, alone, settled, others, cuts>>
      /\ frames[1].ans \in Words
  BY ReceiveIs
<1>2. cache' = Upsert(frames[1].ans) /\ UNCHANGED cmd
  BY <1>1 DEF Receive
<1>3. /\ cache' \in {NeverLoaded} \cup [Folders -> SUBSET Roots]
      /\ \A f \in Folders :
           Known'[f] = IF f \in DOMAIN frames[1].ans THEN frames[1].ans[f] ELSE Known[f]
  BY <1>1, <1>2, UpsertIs
<1>4. RootsTypeOK'
  BY <1>1, <1>2, <1>3 DEF RootsTypeOK
<1>5. Pending'
  <2>1. Fewer(0)
    BY <1>1, SameReqs
  <2>2. ASSUME NEW i \in DOMAIN reqs
        PROVE  /\ cmd[reqs[i].by].st \in {"asked", "over"} /\ reply.to # reqs[i].by
               /\ \A p \in DOMAIN frames' : frames'[p].to # reqs[i].by
    <3>1. /\ cmd[reqs[i].by].st \in {"asked", "over"} /\ reply.to # reqs[i].by
          /\ \A p \in DOMAIN frames : frames[p].to # reqs[i].by
      BY DEF CopyInv, Pending
    <3>. QED
      BY <1>1, <3>1
  <2>. QED
    BY <1>1, <1>2, <2>1, <2>2, PendingFewer
<1>6. Answered'
  BY <1>1, <1>2 DEF CopyInv, Answered, Fits
<1>7. Born'
  BY <1>1 DEF CopyInv, Born
<1>8. Solitude'
  BY <1>1, <1>2, SolitudeLess
<1>9. CurrentCopy /\ CurrentReply /\ settled \subseteq Folders
  BY CurrentIs DEF CopyInv, RootsTypeOK
<1>10. CurrentReply'
  BY <1>1, <1>2, <1>9 DEF CurrentReply, IsSo
<1>11. \A g \in settled : Known'[g] = db[g]
  <2>1. ASSUME NEW g \in settled PROVE Known[g] = db[g] /\ Says(frames[1], g)
    BY <1>1, <1>9 DEF CurrentCopy
  <2>. QED
    BY <1>3, <1>9, <2>1 DEF Says
<1>12. CurrentCopy'
  <2>1. \A n \in DOMAIN frames' : \A g : Says(frames[n + 1], g) => Says(frames[n], g)'
    BY <1>1 DEF Says
  <2>2. \A g \in settled : \A n \in DOMAIN frames' : Says(frames[n], g)'
    BY <1>1, <1>9, <2>1 DEF CurrentCopy
  <2>3. ASSUME NEW p \in DOMAIN frames', frames'[p].kind = "reply", frames'[p].to \in alone,
               cmd[frames'[p].to].st = "asked", frames'[p].ans # Refusal
        PROVE  /\ IsSo(frames[p].ans, frames[p].to)'
               /\ \A n \in DOMAIN frames', g \in cmd[frames'[p].to].on : n > p => Says(frames[n], g)'
    <3>1. p + 1 \in DOMAIN frames /\ frames'[p] = frames[p + 1] /\ p \in Nat
      BY <1>1
    <3>2. /\ IsSo(frames[p + 1].ans, frames[p + 1].to)
          /\ \A n \in DOMAIN frames, g \in cmd[frames[p + 1].to].on : n > p + 1 => Says(frames[n], g)
      BY <1>9, <2>3, <3>1 DEF CurrentCopy
    <3>3. \A n \in DOMAIN frames' : n > p => n + 1 > p + 1
      BY <1>1, <3>1
    <3>. QED
      BY <1>1, <1>2, <2>1, <3>1, <3>2, <3>3 DEF IsSo
  <2>4. \A c \in alone : cmd[c].st = "answered" /\ cmd[c].ans # Refusal =>
          /\ IsSo(cmd[c].ans, c)'
          /\ \A n \in DOMAIN frames', g \in cmd[c].on : Says(frames[n], g)'
    BY <1>1, <1>2, <1>9, <2>1 DEF CurrentCopy, IsSo
  <2>. QED
    BY <1>1, <1>2, <1>11, <2>2, <2>3, <2>4 DEF CurrentCopy
<1>. QED
  BY <1>4, <1>5, <1>6, <1>7, <1>8, <1>10, <1>12, CurrentIs
  DEF CopyInv, CurrentCopy, CurrentReply, Current

\* A reply is handed to its caller, if that still waits: the pushes behind it are all later.
LEMMA ReplyStep ==
    ASSUME RootsTypeOK, CopyInv, Receive, frames[1].kind = "reply"
    PROVE  RootsTypeOK' /\ CopyInv'
<1>1. /\ 1 \in DOMAIN frames /\ Head(frames) = frames[1] /\ frames' \in Seq(RootFrames)
      /\ \A n \in DOMAIN frames' : /\ n \in Nat /\ n + 1 \in DOMAIN frames /\ n + 1 > 1
                                   /\ frames'[n] = frames[n + 1]
      /\ UNCHANGED <<db, born, leaving, reqs, reply, alone, settled, others, cuts>>
      /\ frames[1].ans \in Words
  BY ReceiveIs
<1>2. PICK c \in Cmds : c = frames[1].to
  BY <1>1, FrameAt
<1>3. /\ UNCHANGED cache
      /\ cmd' = IF cmd[c].st = "asked"
                THEN [cmd EXCEPT ![c].st = "answered", ![c].ans = frames[1].ans] ELSE cmd
  BY <1>1, <1>2 DEF Receive
<1>4. /\ \A d \in Cmds : cmd'[d].verb = cmd[d].verb /\ cmd'[d].on = cmd[d].on /\ (Waits(d)' <=> Waits(d))
      /\ \A d \in Cmds : d # c \/ cmd[c].st # "asked" => cmd'[d] = cmd[d]
      /\ cmd[c].st = "asked" => cmd'[c].st = "answered" /\ cmd'[c].ans = frames[1].ans
      /\ cmd'[c].st # "asked"
      /\ cmd' \in [Cmds -> Commands]
  <2>1. CASE cmd[c].st # "asked"
    BY <1>3, <2>1 DEF RootsTypeOK, Waits
  <2>2. CASE cmd[c].st = "asked"
    <3>1. PICK r : r = [cmd[c] EXCEPT !.st = "answered", !.ans = frames[1].ans]
      OBVIOUS
    <3>2. /\ r \in Commands /\ r.st = "answered" /\ r.ans = frames[1].ans
          /\ r.verb = cmd[c].verb /\ r.on = cmd[c].on
      BY <1>1, <3>1, CmdIs DEF Commands
    <3>3. cmd \in [Cmds -> Commands]
      BY DEF RootsTypeOK
    <3>4. cmd' = [cmd EXCEPT ![c] = r]
      BY <1>3, <2>2, <3>1, <3>3
    <3>5. cmd'[c] = r /\ \A d \in Cmds : d # c => cmd'[d] = cmd[d]
      BY <3>3, <3>4
    <3>6. cmd' \in [Cmds -> Commands]
      BY <3>2, <3>3, <3>4
    <3>. QED
      BY <2>2, <3>2, <3>5, <3>6 DEF Waits
  <2>. QED
    BY <2>1, <2>2
<1>5. RootsTypeOK'
  BY <1>1, <1>3, <1>4 DEF RootsTypeOK
<1>6. Pending'
  <2>1. Fewer(0)
    BY <1>1, SameReqs
  <2>2. \A i \in DOMAIN reqs : reqs[i].by \in Cmds
    BY ReqAt
  <2>3. \A i \in DOMAIN reqs :
          /\ cmd'[reqs[i].by].st \in {"asked", "over"} /\ reply.to # reqs[i].by
          /\ \A p \in DOMAIN frames' : frames'[p].to # reqs[i].by
    BY <1>1, <1>2, <1>4, <2>2 DEF CopyInv, Pending
  <2>. QED
    BY <1>1, <1>4, <2>1, <2>3, PendingFewer
<1>7. Answered'
  <2>1. frames[1].ans = Refusal \/ DOMAIN frames[1].ans = cmd[c].on
    BY <1>1, <1>2 DEF CopyInv, Answered, Fits
  <2>2. \A d \in Cmds : cmd[d].st # "new" => cmd'[d].st # "new"
    BY <1>4
  <2>3. /\ \A p \in DOMAIN frames : frames[p].kind = "reply" => frames[p].to \in Cmds
        /\ reply # NoReply => reply.to \in Cmds
    BY FrameAt, RootsAssumption DEF RootsTypeOK
  <2>4. ASSUME NEW d \in Cmds
        PROVE  /\ cmd'[d].st = "answered" => cmd'[d].ans = Refusal \/ DOMAIN cmd'[d].ans = cmd'[d].on
               /\ cmd'[d].verb = "list" => cmd'[d].on = Folders
    BY <1>4, <2>1 DEF CopyInv, Answered, Fits
  <2>. QED
    BY <1>1, <1>4, <2>2, <2>3, <2>4 DEF CopyInv, Answered, Fits
<1>8. Born'
  BY <1>1 DEF CopyInv, Born
<1>9. Solitude'
  BY <1>1, <1>4 DEF CopyInv, Solitude, RootsTypeOK
<1>10. CurrentCopy /\ CurrentReply /\ alone \subseteq Cmds
  BY CurrentIs DEF CopyInv, RootsTypeOK
<1>11. CurrentReply'
  BY <1>1, <1>4, <1>10 DEF CurrentReply, IsSo
<1>12. CurrentCopy'
  <2>1. \A n \in DOMAIN frames' : \A g : Says(frames[n + 1], g) => Says(frames[n], g)'
    BY <1>1 DEF Says
  <2>2. \A g \in settled : Known'[g] = db[g] /\ \A n \in DOMAIN frames' : Says(frames[n], g)'
    BY <1>1, <1>3, <1>10, <2>1 DEF CurrentCopy, Known
  <2>3. ASSUME NEW p \in DOMAIN frames', frames'[p].kind = "reply", frames'[p].to \in alone,
               cmd'[frames'[p].to].st = "asked", frames'[p].ans # Refusal
        PROVE  /\ IsSo(frames[p].ans, frames[p].to)'
               /\ \A n \in DOMAIN frames', g \in cmd'[frames'[p].to].on : n > p => Says(frames[n], g)'
    <3>1. p + 1 \in DOMAIN frames /\ frames'[p] = frames[p + 1] /\ p \in Nat
      BY <1>1
    <3>2. frames[p + 1].to \in Cmds /\ cmd'[frames[p + 1].to] = cmd[frames[p + 1].to]
      BY <1>4, <1>10, <2>3, <3>1
    <3>3. /\ IsSo(frames[p + 1].ans, frames[p + 1].to)
          /\ \A n \in DOMAIN frames, g \in cmd[frames[p + 1].to].on : n > p + 1 => Says(frames[n], g)
      BY <1>10, <2>3, <3>1, <3>2 DEF CurrentCopy
    <3>4. \A n \in DOMAIN frames' : n > p => n + 1 > p + 1
      BY <1>1, <3>1
    <3>. QED
      BY <1>1, <2>1, <3>1, <3>2, <3>3, <3>4 DEF IsSo
  <2>4. ASSUME NEW d \in alone, cmd'[d].st = "answered", cmd'[d].ans # Refusal
        PROVE  /\ IsSo(cmd[d].ans, d)'
               /\ \A n \in DOMAIN frames', g \in cmd'[d].on : Says(frames[n], g)'
    <3>1. CASE cmd'[d] = cmd[d]
      BY <1>1, <1>10, <2>1, <2>4, <3>1 DEF CurrentCopy, IsSo
    <3>2. CASE d = c /\ cmd[c].st = "asked"
      <4>1. /\ IsSo(frames[1].ans, c)
            /\ \A n \in DOMAIN frames, g \in cmd[c].on : n > 1 => Says(frames[n], g)
        BY <1>1, <1>2, <1>4, <1>10, <2>4, <3>2 DEF CurrentCopy
      <4>. QED
        BY <1>1, <1>4, <2>1, <3>2, <4>1 DEF IsSo
    <3>. QED
      BY <1>4, <1>10, <3>1, <3>2
  <2>. QED
    BY <1>1, <2>2, <2>3, <2>4 DEF CurrentCopy
<1>. QED
  BY <1>5, <1>6, <1>7, <1>8, <1>9, <1>11, <1>12, CurrentIs
  DEF CopyInv, CurrentCopy, CurrentReply, Current

\* Commands that are over are not waited for: what remains of the rest remains.
LEMMA OverStep ==
    ASSUME RootsTypeOK, CopyInv, UNCHANGED <<db, born, leaving>>,
           NEW who \in SUBSET Cmds,
           cmd' = [c \in Cmds |-> IF c \in who THEN [cmd[c] EXCEPT !.st = "over"] ELSE cmd[c]],
           \A c \in who : cmd[c].st # "new",
           alone' = alone \ who,
           \/ UNCHANGED <<reqs, reply, frames>>
           \/ reqs' = <<>> /\ reply' = NoReply /\ frames' = <<>>
    PROVE  /\ Pending' /\ Answered' /\ Born' /\ CurrentReply'
           /\ settled' = settled => Solitude'
           /\ cache' = cache /\ settled' = settled => CurrentCopy'
           /\ alone' \subseteq Cmds /\ reqs' \in Seq(RootRequests) /\ frames' \in Seq(RootFrames)
           /\ reply' \in {NoReply} \cup [to : Cmds, ans : Words, after : SUBSET Folders]
           /\ cmd' \in [Cmds -> Commands]
<1>1. /\ \A c \in Cmds : /\ cmd'[c].verb = cmd[c].verb /\ cmd'[c].on = cmd[c].on
                          /\ cmd'[c].ans = cmd[c].ans
                          /\ cmd'[c].st = IF c \in who THEN "over" ELSE cmd[c].st
      /\ cmd' \in [Cmds -> Commands]
  <2>1. ASSUME NEW c \in Cmds
        PROVE  /\ cmd'[c].verb = cmd[c].verb /\ cmd'[c].on = cmd[c].on /\ cmd'[c].ans = cmd[c].ans
               /\ cmd'[c].st = IF c \in who THEN "over" ELSE cmd[c].st
               /\ cmd'[c] \in Commands
    <3>1. PICK s : s = [cmd[c] EXCEPT !.st = "over"]
      OBVIOUS
    <3>2. cmd[c] \in Commands
      BY CmdIs
    <3>3. /\ s \in Commands /\ s.st = "over"
          /\ s.verb = cmd[c].verb /\ s.on = cmd[c].on /\ s.ans = cmd[c].ans
      BY <3>1, <3>2 DEF Commands
    <3>4. cmd'[c] = IF c \in who THEN s ELSE cmd[c]
      BY <3>1
    <3>. QED
      BY <3>2, <3>3, <3>4
  <2>. QED
    BY <2>1
<1>2. /\ \A i \in DOMAIN reqs : reqs[i].by \in Cmds
      /\ \A p \in DOMAIN frames : frames[p].kind = "reply" => frames[p].to \in Cmds
      /\ reply # NoReply => reply.to \in Cmds
      /\ alone \subseteq Cmds
  BY ReqAt, FrameAt, RootsAssumption DEF RootsTypeOK
<1>3. /\ reqs' \in Seq(RootRequests) /\ frames' \in Seq(RootFrames)
      /\ reply' \in {NoReply} \cup [to : Cmds, ans : Words, after : SUBSET Folders]
  BY EmptySeq DEF RootsTypeOK
<1>4. /\ \A i \in DOMAIN reqs' : i \in DOMAIN reqs /\ reqs' = reqs /\ reply' = reply /\ frames' = frames
      /\ \A p \in DOMAIN frames' : p \in DOMAIN frames /\ frames' = frames
      /\ reply' = NoReply \/ reply' = reply
  OBVIOUS
<1>5. Pending'
  <2>1. CASE reqs' = <<>>
    BY <2>1 DEF Pending
  <2>2. CASE UNCHANGED <<reqs, reply, frames>>
    <3>1. Fewer(0)
      BY <2>2, SameReqs
    <3>2. ASSUME NEW i \in DOMAIN reqs
          PROVE  /\ cmd'[reqs[i].by].st \in {"asked", "over"} /\ reply.to # reqs[i].by
                 /\ \A p \in DOMAIN frames : frames[p].to # reqs[i].by
      <4>1. cmd[reqs[i].by].st \in {"asked", "over"} /\ reqs[i].by \in Cmds
        BY <1>2 DEF CopyInv, Pending
      <4>. QED
        BY <1>1, <4>1 DEF CopyInv, Pending
    <3>. QED
      BY <1>1, <2>2, <3>1, <3>2, PendingFewer
  <2>. QED
    BY <2>1, <2>2
<1>6. Answered'
  BY <1>1, <1>2, <1>4 DEF CopyInv, Answered, Fits
<1>7. Born'
  BY <1>4 DEF CopyInv, Born
<1>8. CurrentCopy /\ CurrentReply
  BY CurrentIs DEF CopyInv
<1>9. CurrentReply'
  <2>1. CASE reply' = NoReply
    BY <2>1 DEF CurrentReply, NoReply
  <2>2. CASE reply' = reply
    BY <1>1, <1>2, <1>8, <2>2 DEF CurrentReply, IsSo
  <2>. QED
    BY <1>4, <2>1, <2>2
<1>10. ASSUME settled' = settled PROVE Solitude'
  <2>1. \A c \in Cmds : Waits(c)' <=> Waits(c) /\ c \notin who
    BY <1>1 DEF Waits
  <2>. QED
    BY <1>1, <1>2, <1>10, <2>1 DEF CopyInv, Solitude
<1>11. ASSUME cache' = cache, settled' = settled PROVE CurrentCopy'
  <2>1. Known' = Known
    BY <1>11 DEF Known
  <2>2. \A n \in DOMAIN frames' : \A g : Says(frames[n], g) => Says(frames[n], g)'
    BY <1>4 DEF Says
  <2>3. \A g \in settled : Known'[g] = db[g] /\ \A n \in DOMAIN frames' : Says(frames[n], g)'
    BY <1>4, <1>8, <2>1, <2>2 DEF CurrentCopy
  <2>4. ASSUME NEW p \in DOMAIN frames', frames'[p].kind = "reply", frames'[p].to \in alone',
               cmd'[frames'[p].to].st = "asked", frames'[p].ans # Refusal
        PROVE  /\ IsSo(frames[p].ans, frames[p].to)'
               /\ \A n \in DOMAIN frames', g \in cmd'[frames'[p].to].on : n > p => Says(frames[n], g)'
    <3>1. frames[p].to \in Cmds /\ frames[p].to \in alone /\ cmd[frames[p].to].st = "asked"
          /\ p \in DOMAIN frames /\ frames' = frames
      BY <1>1, <1>2, <1>4, <2>4
    <3>2. /\ IsSo(frames[p].ans, frames[p].to)
          /\ \A n \in DOMAIN frames, g \in cmd[frames[p].to].on : n > p => Says(frames[n], g)
      BY <1>8, <2>4, <3>1 DEF CurrentCopy
    <3>. QED
      BY <1>1, <2>2, <3>1, <3>2 DEF IsSo
  <2>5. \A c \in alone' : cmd'[c].st = "answered" /\ cmd'[c].ans # Refusal =>
          /\ IsSo(cmd[c].ans, c)'
          /\ \A n \in DOMAIN frames', g \in cmd'[c].on : Says(frames[n], g)'
    BY <1>1, <1>2, <1>4, <1>8, <2>2 DEF CurrentCopy, IsSo
  <2>. QED
    BY <1>11, <2>3, <2>4, <2>5 DEF CurrentCopy
<1>. QED
  BY <1>1, <1>2, <1>3, <1>5, <1>6, <1>7, <1>9, <1>10, <1>11

\* A command returns: the copy has its answer, and, if nothing else touched its workspaces, they
\* are settled.
LEMMA ReturnStep ==
    ASSUME RootsTypeOK, CopyInv, NEW c \in Cmds, Return(c)
    PROVE  RootsTypeOK' /\ CopyInv'
<1>1. /\ cmd[c].st = "answered" /\ cmd' = [cmd EXCEPT ![c].st = "over"]
      /\ cache' = IF cmd[c].ans = Refusal THEN cache
                  ELSE IF cmd[c].verb = "list" THEN Load(cmd[c].ans) ELSE Upsert(cmd[c].ans)
      /\ settled' = IF cmd[c].ans # Refusal /\ c \in alone THEN settled \cup cmd[c].on ELSE settled
      /\ alone' = alone \ {c}
      /\ UNCHANGED <<db, born, leaving, reqs, reply, frames, others, cuts>>
  BY DEF Return, daemon_side
<1>2. cmd' = [d \in Cmds |-> IF d \in {c} THEN [cmd[d] EXCEPT !.st = "over"] ELSE cmd[d]]
  BY <1>1 DEF RootsTypeOK
<1>3. /\ Pending' /\ Answered' /\ Born' /\ CurrentReply'
      /\ settled' = settled => Solitude'
      /\ cache' = cache /\ settled' = settled => CurrentCopy'
      /\ cmd' \in [Cmds -> Commands]
  BY <1>1, <1>2, OverStep
<1>4. /\ cmd[c] \in Commands /\ cmd[c].on \subseteq Folders /\ cmd[c].ans \in Words
      /\ settled \subseteq Folders /\ alone \subseteq Cmds
  BY CmdIs DEF RootsTypeOK
<1>5. /\ cmd[c].ans = Refusal \/ DOMAIN cmd[c].ans = cmd[c].on
      /\ cmd[c].verb = "list" => cmd[c].on = Folders
      /\ cmd[c].on \cap settled = {}
  BY <1>1 DEF CopyInv, Answered, Fits, Solitude, Waits
<1>6. ASSUME cmd[c].ans # Refusal
      PROVE  /\ cache' \in {NeverLoaded} \cup [Folders -> SUBSET Roots]
             /\ \A f \in Folders : Known'[f] = IF f \in cmd[c].on THEN cmd[c].ans[f] ELSE Known[f]
  <2>1. CASE cmd[c].verb = "list"
    <3>1. cache' = Load(cmd[c].ans) /\ DOMAIN cmd[c].ans = Folders
      BY <1>1, <1>5, <1>6, <2>1
    <3>2. cache' \in [Folders -> SUBSET Roots] /\ Known' = cmd[c].ans
      BY <1>4, <3>1, LoadIs
    <3>. QED
      BY <1>5, <2>1, <3>2
  <2>2. CASE cmd[c].verb # "list"
    <3>1. cache' = Upsert(cmd[c].ans) /\ DOMAIN cmd[c].ans = cmd[c].on
      BY <1>1, <1>5, <1>6, <2>2
    <3>. QED
      BY <1>4, <3>1, UpsertIs
  <2>. QED
    BY <2>1, <2>2
<1>7. /\ cmd'[c].st = "over"
      /\ \A d \in Cmds : cmd'[d].on = cmd[d].on /\ (d # c => cmd'[d] = cmd[d])
  BY <1>1, <1>4 DEF RootsTypeOK, Commands
<1>8. RootsTypeOK'
  <2>1. cache' \in {NeverLoaded} \cup [Folders -> SUBSET Roots]
    BY <1>1, <1>6 DEF RootsTypeOK
  <2>2. settled' \subseteq Folders /\ alone' \subseteq Cmds
    BY <1>1, <1>4
  <2>. QED
    BY <1>1, <1>3, <2>1, <2>2 DEF RootsTypeOK
<1>9. Solitude'
  <2>1. \A d \in Cmds : Waits(d)' <=> d # c /\ Waits(d)
    BY <1>7 DEF Waits
  <2>2. \A d \in alone' : Waits(d)'
    BY <1>1, <1>4, <2>1 DEF CopyInv, Solitude
  <2>3. \A d \in alone', e \in Cmds : Waits(e)' /\ e # d => cmd'[d].on \cap cmd'[e].on = {}
    BY <1>1, <1>4, <1>7, <2>1 DEF CopyInv, Solitude
  <2>4. ASSUME NEW d \in Cmds, Waits(d)' PROVE cmd'[d].on \cap settled' = {}
    <3>1. d # c /\ Waits(d) /\ cmd'[d].on = cmd[d].on /\ cmd[d].on \cap settled = {}
      BY <1>7, <2>1, <2>4 DEF CopyInv, Solitude
    <3>2. c \in alone => cmd[c].on \cap cmd[d].on = {}
      BY <3>1 DEF CopyInv, Solitude
    <3>. QED
      BY <1>1, <3>1, <3>2
  <2>. QED
    BY <2>2, <2>3, <2>4 DEF Solitude
<1>10. CurrentCopy
  BY CurrentIs DEF CopyInv
<1>11. CurrentCopy'
  <2>1. CASE cmd[c].ans = Refusal
    BY <1>1, <1>3, <2>1
  <2>2. CASE cmd[c].ans # Refusal
    <3>1. \A n \in DOMAIN frames : \A g : Says(frames[n], g) => Says(frames[n], g)'
      BY <1>1 DEF Says
    <3>2. ASSUME NEW g \in settled'
          PROVE  Known'[g] = db'[g] /\ \A n \in DOMAIN frames' : Says(frames[n], g)'
      <4>1. CASE g \in cmd[c].on
        <5>1. c \in alone
          BY <1>1, <1>5, <2>2, <3>2, <4>1
        <5>2. /\ cmd[c].ans[g] = db[g]
              /\ \A n \in DOMAIN frames : Says(frames[n], g)
          BY <1>1, <1>10, <2>2, <4>1, <5>1 DEF CurrentCopy, IsSo
        <5>. QED
          BY <1>1, <1>4, <1>6, <2>2, <3>1, <4>1, <5>2
      <4>2. CASE g \notin cmd[c].on
        <5>1. g \in settled
          BY <1>1, <3>2, <4>2
        <5>2. /\ Known[g] = db[g]
              /\ \A n \in DOMAIN frames : Says(frames[n], g)
          BY <1>10, <5>1 DEF CurrentCopy
        <5>. QED
          BY <1>1, <1>4, <1>6, <2>2, <3>1, <4>2, <5>1, <5>2
      <4>. QED
        BY <4>1, <4>2
    <3>3. ASSUME NEW p \in DOMAIN frames', frames'[p].kind = "reply", frames'[p].to \in alone',
                 cmd'[frames'[p].to].st = "asked", frames'[p].ans # Refusal
          PROVE  /\ IsSo(frames[p].ans, frames[p].to)'
                 /\ \A n \in DOMAIN frames', g \in cmd'[frames'[p].to].on : n > p => Says(frames[n], g)'
      <4>1. /\ frames[p].to \in alone /\ frames[p].to \in Cmds
            /\ cmd'[frames[p].to] = cmd[frames[p].to] /\ p \in DOMAIN frames
        BY <1>1, <1>4, <1>7, <3>3
      <4>2. /\ IsSo(frames[p].ans, frames[p].to)
            /\ \A n \in DOMAIN frames, g \in cmd[frames[p].to].on : n > p => Says(frames[n], g)
        BY <1>1, <1>10, <3>3, <4>1 DEF CurrentCopy
      <4>. QED
        BY <1>1, <3>1, <4>1, <4>2 DEF IsSo
    <3>4. ASSUME NEW d \in alone', cmd'[d].st = "answered", cmd'[d].ans # Refusal
          PROVE  /\ IsSo(cmd[d].ans, d)'
                 /\ \A n \in DOMAIN frames', g \in cmd'[d].on : Says(frames[n], g)'
      <4>1. d \in alone /\ d \in Cmds /\ cmd'[d] = cmd[d]
        BY <1>1, <1>4, <1>7, <3>4
      <4>. QED
        BY <1>1, <1>10, <3>1, <3>4, <4>1 DEF CurrentCopy, IsSo
    <3>. QED
      BY <3>2, <3>3, <3>4 DEF CurrentCopy
  <2>. QED
    BY <2>1, <2>2
<1>. QED
  BY <1>3, <1>8, <1>9, <1>11, CurrentIs
  DEF CopyInv, CurrentCopy, CurrentReply, Current

\* A command gives up.
LEMMA TimeOutStep ==
    ASSUME RootsTypeOK, CopyInv, NEW c \in Cmds, TimeOut(c)
    PROVE  RootsTypeOK' /\ CopyInv'
<1>1. /\ cmd[c].st = "asked" /\ cmd' = [cmd EXCEPT ![c].st = "over"]
      /\ alone' = alone \ {c} /\ cuts' = cuts + 1
      /\ UNCHANGED <<db, born, leaving, reqs, reply, frames, cache, settled, others>>
  BY DEF TimeOut, daemon_side
<1>2. cmd' = [d \in Cmds |-> IF d \in {c} THEN [cmd[d] EXCEPT !.st = "over"] ELSE cmd[d]]
  BY <1>1 DEF RootsTypeOK
<1>3. /\ Pending' /\ Answered' /\ Born' /\ CurrentReply' /\ Solitude' /\ CurrentCopy'
      /\ cmd' \in [Cmds -> Commands] /\ alone' \subseteq Cmds
  BY <1>1, <1>2, OverStep
<1>4. RootsTypeOK'
  BY <1>1, <1>3 DEF RootsTypeOK
<1>. QED
  BY <1>3, <1>4, CurrentIs DEF CopyInv, CurrentCopy, CurrentReply, Current

\* The connection is lost, and with it everything that is on its way.
LEMMA CutStep == ASSUME RootsTypeOK, CopyInv, Cut PROVE RootsTypeOK' /\ CopyInv'
<1>1. /\ reqs' = <<>> /\ reply' = NoReply /\ frames' = <<>> /\ cuts' = cuts + 1
      /\ cmd' = [c \in Cmds |-> IF cmd[c].st = "asked" THEN [cmd[c] EXCEPT !.st = "over"] ELSE cmd[c]]
      /\ alone' = {c \in alone : cmd[c].st # "asked"}
      /\ UNCHANGED <<db, born, leaving, cache, settled, others>>
  BY DEF Cut, daemon_side
<1>2. PICK who \in SUBSET Cmds : who = {c \in Cmds : cmd[c].st = "asked"}
  OBVIOUS
<1>3. /\ cmd' = [c \in Cmds |-> IF c \in who THEN [cmd[c] EXCEPT !.st = "over"] ELSE cmd[c]]
      /\ alone' = alone \ who
      /\ \A c \in who : cmd[c].st # "new"
  BY <1>1, <1>2 DEF RootsTypeOK
<1>4. /\ Pending' /\ Answered' /\ Born' /\ CurrentReply' /\ Solitude' /\ CurrentCopy'
      /\ cmd' \in [Cmds -> Commands] /\ alone' \subseteq Cmds
      /\ reqs' \in Seq(RootRequests) /\ frames' \in Seq(RootFrames)
      /\ reply' \in {NoReply} \cup [to : Cmds, ans : Words, after : SUBSET Folders]
  BY <1>1, <1>3, OverStep
<1>5. RootsTypeOK'
  BY <1>1, <1>4 DEF RootsTypeOK
<1>. QED
  BY <1>4, <1>5, CurrentIs DEF CopyInv, CurrentCopy, CurrentReply, Current

----------------------------------------------------------------------------
\* Nothing is on its way at first, and no command has begun.
LEMMA RootsStart == RootsInit => RootsTypeOK /\ CopyInv
<1>. SUFFICES ASSUME RootsInit PROVE RootsTypeOK /\ CopyInv
  OBVIOUS
<1>1. PICK f \in Folders, R \in SUBSET Roots :
        db = [g \in Folders |-> IF g = f THEN R ELSE {}] /\ born = {f}
  BY DEF RootsInit
<1>2. /\ leaving = {} /\ reqs = <<>> /\ reply = NoReply /\ frames = <<>> /\ cache = NeverLoaded
      /\ alone = {} /\ settled = {} /\ others = 0 /\ cuts = 0
      /\ cmd = [c \in Cmds |-> [st |-> "new", verb |-> "none", on |-> {}, ans |-> Refusal]]
  BY DEF RootsInit
<1>3. /\ cmd \in [Cmds -> Commands]
      /\ \A c \in Cmds : cmd[c].st = "new" /\ cmd[c].verb = "none"
  BY <1>2, RefusalIs DEF Commands
<1>4. DOMAIN reqs = {} /\ DOMAIN frames = {} /\ reqs \in Seq(RootRequests) /\ frames \in Seq(RootFrames)
  BY <1>2, EmptySeq
<1>5. db \in [Folders -> SUBSET Roots]
  BY <1>1
<1>6. RootsTypeOK
  BY <1>1, <1>2, <1>3, <1>4, <1>5 DEF RootsTypeOK
<1>7. Pending /\ Answered /\ Born
  BY <1>1, <1>2, <1>3, <1>4 DEF Pending, Answered, Born
<1>8. Solitude /\ Current
  BY <1>2, <1>3, <1>4 DEF Solitude, Current, Waits
<1>. QED
  BY <1>6, <1>7, <1>8 DEF CopyInv

\* Every action keeps the invariant.
LEMMA RootsStep == RootsTypeOK /\ CopyInv /\ [RootsNext]_roots_vars => RootsTypeOK' /\ CopyInv'
<1>. SUFFICES ASSUME RootsTypeOK, CopyInv, [RootsNext]_roots_vars PROVE RootsTypeOK' /\ CopyInv'
  OBVIOUS
<1>1. \A r \in Roots : {r} \in SUBSET Roots
  OBVIOUS
<1>2. ASSUME NEW v \in Verbs, NEW f \in Folders, NEW r \in Roots, Other(v, f, {r})
      PROVE  RootsTypeOK' /\ CopyInv'
  BY <1>1, <1>2, OtherStep
<1>3. ASSUME NEW f \in Folders, Announce(f) PROVE RootsTypeOK' /\ CopyInv'
  BY <1>3, AnnounceStep
<1>4. ASSUME NEW i \in DOMAIN reqs, ServeList(reqs[i]) \/ ServeRefused(reqs[i]) \/ ServeChange(reqs[i])
      PROVE  RootsTypeOK' /\ CopyInv'
  BY <1>4, ServeStep, ChangeStep
<1>5. CASE SendReply
  BY <1>5, SendReplyStep
<1>6. CASE Receive
  <2>1. 1 \in DOMAIN frames
    BY <1>6, ReceiveIs
  <2>2. frames[1].kind = "push" \/ frames[1].kind = "reply"
    BY <2>1, FrameAt
  <2>. QED
    BY <1>6, <2>2, PushStep, ReplyStep
<1>7. CASE Cut
  BY <1>7, CutStep
<1>8. ASSUME NEW c \in Cmds, NEW v \in Verbs, NEW f \in Folders, NEW r \in Roots, AskChange(c, v, f, {r})
      PROVE  RootsTypeOK' /\ CopyInv'
  <2>1. PICK q : q = [by |-> c, verb |-> v, on |-> f, roots |-> {r}]
    OBVIOUS
  <2>2. q \in RootRequests /\ q.by = c /\ q.verb = v /\ q.on = f /\ v # "list"
    BY <1>1, <2>1 DEF RootRequests, Verbs
  <2>3. Ask(c, v, {f}, q) /\ born' = born \cup {f} /\ (v = "create" => f \notin born)
    BY <1>8, <2>1 DEF AskChange
  <2>. QED
    BY <2>2, <2>3, AskStep
<1>9. ASSUME NEW c \in Cmds, AskList(c) PROVE RootsTypeOK' /\ CopyInv'
  <2>1. PICK q : q = [by |-> c, verb |-> "list"]
    OBVIOUS
  <2>2. q \in RootRequests /\ q.by = c /\ q.verb = "list"
    BY <2>1 DEF RootRequests
  <2>3. Ask(c, "list", Folders, q) /\ born' = born
    BY <1>9, <2>1 DEF AskList
  <2>. QED
    BY <2>2, <2>3, AskStep
<1>10. ASSUME NEW c \in Cmds, Return(c) \/ TimeOut(c) PROVE RootsTypeOK' /\ CopyInv'
  BY <1>10, ReturnStep, TimeOutStep
<1>11. CASE UNCHANGED roots_vars
  <2>1. UNCHANGED <<db, born, leaving, reqs, reply, frames, cache, cmd, alone, settled, others, cuts>>
    BY <1>11 DEF roots_vars, daemon_side
  <2>2. RootsTypeOK'
    BY <2>1 DEF RootsTypeOK
  <2>3. Pending' /\ Answered' /\ Born' /\ Solitude'
    BY <2>1 DEF CopyInv, Pending, Answered, Fits, Born, Solitude, Waits
  <2>4. CurrentReply'
    BY <2>1, CurrentIs DEF CopyInv, CurrentReply, IsSo
  <2>5. CurrentCopy'
    <3>1. CurrentCopy
      BY CurrentIs DEF CopyInv
    <3>2. /\ Known' = Known
          /\ \A m, g : Says(m, g) => Says(m, g)'
          /\ \A ans, c : IsSo(ans, c) => IsSo(ans, c)'
      BY <2>1 DEF Known, Says, IsSo
    <3>3. \A g \in settled : Known'[g] = db'[g] /\ \A n \in DOMAIN frames : Says(frames[n], g)'
      BY <2>1, <3>1, <3>2 DEF CurrentCopy, Says
    <3>4. ASSUME NEW p \in DOMAIN frames, frames[p].kind = "reply", frames[p].to \in alone,
                 cmd[frames[p].to].st = "asked", frames[p].ans # Refusal
          PROVE  /\ IsSo(frames[p].ans, frames[p].to)'
                 /\ \A n \in DOMAIN frames, g \in cmd[frames[p].to].on : n > p => Says(frames[n], g)'
      BY <2>1, <3>1, <3>4 DEF CurrentCopy, Says, IsSo
    <3>5. ASSUME NEW c \in alone, cmd[c].st = "answered", cmd[c].ans # Refusal
          PROVE  /\ IsSo(cmd[c].ans, c)'
                 /\ \A n \in DOMAIN frames, g \in cmd[c].on : Says(frames[n], g)'
      BY <2>1, <3>1, <3>5 DEF CurrentCopy, Says, IsSo
    <3>. QED
      BY <2>1, <3>3, <3>4, <3>5 DEF CurrentCopy
  <2>. QED
    BY <2>2, <2>3, <2>4, <2>5, CurrentIs DEF CopyInv, CurrentCopy, CurrentReply, Current
<1>. QED
  BY <1>2, <1>3, <1>4, <1>5, <1>6, <1>7, <1>8, <1>9, <1>10, <1>11 DEF RootsNext

\* The types of the workspaces, of the copy and of what is on its way.
THEOREM RootsTypeCorrect == RootsSpec => []RootsTypeOK
<1>. QED
  BY RootsStart, RootsStep, PTL DEF RootsSpec

\* Once a command has returned, the copy of workspaces nothing else has touched is the daemon's
\* (commands.rs, upsert_workspace_roots, remove_workspace_roots and load_workspace_roots): its
\* answer says what the database does, and so does whatever push comes after it.
THEOREM OwnWordTheorem == RootsSpec => []OwnWordHolds
<1>1. RootsTypeOK /\ CopyInv => OwnWordHolds
  BY DEF CopyInv, Current, OwnWordHolds
<1>. QED
  BY <1>1, RootsStart, RootsStep, PTL DEF RootsSpec
=============================================================================
