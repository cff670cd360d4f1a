---------------------------- MODULE WorkspaceRoots ----------------------------
(***************************************************************************)
(* The workspaces of sessiond and the core's copy of their roots, by which *)
(* the file commands and the file watcher judge a path (commands.rs,       *)
(* BL-109).  Every ListWorkspaces reply replaces the copy; the replies of  *)
(* the four workspace commands, each applied by a task of its own, and the *)
(* daemon's broadcasts change an entry of it.                              *)
(*                                                                         *)
(* Other clients of the daemon change workspaces too.  A root is a path    *)
(* that was validated; a workspace without roots is one that is not there. *)
(* A definition marked `Bug:' is a faulty variant of the next.             *)
(***************************************************************************)
EXTENDS Naturals, Sequences

CONSTANTS
    Folders,      \* workspace ids
    Roots,
    Cmds,         \* commands of this core, each called once
    QueueCap,     \* the frames that wait for this client
    MaxOthers,    \* bound on the changes of others
    MaxCuts,      \* bound on lost connections
    NeverLoaded, Nobody

ASSUME RootsAssumption == Nobody \notin Cmds /\ NeverLoaded \notin [Folders -> SUBSET Roots]

VARIABLES
    db,           \* db[f]: the roots of a workspace
    born,         \* ids that were given
    leaving,      \* workspaces deleted and not yet announced
    reqs,         \* requests of this core's connection, in order
    reply,        \* the answer its handler has, or none
    frames,       \* pushes and replies on their way to the core, in order
    cache,        \* the core's copy
    cmd,          \* cmd[c]: how far a command is, the workspaces it is on and its answer
    alone,        \* commands in flight whose workspaces nothing else has touched
    settled,      \* workspaces nothing has touched since a command alone on them returned
    others, cuts

daemon_side == <<db, born, leaving>>
roots_vars == <<daemon_side, reqs, reply, frames, cache, cmd, alone, settled, others, cuts>>

\* An answer, or a push, says of some workspaces which roots they have.
Word(f, R) == [g \in {f} |-> R]
Refusal == [f \in {} |-> {}]
NoReply == [to |-> Nobody, ans |-> Refusal, after |-> {}]

RootsInit ==
    /\ \E f \in Folders, R \in SUBSET Roots \ {{}} :
         /\ db = [g \in Folders |-> IF g = f THEN R ELSE {}]
         /\ born = {f}
    /\ leaving = {} /\ reqs = <<>> /\ reply = NoReply /\ frames = <<>>
    /\ cache = NeverLoaded
    /\ cmd = [c \in Cmds |-> [st |-> "new", verb |-> "none", on |-> {}, ans |-> Refusal]]
    /\ alone = {} /\ settled = {} /\ others = 0 /\ cuts = 0

Verbs == {"create", "add", "drop", "remove"}
Words == UNION {[F -> SUBSET Roots] : F \in SUBSET Folders}
RootRequests == [by : Cmds, verb : {"list"}] \cup [by : Cmds, verb : Verbs, on : Folders, roots : SUBSET Roots]
RootFrames == [kind : {"push"}, to : {Nobody}, ans : Words] \cup [kind : {"reply"}, to : Cmds, ans : Words]
Commands == [st : {"new", "asked", "answered", "over"}, verb : Verbs \cup {"none", "list"},
             on : SUBSET Folders, ans : Words]

RootsTypeOK ==
    /\ db \in [Folders -> SUBSET Roots] /\ born \subseteq Folders /\ leaving \subseteq Folders
    /\ reqs \in Seq(RootRequests) /\ frames \in Seq(RootFrames)
    /\ reply \in {NoReply} \cup [to : Cmds, ans : Words, after : SUBSET Folders]
    /\ cache \in {NeverLoaded} \cup [Folders -> SUBSET Roots]
    /\ cmd \in [Cmds -> Commands]
    /\ alone \subseteq Cmds /\ settled \subseteq Folders
    /\ others \in Nat /\ cuts \in Nat

----------------------------------------------------------------------------
(* History: who touched what *)

Waits(c) == cmd[c].st \in {"asked", "answered"}
Touching(F) == {c \in Cmds : Waits(c) /\ cmd[c].on \cap F # {}}

\* A change of F that is not c's.
Disturb(F, c) ==
    /\ alone' = alone \ (Touching(F) \ {c})
    /\ settled' = settled \ F

----------------------------------------------------------------------------
(* The daemon: a commit and its broadcast are under the database mutex, but for a removal's *)

\* A push finds room in the client's queue, or is skipped.
Pushed(q, f, R) ==
    IF Len(q) < QueueCap THEN Append(q, [kind |-> "push", to |-> Nobody, ans |-> Word(f, R)]) ELSE q

\* The workspaces after a verb; a root that is there is added, or one that is not dropped, for nothing.
After(verb, f, R) ==
    CASE verb = "create" -> [db EXCEPT ![f] = R]
      [] verb = "add" -> [db EXCEPT ![f] = @ \cup R]
      [] verb = "drop" -> [db EXCEPT ![f] = @ \ R]
      [] verb = "remove" -> [db EXCEPT ![f] = {}]

Refused(verb, f, R) ==
    \/ verb # "create" /\ db[f] = {}
    \/ verb = "drop" /\ db[f] \subseteq R

Commit(verb, f, R) ==
    /\ ~Refused(verb, f, R)
    /\ db' = After(verb, f, R)
    /\ born' = born \cup {f}
    /\ leaving' = IF verb = "remove" THEN leaving \cup {f} ELSE leaving
    /\ frames' = IF verb = "remove" THEN frames ELSE Pushed(frames, f, db'[f])

\* Another client's change, or that of a request whose connection is gone.
Other(verb, f, R) ==
    /\ others < MaxOthers /\ others' = others + 1
    /\ (verb = "create") # (f \in born)
    /\ Commit(verb, f, R)
    /\ Disturb({f}, Nobody)
    /\ UNCHANGED <<reqs, reply, cache, cmd, cuts>>

\* WorkspaceRemoved comes after the strays of the workspace are killed.
Announce(f) ==
    /\ f \in leaving /\ leaving' = leaving \ {f}
    /\ frames' = Pushed(frames, f, {})
    /\ UNCHANGED <<db, born, reqs, reply, cache, cmd, alone, settled, others, cuts>>

\* The requests of a connection are handled one at a time.
Handles(q) == reply = NoReply /\ reqs # <<>> /\ q = Head(reqs) /\ reqs' = Tail(reqs)

Answer(q, ans) ==
    reply' = [to |-> q.by, ans |-> ans, after |-> IF q.verb = "remove" THEN {q.on} ELSE {}]

ServeList(q) ==
    /\ Handles(q) /\ q.verb = "list"
    /\ Answer(q, db)
    /\ UNCHANGED <<daemon_side, frames, cache, cmd, alone, settled, others, cuts>>

ServeRefused(q) ==
    /\ Handles(q) /\ q.verb # "list" /\ Refused(q.verb, q.on, q.roots)
    /\ Answer(q, Refusal)
    /\ UNCHANGED <<daemon_side, frames, cache, cmd, alone, settled, others, cuts>>

ServeChange(q) ==
    /\ Handles(q) /\ q.verb # "list" /\ Commit(q.verb, q.on, q.roots)
    /\ Answer(q, Word(q.on, db'[q.on]))
    /\ Disturb({q.on}, q.by)
    /\ UNCHANGED <<cache, cmd, others, cuts>>

\* A removal is answered after its broadcast; a full queue ends the connection instead.
SendReply ==
    /\ reply # NoReply /\ reply.after \cap leaving = {}
    /\ Len(frames) < QueueCap
    /\ frames' = Append(frames, [kind |-> "reply", to |-> reply.to, ans |-> reply.ans])
    /\ reply' = NoReply
    /\ UNCHANGED <<daemon_side, reqs, cache, cmd, alone, settled, others, cuts>>

----------------------------------------------------------------------------
(* The core *)

Known == IF cache = NeverLoaded THEN [f \in Folders |-> {}] ELSE cache

\* The copy with what an answer says of some workspaces.
Amended(ans) == [f \in Folders |-> IF f \in DOMAIN ans THEN ans[f] ELSE Known[f]]

\* Bug: a push that the roots have changed is not applied.
CreatedOnly(ans) == IF \E f \in DOMAIN ans : Known[f] = {} THEN Amended(ans) ELSE cache

\* upsert_workspace_roots, or remove_workspace_roots, which leaves a copy never loaded alone.
Upsert(ans) ==
    IF cache = NeverLoaded /\ \A f \in DOMAIN ans : ans[f] = {} THEN cache ELSE Amended(ans)

\* Bug: a list adds what it names and keeps the rest.
Merge(ans) == [f \in Folders |-> IF ans[f] = {} THEN Known[f] ELSE ans[f]]

\* load_workspace_roots: the list is the whole copy.
Load(ans) == ans

\* A command of the window, on the workspaces F.
Ask(c, verb, F, q) ==
    /\ cmd[c].st = "new"
    /\ cmd' = [cmd EXCEPT ![c] = [st |-> "asked", verb |-> verb, on |-> F, ans |-> Refusal]]
    /\ alone' = IF Touching(F) = {} THEN alone \cup {c} ELSE alone \ Touching(F)
    /\ settled' = settled \ F
    /\ reqs' = Append(reqs, q)
    /\ UNCHANGED <<db, leaving, reply, frames, cache, others, cuts>>

AskList(c) ==
    /\ Ask(c, "list", Folders, [by |-> c, verb |-> "list"])
    /\ UNCHANGED born

\* The id of a new workspace is the daemon's to choose.
AskChange(c, verb, f, R) ==
    /\ (verb = "create") # (f \in born)
    /\ Ask(c, verb, {f}, [by |-> c, verb |-> verb, on |-> f, roots |-> R])
    /\ born' = born \cup {f}

\* The connection's task applies a push itself and hands a reply to its caller.
Receive ==
    /\ frames # <<>> /\ frames' = Tail(frames)
    /\ LET m == Head(frames) IN
       IF m.kind = "push"
       THEN cache' = Upsert(m.ans) /\ UNCHANGED cmd
       ELSE /\ cmd' = IF cmd[m.to].st = "asked"
                      THEN [cmd EXCEPT ![m.to].st = "answered", ![m.to].ans = m.ans] ELSE cmd
            /\ UNCHANGED cache
    /\ UNCHANGED <<daemon_side, reqs, reply, alone, settled, others, cuts>>

\* The command's task goes on: the copy is changed, and the command returns.
Return(c) ==
    /\ cmd[c].st = "answered"
    /\ cmd' = [cmd EXCEPT ![c].st = "over"]
    /\ LET ok == cmd[c].ans # Refusal IN
       /\ cache' = IF ~ok THEN cache
                   ELSE IF cmd[c].verb = "list" THEN Load(cmd[c].ans) ELSE Upsert(cmd[c].ans)
       /\ settled' = IF ok /\ c \in alone THEN settled \cup cmd[c].on ELSE settled
    /\ alone' = alone \ {c}
    /\ UNCHANGED <<daemon_side, reqs, reply, frames, others, cuts>>

\* REQUEST_TIMEOUT passes; the request is handled all the same.
TimeOut(c) ==
    /\ cmd[c].st = "asked" /\ cuts < MaxCuts /\ cuts' = cuts + 1
    /\ cmd' = [cmd EXCEPT ![c].st = "over"]
    /\ alone' = alone \ {c}
    /\ UNCHANGED <<daemon_side, reqs, reply, frames, cache, settled, others>>

\* The connection is lost with what is on its way, either way.
Cut ==
    /\ cuts < MaxCuts /\ cuts' = cuts + 1
    /\ reqs' = <<>> /\ reply' = NoReply /\ frames' = <<>>
    /\ cmd' = [c \in Cmds |-> IF cmd[c].st = "asked" THEN [cmd[c] EXCEPT !.st = "over"] ELSE cmd[c]]
    /\ alone' = {c \in alone : cmd[c].st # "asked"}
    /\ UNCHANGED <<daemon_side, cache, settled, others>>

----------------------------------------------------------------------------

RootsNext ==
    \/ \E v \in Verbs, f \in Folders, r \in Roots : Other(v, f, {r})
    \/ \E f \in Folders : Announce(f)
    \/ \E i \in DOMAIN reqs : ServeList(reqs[i]) \/ ServeRefused(reqs[i]) \/ ServeChange(reqs[i])
    \/ SendReply \/ Receive \/ Cut
    \/ \E c \in Cmds, v \in Verbs, f \in Folders, r \in Roots : AskChange(c, v, f, {r})
    \/ \E c \in Cmds : AskList(c) \/ Return(c) \/ TimeOut(c)

RootsSpec == RootsInit /\ [][RootsNext]_roots_vars

----------------------------------------------------------------------------

\* When a command returns with success, and nothing else touched its workspaces meanwhile, the
\* core's copy of them is the daemon's, and stays so until somebody asks for another change or
\* a list: whatever pushes were skipped and in whichever order they came (commands.rs: "the
\* removed root must stop passing the guard immediately").
OwnWordHolds ==
    \A f \in settled : Known[f] = db[f]
=============================================================================
