----------------------------- MODULE DomainStore -----------------------------
(***************************************************************************)
(* The domain rows of orchd's store (crates/orchd/src/persistence.rs):     *)
(* projects and their workspace links, the goal and the task trees, ideas  *)
(* and insights.  Every verb runs under the one database mutex of          *)
(* socket_server.rs::dispatch_inner and in one SQLite transaction, so it   *)
(* is one step; a refused verb changes nothing and is not a step.          *)
(*                                                                         *)
(* A row keeps what the verbs decide by (kind, project, parent, an         *)
(* insight's status) and one bit, rev, that flips when any other column    *)
(* (title, body, rank, lifecycle, updated_at...) is written.  Row ids are  *)
(* uuids: an id in spent is never issued again.                            *)
(*                                                                         *)
(* A definition marked `Bug:' is a faulty variant of the next one, used by *)
(* no action.                                                              *)
(***************************************************************************)
EXTENDS Naturals, FiniteSets

CONSTANTS
    Projects,     \* project ids the store may issue
    Workspaces,   \* sessiond workspace ids a project may link
    Ids,          \* ids of goals, tasks, ideas and insights
    MaxDepth,     \* MAX_ANCESTOR_DEPTH
    None          \* SQL NULL

ASSUME NoneAssumption == None \notin Projects \cup Ids
ASSUME DepthAssumption == MaxDepth \in Nat

VARIABLES
    project,      \* project[p]: the project row, status "absent" before its creation
    link,         \* link[w]: the project a workspace is linked to (UNIQUE column)
    row,          \* row[i]: the goal, task, idea or insight row with id i, or NoRow
    spent         \* the ids issued so far

domain_vars == <<project, link, row, spent>>

GoalKinds == {"strategic", "additional"}
LooseKinds == {"idea", "insight"}
Kinds == GoalKinds \cup LooseKinds \cup {"task"}
InsightStatus == {"new", "accepted", "archived"}

NoRow == [kind |-> "none", project |-> None, parent |-> None, rev |-> 0, status |-> "new"]

Row == [kind : Kinds \cup {"none"}, project : Projects \cup {None},
        parent : Ids \cup {None}, rev : {0, 1}, status : InsightStatus]

ProjectRow == [status : {"absent", "active", "archived"}, rev : {0, 1}]

Live(i) == row[i].kind # "none"
Is(i, kinds) == row[i].kind \in kinds

\* ensure_project_active, and its form for a nullable project column.
Active(p) == project[p].status = "active"
ActiveOrNone(p) == p = None \/ (p \in Projects /\ Active(p))

\* What the parent_id chain from i visits, i included: the least set that holds
\* i and, with a row, its parent.
ClosedUp(S) == \A x \in S : row[x].parent \in Ids => row[x].parent \in S
Chain(i) == {x \in Ids : \A S \in SUBSET Ids : i \in S /\ ClosedUp(S) => x \in S}

\* The rows ON DELETE CASCADE on parent_id removes with i.
Subtree(i) == {x \in Ids : Live(x) /\ i \in Chain(x)}

Fresh(i) == i \in Ids \ spent

NewRow(kind, p, parent) ==
    [kind |-> kind, project |-> p, parent |-> parent, rev |-> 0, status |-> "new"]

Touched(r) == [r EXCEPT !.rev = 1 - r.rev]

Insert(i, r) ==
    /\ row' = [row EXCEPT ![i] = r]
    /\ spent' = spent \cup {i}

Delete(S) ==
    /\ row' = [i \in Ids |-> IF i \in S THEN NoRow ELSE row[i]]
    /\ UNCHANGED spent

Change(i, r) == row' = [row EXCEPT ![i] = r] /\ UNCHANGED spent

----------------------------------------------------------------------------
Init ==
    /\ project = [p \in Projects |-> [status |-> "absent", rev |-> 0]]
    /\ link = [w \in Workspaces |-> None]
    /\ row = [i \in Ids |-> NoRow]
    /\ spent = {}

(* Projects and workspace links *)

CreateProject(p, W, g) ==
    /\ W # {}
    /\ project[p].status = "absent"
    /\ \A w \in W : link[w] = None
    /\ Fresh(g)
    /\ project' = [project EXCEPT ![p].status = "active"]
    /\ link' = [w \in Workspaces |-> IF w \in W THEN p ELSE link[w]]
    /\ Insert(g, NewRow("strategic", p, None))

UpdateProject(p) ==
    /\ Active(p)
    /\ project' = [project EXCEPT ![p].rev = 1 - project[p].rev]
    /\ UNCHANGED <<link, row, spent>>

ArchiveProject(p) ==
    /\ Active(p)
    /\ project' = [project EXCEPT ![p].status = "archived"]
    /\ UNCHANGED <<link, row, spent>>

UnarchiveProject(p) ==
    /\ project[p].status = "archived"
    /\ project' = [project EXCEPT ![p].status = "active"]
    /\ UNCHANGED <<link, row, spent>>

AddProjectWorkspace(p, w) ==
    /\ Active(p)
    /\ link[w] = None
    /\ link' = [link EXCEPT ![w] = p]
    /\ UNCHANGED <<project, row, spent>>

LinksOf(p) == {w \in Workspaces : link[w] = p}

RemoveProjectWorkspace(p, w) ==
    /\ Active(p)
    /\ link[w] = p
    /\ LinksOf(p) \ {w} # {}
    /\ link' = [link EXCEPT ![w] = None]
    /\ UNCHANGED <<project, row, spent>>

(* Goals *)

StrategicOf(p) == {g \in Ids : Is(g, {"strategic"}) /\ row[g].project = p}

CreateGoal(g, p, kind, parent) ==
    /\ Active(p)
    /\ Fresh(g)
    /\ IF kind = "strategic"
       THEN parent = None /\ StrategicOf(p) = {}
       ELSE parent \in Ids /\ Is(parent, GoalKinds) /\ row[parent].project = p
    /\ Insert(g, NewRow(kind, p, parent))
    /\ UNCHANGED <<project, link>>

UpdateGoal(g) ==
    /\ Is(g, GoalKinds)
    /\ Active(row[g].project)
    /\ Change(g, Touched(row[g]))
    /\ UNCHANGED <<project, link>>

\* Bug: the move does not look for a cycle.
MoveGoalUnwalked(g, parent) ==
    /\ Is(g, {"additional"})
    /\ Active(row[g].project)
    /\ Is(parent, GoalKinds)
    /\ row[parent].project = row[g].project
    /\ Change(g, [Touched(row[g]) EXCEPT !.parent = parent])
    /\ UNCHANGED <<project, link>>

MoveGoal(g, parent) ==
    /\ Is(g, {"additional"})
    /\ Active(row[g].project)
    /\ Is(parent, GoalKinds)
    /\ row[parent].project = row[g].project
    /\ g \notin Chain(parent)
    /\ Cardinality(Chain(parent)) < MaxDepth
    /\ Change(g, [Touched(row[g]) EXCEPT !.parent = parent])
    /\ UNCHANGED <<project, link>>

DeleteGoal(g) ==
    /\ Is(g, {"additional"})
    /\ Active(row[g].project)
    /\ Delete(Subtree(g))
    /\ UNCHANGED <<project, link>>

(* Tasks *)

CreateTask(t, p, parent) ==
    /\ Active(p)
    /\ Fresh(t)
    /\ parent # None =>
         /\ Is(parent, {"task"})
         /\ row[parent].project = p
         /\ Cardinality(Chain(parent)) < MaxDepth
    /\ Insert(t, NewRow("task", p, parent))
    /\ UNCHANGED <<project, link>>

WriteTask(t) ==
    /\ Is(t, {"task"})
    /\ Active(row[t].project)
    /\ Change(t, Touched(row[t]))
    /\ UNCHANGED <<project, link>>

UpdateTask(t) == WriteTask(t)
SetTaskStatus(t) == WriteTask(t)
SetTaskPriority(t) == WriteTask(t)
SetTaskRank(t) == WriteTask(t)

DeleteTask(t) ==
    /\ Is(t, {"task"})
    /\ Active(row[t].project)
    /\ Delete(Subtree(t))
    /\ UNCHANGED <<project, link>>

(* Ideas and insights: their project may be NULL, an orphan is always mutable *)

CreateLoose(i, kind, p) ==
    /\ ActiveOrNone(p)
    /\ Fresh(i)
    /\ Insert(i, NewRow(kind, p, None))
    /\ UNCHANGED <<project, link>>

WriteLoose(i, kind) ==
    /\ Is(i, {kind})
    /\ ActiveOrNone(row[i].project)
    /\ Change(i, Touched(row[i]))
    /\ UNCHANGED <<project, link>>

DeleteLoose(i, kind) ==
    /\ Is(i, {kind})
    /\ ActiveOrNone(row[i].project)
    /\ Delete({i})
    /\ UNCHANGED <<project, link>>

CreateIdea(i, p) == CreateLoose(i, "idea", p)
UpdateIdea(i) == WriteLoose(i, "idea")
SetIdeaLifecycle(i) == WriteLoose(i, "idea")
DeleteIdea(i) == DeleteLoose(i, "idea")

CreateInsight(i, p) == CreateLoose(i, "insight", p)
UpdateInsight(i) == WriteLoose(i, "insight")
SetInsightFitVerdict(i) == WriteLoose(i, "insight")
DeleteInsight(i) == DeleteLoose(i, "insight")

\* Bug: only the project the idea leaves is asked.
SetIdeaProjectHalf(i, p) ==
    /\ Is(i, {"idea"})
    /\ ActiveOrNone(row[i].project)
    /\ Change(i, [Touched(row[i]) EXCEPT !.project = p])
    /\ UNCHANGED <<project, link>>

SetIdeaProject(i, p) ==
    /\ Is(i, {"idea"})
    /\ ActiveOrNone(row[i].project)
    /\ ActiveOrNone(p)
    /\ Change(i, [Touched(row[i]) EXCEPT !.project = p])
    /\ UNCHANGED <<project, link>>

SetInsightStatus(i, status) ==
    /\ Is(i, {"insight"})
    /\ ActiveOrNone(row[i].project)
    /\ Change(i, [Touched(row[i]) EXCEPT !.status = status])
    /\ UNCHANGED <<project, link>>

----------------------------------------------------------------------------
ProjectVerb(p) ==
    \/ \E W \in SUBSET Workspaces, g \in Ids : CreateProject(p, W, g)
    \/ UpdateProject(p)
    \/ ArchiveProject(p)
    \/ UnarchiveProject(p)
    \/ \E w \in Workspaces : AddProjectWorkspace(p, w) \/ RemoveProjectWorkspace(p, w)

GoalVerb(g) ==
    \/ \E p \in Projects, kind \in GoalKinds, parent \in Ids \cup {None} :
          CreateGoal(g, p, kind, parent)
    \/ UpdateGoal(g)
    \/ \E parent \in Ids : MoveGoal(g, parent)
    \/ DeleteGoal(g)

TaskVerb(t) ==
    \/ \E p \in Projects, parent \in Ids \cup {None} : CreateTask(t, p, parent)
    \/ UpdateTask(t) \/ SetTaskStatus(t) \/ SetTaskPriority(t) \/ SetTaskRank(t)
    \/ DeleteTask(t)

IdeaVerb(i) ==
    \/ \E p \in Projects \cup {None} : CreateIdea(i, p) \/ SetIdeaProject(i, p)
    \/ UpdateIdea(i) \/ SetIdeaLifecycle(i)
    \/ DeleteIdea(i)

\* All but SetInsightStatus.
InsightVerb(i) ==
    \/ \E p \in Projects \cup {None} : CreateInsight(i, p)
    \/ UpdateInsight(i) \/ SetInsightFitVerdict(i)
    \/ DeleteInsight(i)

RowVerb(i) == GoalVerb(i) \/ TaskVerb(i) \/ IdeaVerb(i) \/ InsightVerb(i)

Next ==
    \/ \E p \in Projects : ProjectVerb(p)
    \/ \E i \in Ids : RowVerb(i) \/ \E status \in InsightStatus : SetInsightStatus(i, status)

Spec == Init /\ [][Next]_domain_vars

----------------------------------------------------------------------------
TypeOK ==
    /\ project \in [Projects -> ProjectRow]
    /\ link \in [Workspaces -> Projects \cup {None}]
    /\ row \in [Ids -> Row]
    /\ spent \in SUBSET Ids

\* A parent_id names a live row of the same tree and the same project: no verb
\* leaves a dangling parent behind, whatever was moved before a cascade.
ParentsHold ==
    \A i \in Ids : row[i].parent # None =>
        /\ Live(row[i].parent)
        /\ row[row[i].parent].project = row[i].project
        /\ Is(i, {"additional"}) => Is(row[i].parent, GoalKinds)
        /\ Is(i, {"task"}) => Is(row[i].parent, {"task"})

\* No parent_id chain closes on itself: no set of rows keeps all its parents
\* inside.  move_goal's walk is the only thing that keeps it so.
Acyclic ==
    \A S \in SUBSET Ids : S # {} => \E i \in S : row[i].parent \notin S

\* Every project that exists has exactly one strategic goal, and every goal of
\* the project hangs below it: the goal tree has one root.
OneRoot ==
    \A p \in Projects : project[p].status # "absent" =>
        \E g \in StrategicOf(p) :
            /\ StrategicOf(p) = {g}
            /\ \A i \in Ids : Is(i, GoalKinds) /\ row[i].project = p => g \in Chain(i)

\* The goal and task trees stay trees, one goal tree per project.
TreesHold == ParentsHold /\ Acyclic /\ OneRoot

RowsOf(p) == {i \in Ids : row[i].project = p}

\* An archived project is read-only: while it stays archived no verb changes,
\* adds, moves in, moves out or removes one of its rows or links.
FrozenBy(p) ==
    project[p].status = "archived" =>
        \/ project'[p].status = "active"
        \/ /\ project'[p] = project[p]
           /\ \A i \in Ids :
                i \in RowsOf(p) \cup RowsOf(p)' => row'[i] = row[i]
           /\ \A w \in Workspaces : (link[w] = p) <=> (link'[w] = p)

ArchivedFrozen == [][\A p \in Projects : FrozenBy(p)]_domain_vars
=============================================================================
