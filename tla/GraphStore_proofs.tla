--------------------------- MODULE GraphStore_proofs ---------------------------
(***************************************************************************)
(* For any number of projects, workspaces and rows, and any bound on the   *)
(* depth of the trees: DomainStore is type correct, its goal and task      *)
(* trees stay trees with one strategic goal as the root of each project's, *)
(* and an archived project is read-only.  A step changes the rows in one   *)
(* of four ways: it adds a row, rewrites one in its place, moves a goal,   *)
(* or deletes a set of rows that holds every child of its members.         *)
(* StepLemma says so; each conjunct of the invariant is then shown of the  *)
(* four ways and not of every verb.                                        *)
(*                                                                         *)
(* For any number of nodes and kinds of edges besides: the graph of        *)
(* GraphStore has no edge without its ends and no entity with two nodes, a *)
(* client that refetches on every push is never stale, an archived         *)
(* project's graph is left as it is, and a backup restores if no edge      *)
(* joins two projects.  A verb of the graph is a verb of the domain or     *)
(* none, and changes the graph in one of five ways (GraphStep).            *)
(***************************************************************************)
EXTENDS GraphStore, FiniteSetTheorems, TLAPS

ChildKinds == {"additional", "task"}

\* What the verbs rely on without saying so: an id not yet issued has no row,
\* only additional goals and tasks have a parent, and a row names a project
\* that was created.
Known ==
    /\ \A i \in Ids : ~Live(i) => row[i] = NoRow
    /\ \A i \in Ids : Live(i) => i \in spent
    /\ \A i \in Ids : row[i].parent # None => Is(i, ChildKinds)
    /\ \A i \in Ids : Is(i, GoalKinds \cup {"task"}) => row[i].project \in Projects
    /\ \A i \in Ids : row[i].project \in Projects =>
                        project[row[i].project].status # "absent"

StoreInv == TypeOK /\ Known /\ ParentsHold /\ Acyclic /\ OneRoot

----------------------------------------------------------------------------
(* The ways a step changes the rows *)

\* Where a new row may be put.
Placed(kind, p, parent) ==
    /\ ActiveOrNone(p) \/ (kind = "strategic" /\ project[p].status = "absent")
    /\ kind \notin LooseKinds => p \in Projects
    /\ kind = "strategic" => project[p].status = "absent"
    /\ p \in Projects => project'[p].status # "absent"
    /\ kind \in LooseKinds \cup {"strategic"} => parent = None
    /\ kind = "additional" => parent \in Ids /\ Is(parent, GoalKinds)
    /\ parent # None => /\ row[parent].project = p
                        /\ kind = "task" => Is(parent, {"task"})

Adds ==
    \E i \in Ids \ spent, kind \in Kinds, p \in Projects \cup {None}, parent \in Ids \cup {None} :
        Placed(kind, p, parent) /\ Insert(i, NewRow(kind, p, parent))

Rewrites ==
    \E i \in Ids, r \in Row :
        /\ Change(i, r)
        /\ Live(i) /\ r.kind = row[i].kind /\ r.parent = row[i].parent
        /\ r.project = row[i].project \/ Is(i, {"idea"})
        /\ ActiveOrNone(row[i].project) /\ ActiveOrNone(r.project)

Moves == \E g \in Ids, parent \in Ids : MoveGoal(g, parent)

Deletes ==
    \E D \in SUBSET Ids, p \in Projects \cup {None} :
        /\ Delete(D)
        /\ ActiveOrNone(p)
        /\ \A x \in D : row[x].project = p /\ ~Is(x, {"strategic"})
        /\ \A x \in Ids : row[x].parent \in D => x \in D

Keeps == UNCHANGED <<row, spent>>

\* A project that exists goes on existing; while it stays archived its row and
\* its links are left alone.
ProjectsKeep ==
    /\ project' \in [Projects -> ProjectRow]
    /\ link' \in [Workspaces -> Projects \cup {None}]
    /\ \A p \in Projects :
         /\ project[p].status # "absent" => project'[p].status # "absent"
         /\ project[p].status = "archived" =>
              \/ project'[p].status = "active"
              \/ /\ project'[p] = project[p]
                 /\ \A w \in Workspaces : (link[w] = p) <=> (link'[w] = p)

\* A project is created with its strategic goal.
RootsCome ==
    \A p \in Projects :
        project[p].status = "absent" /\ project'[p].status # "absent" =>
            \E g \in Ids \ spent : Insert(g, NewRow("strategic", p, None))

----------------------------------------------------------------------------
(* Chains *)

LEMMA ChainSelf ==
    ASSUME NEW i \in Ids
    PROVE  i \in Chain(i)
BY DEF Chain

LEMMA ChainUp ==
    ASSUME NEW i \in Ids, NEW x \in Chain(i), row[x].parent \in Ids
    PROVE  row[x].parent \in Chain(i)
BY DEF Chain, ClosedUp

LEMMA ChainOfParent ==
    ASSUME NEW i \in Ids, row[i].parent \in Ids, NEW x \in Chain(row[i].parent)
    PROVE  x \in Chain(i)
BY DEF Chain, ClosedUp

\* The rows of a chain are of one project.
LEMMA ChainProject ==
    ASSUME ParentsHold, NEW i \in Ids, NEW x \in Chain(i)
    PROVE  row[x].project = row[i].project
<1> DEFINE S == {y \in Ids : row[y].project = row[i].project}
<1>1. ClosedUp(S)
  BY NoneAssumption DEF ClosedUp, ParentsHold
<1>2. i \in S /\ S \in SUBSET Ids
  OBVIOUS
<1>3. QED
  BY <1>1, <1>2 DEF Chain

\* A row without a parent is its own chain.
LEMMA ChainOfRoot ==
    ASSUME NEW i \in Ids, row[i].parent \notin Ids, NEW x \in Chain(i)
    PROVE  x = i
<1>1. {i} \in SUBSET Ids /\ i \in {i} /\ ClosedUp({i})
  BY DEF ClosedUp
<1>2. QED
  BY <1>1 DEF Chain

\* What hangs below a deleted row is deleted with it.
LEMMA SubtreeClosed ==
    ASSUME Known, ParentsHold, NEW i \in Ids, Is(i, ChildKinds)
    PROVE  /\ \A x \in Subtree(i) : row[x].project = row[i].project /\ ~Is(x, {"strategic"})
           /\ \A x \in Ids : row[x].parent \in Subtree(i) => x \in Subtree(i)
           /\ Subtree(i) \in SUBSET Ids
<1>1. ASSUME NEW x \in Subtree(i)
      PROVE  row[x].project = row[i].project /\ ~Is(x, {"strategic"})
  <2>1. x \in Ids /\ i \in Chain(x)
    BY DEF Subtree
  <2>2. row[x].project = row[i].project
    BY <2>1, ChainProject
  <2>3. ASSUME Is(x, {"strategic"}) PROVE FALSE
    <3>1. row[x].parent \notin Ids
      BY <2>1, <2>3, NoneAssumption DEF Known, Is, ChildKinds
    <3>2. i = x
      BY <2>1, <3>1, ChainOfRoot
    <3>3. QED
      BY <2>3, <3>2 DEF Is, ChildKinds
  <2>4. QED
    BY <2>2, <2>3
<1>2. ASSUME NEW x \in Ids, row[x].parent \in Subtree(i)
      PROVE  x \in Subtree(i)
  <2>1. row[x].parent \in Ids /\ i \in Chain(row[x].parent)
    BY <1>2 DEF Subtree
  <2>2. i \in Chain(x)
    BY <2>1, ChainOfParent
  <2>3. Live(x)
    BY <2>1, NoneAssumption DEF Known, NoRow
  <2>4. QED
    BY <2>2, <2>3 DEF Subtree
<1>3. QED
  BY <1>1, <1>2 DEF Subtree

----------------------------------------------------------------------------
(* Every step is one of these *)

LEMMA NewRowType ==
    ASSUME NEW kind \in Kinds, NEW p \in Projects \cup {None}, NEW parent \in Ids \cup {None}
    PROVE  /\ NewRow(kind, p, parent) \in Row
           /\ NewRow(kind, p, parent).kind = kind
           /\ NewRow(kind, p, parent).project = p
           /\ NewRow(kind, p, parent).parent = parent
BY DEF NewRow, Row, InsightStatus

LEMMA TouchedType ==
    ASSUME NEW r \in Row
    PROVE  /\ Touched(r) \in Row
           /\ Touched(r).kind = r.kind /\ Touched(r).parent = r.parent
           /\ Touched(r).project = r.project
BY DEF Touched, Row

LEMMA FieldType ==
    ASSUME NEW r \in Row
    PROVE  /\ \A p \in Projects \cup {None} :
                LET new == [r EXCEPT !.project = p] IN
                /\ new \in Row /\ new.project = p
                /\ new.kind = r.kind /\ new.parent = r.parent
           /\ \A q \in Ids \cup {None} :
                LET new == [r EXCEPT !.parent = q] IN
                /\ new \in Row /\ new.parent = q
                /\ new.kind = r.kind /\ new.project = r.project
           /\ \A status \in InsightStatus :
                LET new == [r EXCEPT !.status = status] IN
                /\ new \in Row
                /\ new.kind = r.kind /\ new.parent = r.parent /\ new.project = r.project
BY DEF Row

LEMMA RewriteLemma ==
    ASSUME TypeOK, Known, NEW i \in Ids, Live(i), ActiveOrNone(row[i].project),
           Change(i, Touched(row[i]))
    PROVE  Rewrites
<1>1. row[i] \in Row
  BY DEF TypeOK
<1>2. QED
  BY <1>1, TouchedType DEF Rewrites

LEMMA ProjectStep ==
    ASSUME StoreInv, NEW p \in Projects, ProjectVerb(p)
    PROVE  (Adds \/ Keeps) /\ ProjectsKeep /\ RootsCome
<1> USE NoneAssumption DEF StoreInv
<1>1. ASSUME NEW W \in SUBSET Workspaces, NEW g \in Ids, CreateProject(p, W, g)
      PROVE  Adds /\ ProjectsKeep /\ RootsCome
  <2>1. /\ p # None /\ g \in Ids \ spent
        /\ project[p] \in ProjectRow /\ project[p].status = "absent"
        /\ project' = [project EXCEPT ![p].status = "active"]
        /\ Insert(g, NewRow("strategic", p, None))
    BY <1>1 DEF CreateProject, TypeOK, Fresh
  <2>2. project' \in [Projects -> ProjectRow] /\ project'[p].status = "active"
    BY <2>1 DEF TypeOK, ProjectRow
  <2>3. \A q \in Projects : q # p => project'[q] = project[q]
    BY <2>1 DEF TypeOK
  <2>4. Placed("strategic", p, None)
    BY <2>1, <2>2 DEF Placed, LooseKinds
  <2>5. Adds
    BY <2>1, <2>4 DEF Adds, Kinds, GoalKinds
  <2>6. link' = [w \in Workspaces |-> IF w \in W THEN p ELSE link[w]]
        /\ \A w \in W : link[w] = None
    BY <1>1 DEF CreateProject
  <2>7. \A q \in Projects : q # p => \A w \in Workspaces : (link[w] = q) <=> (link'[w] = q)
    BY <2>6
  <2>8. link' \in [Workspaces -> Projects \cup {None}]
    BY <2>6 DEF TypeOK
  <2>9. ProjectsKeep
    BY <2>1, <2>2, <2>3, <2>7, <2>8 DEF ProjectsKeep
  <2>10. RootsCome
    BY <2>1, <2>3 DEF RootsCome
  <2>11. QED
    BY <2>5, <2>9, <2>10
<1>2. CASE UpdateProject(p)
  <2>1. project[p] \in ProjectRow
    BY DEF TypeOK
  <2>2. project' \in [Projects -> ProjectRow] /\ project'[p].status = project[p].status
    BY <1>2, <2>1 DEF UpdateProject, TypeOK, ProjectRow
  <2>3. \A q \in Projects : q # p => project'[q] = project[q]
    BY <1>2 DEF UpdateProject, TypeOK
  <2>4. QED
    BY <1>2, <2>2, <2>3 DEF UpdateProject, Active, Keeps, ProjectsKeep, RootsCome, TypeOK
<1>3. CASE ArchiveProject(p) \/ UnarchiveProject(p)
  <2>1. project[p] \in ProjectRow /\ project[p].status \in {"active", "archived"}
    BY <1>3 DEF TypeOK, ArchiveProject, UnarchiveProject, Active
  <2>2. /\ project' \in [Projects -> ProjectRow] /\ project'[p].status \in {"active", "archived"}
        /\ project[p].status = "archived" => project'[p].status = "active"
    BY <1>3, <2>1 DEF ArchiveProject, UnarchiveProject, Active, TypeOK, ProjectRow
  <2>3. \A q \in Projects : q # p => project'[q] = project[q]
    BY <1>3 DEF ArchiveProject, UnarchiveProject, TypeOK
  <2>4. QED
    BY <1>3, <2>1, <2>2, <2>3
    DEF ArchiveProject, UnarchiveProject, Keeps, ProjectsKeep, RootsCome, TypeOK
<1>4. ASSUME NEW w \in Workspaces, AddProjectWorkspace(p, w) \/ RemoveProjectWorkspace(p, w)
      PROVE  Keeps /\ ProjectsKeep /\ RootsCome
  <2>1. /\ project' = project /\ project[p].status = "active"
        /\ Keeps
        /\ link[w] \in {None, p}
        /\ link' = [link EXCEPT ![w] = p] \/ link' = [link EXCEPT ![w] = None]
    BY <1>4 DEF AddProjectWorkspace, RemoveProjectWorkspace, Active, Keeps
  <2>2. link' \in [Workspaces -> Projects \cup {None}]
    BY <2>1 DEF TypeOK
  <2>3. \A q \in Projects : q # p => \A v \in Workspaces : (link[v] = q) <=> (link'[v] = q)
    BY <2>1 DEF TypeOK
  <2>4. QED
    BY <2>1, <2>2, <2>3 DEF ProjectsKeep, RootsCome, TypeOK
<1>5. QED
  BY <1>1, <1>2, <1>3, <1>4 DEF ProjectVerb

LEMMA AddLemma ==
    ASSUME NEW i \in Ids, NEW kind \in Kinds, NEW p \in Projects \cup {None},
           NEW parent \in Ids \cup {None},
           Placed(kind, p, parent), Fresh(i), Insert(i, NewRow(kind, p, parent))
    PROVE  Adds
BY DEF Adds, Fresh

LEMMA GoalStep ==
    ASSUME StoreInv, NEW g \in Ids, GoalVerb(g)
    PROVE  (Adds \/ Rewrites \/ Moves \/ Deletes) /\ UNCHANGED <<project, link>>
<1> USE NoneAssumption DEF StoreInv
<1>1. ASSUME NEW p \in Projects, NEW kind \in GoalKinds, NEW parent \in Ids \cup {None},
             CreateGoal(g, p, kind, parent)
      PROVE  Adds
  <2>1. project[p].status = "active" /\ project' = project /\ p # None
    BY <1>1 DEF CreateGoal, Active
  <2>2. kind = "additional" /\ parent \in Ids /\ Is(parent, GoalKinds) /\ row[parent].project = p
    BY <1>1, <2>1 DEF CreateGoal, OneRoot, GoalKinds
  <2>3. Placed(kind, p, parent)
    BY <2>1, <2>2 DEF Placed, LooseKinds, ActiveOrNone, Active
  <2>4. QED
    BY <1>1, <2>3, AddLemma DEF CreateGoal, Kinds
<1>2. CASE UpdateGoal(g)
  <2>1. Live(g) /\ ActiveOrNone(row[g].project)
    BY <1>2 DEF UpdateGoal, Is, Live, GoalKinds, ActiveOrNone, Known
  <2>2. QED
    BY <1>2, <2>1, RewriteLemma DEF UpdateGoal
<1>3. CASE DeleteGoal(g)
  <2>1. Is(g, ChildKinds) /\ row[g].project \in Projects /\ Active(row[g].project)
    BY <1>3 DEF DeleteGoal, Is, ChildKinds, GoalKinds, Known
  <2>2. QED
    BY <1>3, <2>1, SubtreeClosed DEF DeleteGoal, Deletes, ActiveOrNone
<1>4. QED
  BY <1>1, <1>2, <1>3 DEF GoalVerb, Moves, CreateGoal, UpdateGoal, MoveGoal, DeleteGoal

LEMMA TaskStep ==
    ASSUME StoreInv, NEW t \in Ids, TaskVerb(t)
    PROVE  (Adds \/ Rewrites \/ Deletes) /\ UNCHANGED <<project, link>>
<1> USE NoneAssumption DEF StoreInv
<1>1. ASSUME NEW p \in Projects, NEW parent \in Ids \cup {None}, CreateTask(t, p, parent)
      PROVE  Adds
  <2>1. project[p].status = "active" /\ project' = project /\ p # None
    BY <1>1 DEF CreateTask, Active
  <2>2. Placed("task", p, parent)
    BY <1>1, <2>1 DEF CreateTask, Placed, LooseKinds, ActiveOrNone, Active
  <2>3. QED
    BY <1>1, <2>2, AddLemma DEF CreateTask, Kinds
<1>2. CASE WriteTask(t)
  <2>1. Live(t) /\ ActiveOrNone(row[t].project)
    BY <1>2 DEF WriteTask, Is, Live, ActiveOrNone, Known
  <2>2. QED
    BY <1>2, <2>1, RewriteLemma DEF WriteTask
<1>3. CASE DeleteTask(t)
  <2>1. Is(t, ChildKinds) /\ row[t].project \in Projects /\ Active(row[t].project)
    BY <1>3 DEF DeleteTask, Is, ChildKinds, Known
  <2>2. QED
    BY <1>3, <2>1, SubtreeClosed DEF DeleteTask, Deletes, ActiveOrNone
<1>4. QED
  BY <1>1, <1>2, <1>3
  DEF TaskVerb, UpdateTask, SetTaskStatus, SetTaskPriority, SetTaskRank, CreateTask, WriteTask,
      DeleteTask

LEMMA LooseStep ==
    ASSUME StoreInv, NEW i \in Ids, NEW kind \in LooseKinds
    PROVE  /\ \A p \in Projects \cup {None} : CreateLoose(i, kind, p) => Adds
           /\ WriteLoose(i, kind) => Rewrites
           /\ DeleteLoose(i, kind) => Deletes
<1> USE NoneAssumption DEF StoreInv
<1>1. ASSUME NEW p \in Projects \cup {None}, CreateLoose(i, kind, p)
      PROVE  Adds
  <2>1. Placed(kind, p, None)
    BY <1>1 DEF CreateLoose, Placed, LooseKinds, ActiveOrNone, Active
  <2>2. QED
    BY <1>1, <2>1, AddLemma DEF CreateLoose, Kinds
<1>2. ASSUME WriteLoose(i, kind) PROVE Rewrites
  BY <1>2, RewriteLemma DEF WriteLoose, Is, Live, LooseKinds
<1>3. ASSUME DeleteLoose(i, kind) PROVE Deletes
  <2>1. \A x \in Ids : row[x].parent # i
    BY <1>3 DEF DeleteLoose, Is, LooseKinds, Known, ParentsHold, ChildKinds, GoalKinds
  <2>2. row[i].project \in Projects \cup {None}
    BY DEF TypeOK, Row
  <2>3. ~Is(i, {"strategic"}) /\ ActiveOrNone(row[i].project) /\ Delete({i})
    BY <1>3 DEF DeleteLoose, Is, LooseKinds
  <2>4. QED
    BY <2>1, <2>2, <2>3 DEF Deletes
<1>4. QED
  BY <1>1, <1>2, <1>3

LEMMA IdeaStep ==
    ASSUME StoreInv, NEW i \in Ids, IdeaVerb(i)
    PROVE  (Adds \/ Rewrites \/ Deletes) /\ UNCHANGED <<project, link>>
<1>1. ASSUME NEW p \in Projects \cup {None}, SetIdeaProject(i, p)
      PROVE  Rewrites
  <2> DEFINE r == [Touched(row[i]) EXCEPT !.project = p]
  <2>1. row[i] \in Row
    BY DEF StoreInv, TypeOK
  <2>2. r \in Row /\ r.kind = row[i].kind /\ r.parent = row[i].parent /\ r.project = p
    BY <2>1, TouchedType, FieldType
  <2>3. /\ Change(i, r) /\ Is(i, {"idea"}) /\ Live(i)
        /\ ActiveOrNone(row[i].project) /\ ActiveOrNone(p)
    BY <1>1 DEF SetIdeaProject, Is, Live
  <2> HIDE DEF r
  <2>4. QED
    BY <2>2, <2>3 DEF Rewrites
<1>2. "idea" \in LooseKinds
  BY DEF LooseKinds
<1>3. IdeaVerb(i) => UNCHANGED <<project, link>>
  BY DEF IdeaVerb, CreateIdea, UpdateIdea, SetIdeaLifecycle, DeleteIdea, SetIdeaProject,
         CreateLoose, WriteLoose, DeleteLoose
<1>4. QED
  BY <1>1, <1>2, <1>3, LooseStep DEF IdeaVerb, CreateIdea, UpdateIdea, SetIdeaLifecycle, DeleteIdea

LEMMA InsightStep ==
    ASSUME StoreInv, NEW i \in Ids,
           InsightVerb(i) \/ \E status \in InsightStatus : SetInsightStatus(i, status)
    PROVE  (Adds \/ Rewrites \/ Deletes) /\ UNCHANGED <<project, link>>
<1>1. ASSUME NEW status \in InsightStatus, SetInsightStatus(i, status)
      PROVE  Rewrites /\ UNCHANGED <<project, link>>
  <2> DEFINE r == [Touched(row[i]) EXCEPT !.status = status]
  <2>1. row[i] \in Row
    BY DEF StoreInv, TypeOK
  <2>2. r \in Row /\ r.kind = row[i].kind /\ r.parent = row[i].parent /\ r.project = row[i].project
    BY <2>1, TouchedType, FieldType
  <2>3. Change(i, r) /\ Live(i) /\ ActiveOrNone(row[i].project) /\ UNCHANGED <<project, link>>
    BY <1>1 DEF SetInsightStatus, Is, Live
  <2> HIDE DEF r
  <2>4. QED
    BY <2>2, <2>3 DEF Rewrites
<1>2. "insight" \in LooseKinds
  BY DEF LooseKinds
<1>3. InsightVerb(i) => UNCHANGED <<project, link>>
  BY DEF InsightVerb, CreateInsight, UpdateInsight, SetInsightFitVerdict, DeleteInsight,
         CreateLoose, WriteLoose, DeleteLoose
<1>4. QED
  BY <1>1, <1>2, <1>3, LooseStep
  DEF InsightVerb, CreateInsight, UpdateInsight, SetInsightFitVerdict, DeleteInsight

\* A step that leaves the projects alone keeps them.
LEMMA ProjectsUntouched ==
    ASSUME TypeOK, UNCHANGED <<project, link>>
    PROVE  ProjectsKeep /\ RootsCome
BY DEF TypeOK, ProjectsKeep, RootsCome

LEMMA StepLemma ==
    ASSUME StoreInv, [Next]_domain_vars
    PROVE  (Adds \/ Rewrites \/ Moves \/ Deletes \/ Keeps) /\ ProjectsKeep /\ RootsCome
<1>1. CASE UNCHANGED domain_vars
  BY <1>1, ProjectsUntouched DEF StoreInv, domain_vars, Keeps
<1>2. ASSUME NEW p \in Projects, ProjectVerb(p)
      PROVE  (Adds \/ Keeps) /\ ProjectsKeep /\ RootsCome
  BY <1>2, ProjectStep
<1>3. ASSUME NEW i \in Ids,
             RowVerb(i) \/ \E status \in InsightStatus : SetInsightStatus(i, status)
      PROVE  (Adds \/ Rewrites \/ Moves \/ Deletes) /\ UNCHANGED <<project, link>>
  BY <1>3, GoalStep, TaskStep, IdeaStep, InsightStep DEF RowVerb
<1>4. QED
  BY <1>1, <1>2, <1>3, ProjectsUntouched DEF Next, StoreInv

----------------------------------------------------------------------------
(* The invariant *)

LEMMA MoveType ==
    ASSUME TypeOK, NEW g \in Ids, NEW parent \in Ids, MoveGoal(g, parent)
    PROVE  /\ row' \in [Ids -> Row] /\ spent' = spent
           /\ row'[g].parent = parent /\ row'[g].kind = row[g].kind
           /\ row'[g].project = row[g].project
           /\ \A x \in Ids : x # g => row'[x] = row[x]
<1> DEFINE r == [Touched(row[g]) EXCEPT !.parent = parent]
<1>1. row[g] \in Row
  BY DEF TypeOK
<1>2. r \in Row /\ r.kind = row[g].kind /\ r.parent = parent /\ r.project = row[g].project
  BY <1>1, TouchedType, FieldType
<1>3. row' = [row EXCEPT ![g] = r] /\ spent' = spent
  BY DEF MoveGoal, Change
<1> HIDE DEF r
<1>4. QED
  BY <1>2, <1>3 DEF TypeOK

LEMMA TypeStep ==
    ASSUME StoreInv, [Next]_domain_vars
    PROVE  TypeOK'
<1> USE DEF StoreInv, TypeOK
<1>1. project' \in [Projects -> ProjectRow] /\ link' \in [Workspaces -> Projects \cup {None}]
  BY StepLemma DEF ProjectsKeep
<1>2. NoRow \in Row
  BY DEF NoRow, Row, InsightStatus
<1>3. CASE Adds
  <2>1. PICK i \in Ids, r \in Row : Insert(i, r)
    BY <1>3, NewRowType DEF Adds
  <2>2. QED
    BY <1>1, <2>1 DEF Insert
<1>4. CASE Rewrites
  BY <1>1, <1>4 DEF Rewrites, Change
<1>5. CASE Moves
  BY <1>1, <1>5, MoveType DEF Moves
<1>6. CASE Deletes
  BY <1>1, <1>2, <1>6 DEF Deletes, Delete
<1>7. CASE Keeps
  BY <1>1, <1>7 DEF Keeps
<1>8. QED
  BY <1>3, <1>4, <1>5, <1>6, <1>7, StepLemma

\* The row an Adds puts at an id without one.
LEMMA AddedRow ==
    ASSUME StoreInv, NEW i \in Ids \ spent, NEW kind \in Kinds, NEW p \in Projects \cup {None},
           NEW parent \in Ids \cup {None}, Insert(i, NewRow(kind, p, parent))
    PROVE  /\ row[i] = NoRow
           /\ row'[i].kind = kind /\ row'[i].project = p /\ row'[i].parent = parent
           /\ \A x \in Ids : x # i => row'[x] = row[x]
           /\ spent' = spent \cup {i}
<1>1. row[i] = NoRow
  BY DEF StoreInv, Known
<1>2. row'[i] = NewRow(kind, p, parent) /\ \A x \in Ids : x # i => row'[x] = row[x]
  BY DEF StoreInv, TypeOK, Insert
<1>3. /\ NewRow(kind, p, parent).kind = kind /\ NewRow(kind, p, parent).project = p
      /\ NewRow(kind, p, parent).parent = parent
  BY NewRowType
<1>4. spent' = spent \cup {i}
  BY DEF Insert
<1>5. QED
  BY <1>1, <1>2, <1>3, <1>4

LEMMA RewrittenRow ==
    ASSUME StoreInv, NEW i \in Ids, NEW r \in Row, Change(i, r),
           r.kind = row[i].kind, r.parent = row[i].parent
    PROVE  /\ row'[i] = r
           /\ \A x \in Ids : x # i => row'[x] = row[x]
           /\ \A x \in Ids : row'[x].kind = row[x].kind /\ row'[x].parent = row[x].parent
           /\ spent' = spent
BY DEF StoreInv, TypeOK, Change

LEMMA KnownStep ==
    ASSUME StoreInv, [Next]_domain_vars
    PROVE  Known'
<1> USE NoneAssumption
<1>0. \A p \in Projects : project[p].status # "absent" => project'[p].status # "absent"
  BY StepLemma DEF ProjectsKeep
<1>1. ASSUME NEW i \in Ids \ spent, NEW kind \in Kinds, NEW p \in Projects \cup {None},
             NEW parent \in Ids \cup {None}, Placed(kind, p, parent),
             Insert(i, NewRow(kind, p, parent))
      PROVE  Known'
  <2>1. /\ row'[i].kind = kind /\ row'[i].project = p /\ row'[i].parent = parent
        /\ \A x \in Ids : x # i => row'[x] = row[x]
        /\ spent' = spent \cup {i}
    BY <1>1, AddedRow
  <2>2. kind # "none" /\ (parent # None => kind \in ChildKinds)
    BY <1>1 DEF Placed, Kinds, GoalKinds, LooseKinds, ChildKinds
  <2>3. kind \in GoalKinds \cup {"task"} => p \in Projects
    BY <1>1 DEF Placed, GoalKinds, LooseKinds
  <2>4. p \in Projects => project'[p].status # "absent"
    BY <1>1 DEF Placed
  <2>5. QED
    BY <1>0, <2>1, <2>2, <2>3, <2>4 DEF StoreInv, Known, Live, Is
<1>2. ASSUME NEW i \in Ids, NEW r \in Row, Change(i, r),
             Live(i), r.kind = row[i].kind, r.parent = row[i].parent,
             r.project = row[i].project \/ Is(i, {"idea"}), ActiveOrNone(r.project)
      PROVE  Known'
  <2>1. /\ row'[i] = r /\ spent' = spent
        /\ \A x \in Ids : x # i => row'[x] = row[x]
    BY <1>2, RewrittenRow
  <2>2. r.project \in Projects => project[r.project].status # "absent"
    BY <1>2 DEF ActiveOrNone, Active
  <2>3. r.kind \in GoalKinds \cup {"task"} => r.project \in Projects
    BY <1>2 DEF StoreInv, Known, Is, GoalKinds
  <2>4. QED
    BY <1>0, <1>2, <2>1, <2>2, <2>3 DEF StoreInv, Known, Live, Is
<1>3. CASE Moves
  <2>1. PICK g \in Ids, parent \in Ids : MoveGoal(g, parent)
    BY <1>3 DEF Moves
  <2>2. /\ spent' = spent
        /\ row'[g].parent = parent /\ row'[g].kind = row[g].kind
        /\ row'[g].project = row[g].project
        /\ \A x \in Ids : x # g => row'[x] = row[x]
    BY <2>1, MoveType DEF StoreInv
  <2>3. row[g].kind = "additional"
    BY <2>1 DEF MoveGoal, Is
  <2>4. QED
    BY <1>0, <2>2, <2>3 DEF StoreInv, Known, Live, Is, ChildKinds
<1>4. CASE Deletes
  <2>1. \A x \in Ids : row'[x] = NoRow \/ row'[x] = row[x]
    BY <1>4 DEF Deletes, Delete
  <2>2. spent' = spent
    BY <1>4 DEF Deletes, Delete
  <2>3. QED
    BY <1>0, <2>1, <2>2 DEF StoreInv, Known, Live, Is, NoRow, ChildKinds, GoalKinds
<1>5. CASE Keeps
  BY <1>0, <1>5 DEF StoreInv, Known, Live, Is, Keeps
<1>6. QED
  BY <1>1, <1>2, <1>3, <1>4, <1>5, StepLemma DEF Adds, Rewrites

LEMMA ParentsStep ==
    ASSUME StoreInv, [Next]_domain_vars
    PROVE  ParentsHold'
<1> USE NoneAssumption
<1>1. ASSUME NEW i \in Ids \ spent, NEW kind \in Kinds, NEW p \in Projects \cup {None},
             NEW parent \in Ids \cup {None}, Placed(kind, p, parent),
             Insert(i, NewRow(kind, p, parent))
      PROVE  ParentsHold'
  <2>1. /\ row[i] = NoRow
        /\ row'[i].kind = kind /\ row'[i].project = p /\ row'[i].parent = parent
        /\ \A x \in Ids : x # i => row'[x] = row[x]
    BY <1>1, AddedRow
  <2>2. \A x \in Ids : row[x].parent # i
    BY <2>1 DEF StoreInv, ParentsHold, Live, NoRow
  <2>3. parent # None => /\ parent # i /\ Live(parent) /\ row[parent].project = p
                         /\ kind = "additional" => Is(parent, GoalKinds)
                         /\ kind = "task" => Is(parent, {"task"})
    BY <1>1, <2>1 DEF Placed, Is, Live, NoRow, GoalKinds, LooseKinds, Kinds
  <2>4. QED
    BY <2>1, <2>2, <2>3 DEF StoreInv, TypeOK, Row, ParentsHold, Live, Is
<1>2. ASSUME NEW i \in Ids, NEW r \in Row, Change(i, r),
             Live(i), r.kind = row[i].kind, r.parent = row[i].parent,
             r.project = row[i].project \/ Is(i, {"idea"})
      PROVE  ParentsHold'
  <2>1. /\ row'[i] = r
        /\ \A x \in Ids : x # i => row'[x] = row[x]
        /\ \A x \in Ids : row'[x].kind = row[x].kind /\ row'[x].parent = row[x].parent
    BY <1>2, RewrittenRow
  <2>2. ASSUME Is(i, {"idea"})
        PROVE  row[i].parent = None /\ \A x \in Ids : row[x].parent # i
    BY <2>2 DEF StoreInv, Known, ParentsHold, Is, ChildKinds, GoalKinds
  <2>3. QED
    BY <1>2, <2>1, <2>2 DEF StoreInv, TypeOK, Row, ParentsHold, Live, Is
<1>3. CASE Moves
  <2>1. PICK g \in Ids, parent \in Ids : MoveGoal(g, parent)
    BY <1>3 DEF Moves
  <2>2. /\ row'[g].parent = parent /\ row'[g].kind = row[g].kind
        /\ row'[g].project = row[g].project
        /\ \A x \in Ids : x # g => row'[x] = row[x]
    BY <2>1, MoveType DEF StoreInv
  <2>3. /\ row[g].kind = "additional" /\ Is(parent, GoalKinds)
        /\ row[parent].project = row[g].project
    BY <2>1 DEF MoveGoal, Is
  <2>4. QED
    BY <2>2, <2>3 DEF StoreInv, TypeOK, Row, ParentsHold, Live, Is, GoalKinds
<1>4. CASE Deletes
  <2>1. PICK D \in SUBSET Ids : Delete(D) /\ \A x \in Ids : row[x].parent \in D => x \in D
    BY <1>4 DEF Deletes
  <2>2. \A x \in Ids : row'[x] = IF x \in D THEN NoRow ELSE row[x]
    BY <2>1 DEF Delete
  <2>3. QED
    BY <2>1, <2>2 DEF StoreInv, TypeOK, Row, ParentsHold, Live, Is, NoRow
<1>5. CASE Keeps
  BY <1>5 DEF StoreInv, ParentsHold, Live, Is, Keeps
<1>6. QED
  BY <1>1, <1>2, <1>3, <1>4, <1>5, StepLemma DEF Adds, Rewrites

LEMMA AcyclicStep ==
    ASSUME StoreInv, [Next]_domain_vars
    PROVE  Acyclic'
<1> USE NoneAssumption
<1> SUFFICES ASSUME NEW S \in SUBSET Ids, S # {}
             PROVE  \E x \in S : row'[x].parent \notin S
  BY DEF Acyclic
<1>0. \A T \in SUBSET Ids : T # {} => \E x \in T : row[x].parent \notin T
  BY DEF StoreInv, Acyclic
<1>1. ASSUME NEW i \in Ids \ spent, NEW kind \in Kinds, NEW p \in Projects \cup {None},
             NEW parent \in Ids \cup {None}, Placed(kind, p, parent),
             Insert(i, NewRow(kind, p, parent))
      PROVE  \E x \in S : row'[x].parent \notin S
  <2>1. /\ row[i] = NoRow
        /\ row'[i].parent = parent
        /\ \A x \in Ids : x # i => row'[x] = row[x]
    BY <1>1, AddedRow
  <2>2. \A x \in Ids : row[x].parent # i
    BY <2>1 DEF StoreInv, ParentsHold, Live, NoRow
  <2>3. parent # i
    BY <1>1, <2>1 DEF Placed, Is, NoRow, GoalKinds, LooseKinds, Kinds
  <2>4. CASE S \ {i} = {}
    BY <2>1, <2>3, <2>4
  <2>5. CASE S \ {i} # {}
    <3>1. PICK x \in S \ {i} : row[x].parent \notin S \ {i}
      BY <1>0, <2>5
    <3>2. QED
      BY <2>1, <2>2, <3>1
  <2>6. QED
    BY <2>4, <2>5
<1>2. ASSUME NEW g \in Ids, NEW parent \in Ids, MoveGoal(g, parent)
      PROVE  \E x \in S : row'[x].parent \notin S
  <2>1. row'[g].parent = parent /\ \A x \in Ids : x # g => row'[x] = row[x]
    BY <1>2, MoveType DEF StoreInv
  <2>2. SUFFICES ASSUME \A x \in S : row'[x].parent \in S
                 PROVE  FALSE
    OBVIOUS
  <2> DEFINE T == S \cap Chain(parent)
  <2>3. g \notin Chain(parent)
    BY <1>2 DEF MoveGoal
  <2>4. CASE g \in S
    <3>1. parent \in T
      BY <2>1, <2>2, <2>4, ChainSelf
    <3>2. \A x \in T : row[x].parent \in T
      BY <2>1, <2>2, <2>3, ChainUp
    <3>3. QED
      BY <1>0, <3>1, <3>2
  <2>5. CASE g \notin S
    BY <1>0, <2>1, <2>2, <2>5
  <2>6. QED
    BY <2>4, <2>5
<1>3. CASE Rewrites \/ Deletes \/ Keeps
  <2>1. \A x \in Ids : row'[x].parent \in {row[x].parent, None}
    BY <1>3, RewrittenRow DEF Rewrites, Deletes, Delete, Keeps, NoRow
  <2>2. QED
    BY <1>0, <2>1
<1>4. QED
  BY <1>1, <1>2, <1>3, StepLemma DEF Adds, Moves

----------------------------------------------------------------------------
(* One root *)

\* A chain only grows when a step changes no parent but those that were NULL.
LEMMA ChainGrows ==
    ASSUME \A y \in Ids : row[y].parent \in Ids => row'[y].parent = row[y].parent,
           NEW x \in Ids, NEW r \in Chain(x)
    PROVE  r \in Chain(x)'
<1>1. ASSUME NEW S \in SUBSET Ids, x \in S, \A y \in S : row'[y].parent \in Ids => row'[y].parent \in S
      PROVE  r \in S
  <2>1. ClosedUp(S)
    BY <1>1 DEF ClosedUp
  <2>2. QED
    BY <1>1, <2>1 DEF Chain
<1>2. QED
  BY <1>1 DEF Chain, ClosedUp

\* r is the root of the goals of p.
RootOf(p, r) ==
    /\ StrategicOf(p) = {r}
    /\ \A i \in Ids : Is(i, GoalKinds) /\ row[i].project = p => r \in Chain(i)

LEMMA MoveRoot ==
    ASSUME StoreInv, NEW g \in Ids, NEW parent \in Ids, MoveGoal(g, parent),
           NEW p \in Projects, NEW r \in Ids, RootOf(p, r)
    PROVE  RootOf(p, r)'
<1>1. /\ row'[g].parent = parent /\ row'[g].kind = row[g].kind /\ row'[g].project = row[g].project
      /\ \A x \in Ids : x # g => row'[x] = row[x]
  BY MoveType DEF StoreInv
<1>2. g \notin Chain(parent) /\ Is(parent, GoalKinds) /\ row[parent].project = row[g].project
  BY DEF MoveGoal
<1>3. StrategicOf(p)' = {r}
  BY <1>1 DEF RootOf, StrategicOf, Is
<1>4. ASSUME NEW i \in Ids, Is(i, GoalKinds), row[i].project = p,
             NEW S \in SUBSET Ids, i \in S,
             \A y \in S : row'[y].parent \in Ids => row'[y].parent \in S
      PROVE  r \in S
  <2>1. r \in Chain(i)
    BY <1>4 DEF RootOf
  <2>2. CASE g \notin S
    <3>1. ClosedUp(S)
      BY <1>1, <1>4, <2>2 DEF ClosedUp
    <3>2. QED
      BY <1>4, <2>1, <3>1 DEF Chain
  <2>3. CASE g \in S /\ row[g].project = p
    <3> DEFINE T == S \cap Chain(parent)
    <3>1. parent \in T
      BY <1>1, <1>4, <2>3, ChainSelf
    <3>2. ClosedUp(T)
      BY <1>1, <1>2, <1>4, ChainUp DEF ClosedUp
    <3>3. r \in Chain(parent)
      BY <1>2, <2>3 DEF RootOf
    <3>4. T \in SUBSET Ids
      OBVIOUS
    <3>5. QED
      BY <3>1, <3>2, <3>3, <3>4 DEF Chain
  <2>4. CASE g \in S /\ row[g].project # p
    <3> DEFINE T == {y \in S : row[y].project = p}
    <3>1. ASSUME NEW y \in T, row[y].parent \in Ids
          PROVE  row[y].parent \in T
      <4>1. y # g /\ row[y].parent \in S
        BY <1>1, <1>4, <2>4, <3>1
      <4>2. row[row[y].parent].project = p
        BY <3>1, NoneAssumption DEF StoreInv, ParentsHold
      <4>3. QED
        BY <4>1, <4>2
    <3>2. ClosedUp(T) /\ T \in SUBSET Ids /\ i \in T
      BY <1>4, <3>1 DEF ClosedUp
    <3>3. QED
      BY <2>1, <3>2 DEF Chain
  <2>5. QED
    BY <2>2, <2>3, <2>4
<1>5. \A i \in Ids : (Is(i, GoalKinds) /\ row[i].project = p)' =>
                       Is(i, GoalKinds) /\ row[i].project = p
  BY <1>1 DEF Is
<1>6. \A i \in Ids : Is(i, GoalKinds) /\ row[i].project = p => r \in Chain(i)'
  BY <1>4 DEF Chain, ClosedUp, RootOf
<1>7. QED
  BY <1>3, <1>5, <1>6 DEF RootOf

LEMMA DeleteRoot ==
    ASSUME StoreInv, NEW D \in SUBSET Ids, Delete(D),
           \A x \in D : ~Is(x, {"strategic"}),
           \A x \in Ids : row[x].parent \in D => x \in D,
           NEW p \in Projects, NEW r \in Ids, RootOf(p, r)
    PROVE  RootOf(p, r)'
<1>1. \A x \in Ids : row'[x] = IF x \in D THEN NoRow ELSE row[x]
  BY DEF Delete
<1>2. StrategicOf(p)' = {r}
  BY <1>1 DEF RootOf, StrategicOf, Is, NoRow
<1>3. ASSUME NEW i \in Ids \ D, Is(i, GoalKinds), row[i].project = p,
             NEW S \in SUBSET Ids, i \in S,
             \A y \in S : row'[y].parent \in Ids => row'[y].parent \in S
      PROVE  r \in S
  <2> DEFINE T == S \ D
  <2>1. ClosedUp(T)
    BY <1>1, <1>3 DEF ClosedUp
  <2>2. r \in Chain(i) /\ i \in T /\ T \in SUBSET Ids
    BY <1>3 DEF RootOf
  <2>3. QED
    BY <2>1, <2>2 DEF Chain
<1>4. \A i \in Ids : (Is(i, GoalKinds) /\ row[i].project = p)' =>
                       i \notin D /\ Is(i, GoalKinds) /\ row[i].project = p
  BY <1>1 DEF Is, NoRow, GoalKinds
<1>5. \A i \in Ids \ D : Is(i, GoalKinds) /\ row[i].project = p => r \in Chain(i)'
  BY <1>3 DEF Chain, ClosedUp, RootOf
<1>6. QED
  BY <1>2, <1>4, <1>5 DEF RootOf

LEMMA AddRoot ==
    ASSUME StoreInv, NEW i \in Ids \ spent, NEW kind \in Kinds, NEW q \in Projects \cup {None},
           NEW parent \in Ids \cup {None}, Placed(kind, q, parent),
           Insert(i, NewRow(kind, q, parent)),
           NEW p \in Projects, project[p].status # "absent", NEW r \in Ids, RootOf(p, r)
    PROVE  RootOf(p, r)'
<1> USE NoneAssumption
<1>1. /\ row[i] = NoRow
      /\ row'[i].kind = kind /\ row'[i].project = q /\ row'[i].parent = parent
      /\ \A x \in Ids : x # i => row'[x] = row[x]
  BY AddedRow
<1>2. kind = "strategic" => q # p
  BY DEF Placed
<1>3. StrategicOf(p)' = {r}
  <2>1. i \notin StrategicOf(p) /\ i \notin StrategicOf(p)'
    BY <1>1, <1>2 DEF StrategicOf, Is, NoRow
  <2>2. \A x \in Ids : x \in StrategicOf(p)' <=> x \in StrategicOf(p)
    BY <1>1, <2>1 DEF StrategicOf, Is
  <2>3. StrategicOf(p)' = StrategicOf(p)
    BY <2>2 DEF StrategicOf
  <2>4. QED
    BY <2>3 DEF RootOf
<1>4. \A y \in Ids : row[y].parent \in Ids => row'[y].parent = row[y].parent
  BY <1>1 DEF NoRow
<1>5. ASSUME NEW x \in Ids, (Is(x, GoalKinds) /\ row[x].project = p)'
      PROVE  r \in Chain(x)'
  <2>1. CASE x # i
    <3>1. r \in Chain(x)
      BY <1>1, <1>5, <2>1 DEF RootOf, Is
    <3>2. QED
      BY <1>4, <3>1, ChainGrows
  <2>2. CASE x = i
    <3>1. kind = "additional" /\ q = p
      BY <1>1, <1>2, <1>5, <2>2 DEF Is, GoalKinds
    <3>2. parent \in Ids /\ Is(parent, GoalKinds) /\ row[parent].project = p
      BY <3>1 DEF Placed
    <3>3. r \in Chain(parent)
      BY <3>2 DEF RootOf
    <3>4. r \in Chain(parent)'
      BY <1>4, <3>2, <3>3, ChainGrows
    <3>5. ASSUME NEW S \in SUBSET Ids, i \in S,
                 \A y \in S : row'[y].parent \in Ids => row'[y].parent \in S
          PROVE  r \in S
      <4>1. parent \in S
        BY <1>1, <3>2, <3>5
      <4>2. QED
        BY <3>4, <3>5, <4>1 DEF Chain, ClosedUp
    <3>6. QED
      BY <2>2, <3>5 DEF Chain, ClosedUp, RootOf
  <2>3. QED
    BY <2>1, <2>2
<1>6. QED
  BY <1>3, <1>5 DEF RootOf

LEMMA RewriteRoot ==
    ASSUME StoreInv, NEW i \in Ids, NEW r \in Row, Change(i, r),
           r.kind = row[i].kind, r.parent = row[i].parent,
           r.project = row[i].project \/ Is(i, {"idea"}),
           NEW p \in Projects, NEW g \in Ids, RootOf(p, g)
    PROVE  RootOf(p, g)'
<1>1. /\ row'[i] = r /\ \A x \in Ids : x # i => row'[x] = row[x]
      /\ \A x \in Ids : row'[x].kind = row[x].kind /\ row'[x].parent = row[x].parent
  BY RewrittenRow
<1>2. \A x \in Ids : Is(x, GoalKinds) => row'[x].project = row[x].project
  BY <1>1 DEF Is, GoalKinds
<1>3. \A x \in Ids : (Is(x, GoalKinds) /\ row[x].project = p)' <=>
                       Is(x, GoalKinds) /\ row[x].project = p
  BY <1>1, <1>2 DEF Is
<1>4. StrategicOf(p)' = StrategicOf(p)
  BY <1>1, <1>2 DEF StrategicOf, Is, GoalKinds
<1>5. \A x \in Ids : g \in Chain(x) => g \in Chain(x)'
  BY <1>1, ChainGrows
<1>6. QED
  BY <1>3, <1>4, <1>5 DEF RootOf

LEMMA RootStep ==
    ASSUME StoreInv, [Next]_domain_vars
    PROVE  OneRoot'
<1> USE NoneAssumption
<1> SUFFICES ASSUME NEW p \in Projects, project'[p].status # "absent"
             PROVE  \E r \in Ids : RootOf(p, r)'
  BY DEF OneRoot, RootOf
<1>1. CASE project[p].status = "absent"
  <2>1. PICK g \in Ids \ spent : Insert(g, NewRow("strategic", p, None))
    BY <1>1, StepLemma DEF RootsCome
  <2>2. /\ row'[g].kind = "strategic" /\ row'[g].project = p
        /\ \A x \in Ids : x # g => row'[x] = row[x]
    BY <2>1, AddedRow DEF Kinds, GoalKinds
  <2>3. \A x \in Ids : row[x].project # p
    BY <1>1 DEF StoreInv, Known
  <2>4. StrategicOf(p)' = {g}
    BY <2>2, <2>3 DEF StrategicOf, Is
  <2>5. g \in Chain(g)'
    BY DEF Chain
  <2>6. \A x \in Ids : (row[x].project = p)' => x = g
    BY <2>2, <2>3
  <2>7. RootOf(p, g)'
    BY <2>4, <2>5, <2>6 DEF RootOf
  <2>8. QED
    BY <2>7
<1>2. CASE project[p].status # "absent"
  <2>1. PICK r \in Ids : RootOf(p, r)
    BY <1>2 DEF StoreInv, OneRoot, RootOf, StrategicOf
  <2>2. CASE Adds
    BY <1>2, <2>1, <2>2, AddRoot DEF Adds
  <2>3. CASE Rewrites
    BY <2>1, <2>3, RewriteRoot DEF Rewrites
  <2>4. CASE Moves
    BY <2>1, <2>4, MoveRoot DEF Moves
  <2>5. CASE Deletes
    <3>1. PICK D \in SUBSET Ids : /\ Delete(D) /\ \A x \in D : ~Is(x, {"strategic"})
                                  /\ \A x \in Ids : row[x].parent \in D => x \in D
      BY <2>5 DEF Deletes
    <3>2. QED
      BY <2>1, <3>1, DeleteRoot
  <2>6. CASE Keeps
    <3>1. row' = row
      BY <2>6 DEF Keeps
    <3>2. QED
      BY <2>1, <3>1 DEF RootOf, StrategicOf, Is, Chain, ClosedUp
  <2>7. QED
    BY <2>2, <2>3, <2>4, <2>5, <2>6, StepLemma
<1>3. QED
  BY <1>1, <1>2

----------------------------------------------------------------------------
(* An archived project *)

LEMMA FrozenStep ==
    ASSUME StoreInv, [Next]_domain_vars, NEW p \in Projects
    PROVE  FrozenBy(p)
<1> USE NoneAssumption
<1> SUFFICES ASSUME project[p].status = "archived", project'[p].status # "active"
             PROVE  \A i \in Ids : i \in RowsOf(p) \cup RowsOf(p)' => row'[i] = row[i]
  BY StepLemma DEF ProjectsKeep, FrozenBy
<1>1. ASSUME NEW i \in Ids \ spent, NEW kind \in Kinds, NEW q \in Projects \cup {None},
             NEW parent \in Ids \cup {None}, Placed(kind, q, parent),
             Insert(i, NewRow(kind, q, parent))
      PROVE  \A x \in Ids : x \in RowsOf(p) \cup RowsOf(p)' => row'[x] = row[x]
  <2>1. /\ row[i] = NoRow /\ row'[i].project = q
        /\ \A x \in Ids : x # i => row'[x] = row[x]
    BY <1>1, AddedRow
  <2>2. q # p
    BY <1>1 DEF Placed, ActiveOrNone, Active
  <2>3. QED
    BY <2>1, <2>2 DEF RowsOf, NoRow
<1>2. ASSUME NEW i \in Ids, NEW r \in Row, Change(i, r),
             r.kind = row[i].kind, r.parent = row[i].parent,
             ActiveOrNone(row[i].project), ActiveOrNone(r.project)
      PROVE  \A x \in Ids : x \in RowsOf(p) \cup RowsOf(p)' => row'[x] = row[x]
  <2>1. row'[i] = r /\ \A x \in Ids : x # i => row'[x] = row[x]
    BY <1>2, RewrittenRow
  <2>2. r.project # p /\ row[i].project # p
    BY <1>2 DEF ActiveOrNone, Active
  <2>3. QED
    BY <2>1, <2>2 DEF RowsOf
<1>3. ASSUME NEW g \in Ids, NEW parent \in Ids, MoveGoal(g, parent)
      PROVE  \A x \in Ids : x \in RowsOf(p) \cup RowsOf(p)' => row'[x] = row[x]
  <2>1. /\ row'[g].project = row[g].project
        /\ \A x \in Ids : x # g => row'[x] = row[x]
    BY <1>3, MoveType DEF StoreInv
  <2>2. row[g].project # p
    BY <1>3 DEF MoveGoal, Active
  <2>3. QED
    BY <2>1, <2>2 DEF RowsOf
<1>4. CASE Deletes
  <2>1. PICK D \in SUBSET Ids, q \in Projects \cup {None} :
               Delete(D) /\ ActiveOrNone(q) /\ \A x \in D : row[x].project = q
    BY <1>4 DEF Deletes
  <2>2. q # p
    BY <2>1 DEF ActiveOrNone, Active
  <2>3. \A x \in Ids : row'[x] = IF x \in D THEN NoRow ELSE row[x]
    BY <2>1 DEF Delete
  <2>4. QED
    BY <2>1, <2>2, <2>3 DEF RowsOf, NoRow
<1>5. CASE Keeps
  BY <1>5 DEF Keeps
<1>6. QED
  BY <1>1, <1>2, <1>3, <1>4, <1>5, StepLemma DEF Adds, Rewrites, Moves

----------------------------------------------------------------------------
(* Theorems *)

LEMMA InitInv ==
    ASSUME Init
    PROVE  StoreInv
<1> USE NoneAssumption DEF Init
<1>1. TypeOK
  BY DEF TypeOK, ProjectRow, Row, NoRow, InsightStatus
<1>2. Known /\ ParentsHold
  BY DEF Known, ParentsHold, Live, Is, NoRow, GoalKinds
<1>3. Acyclic
  BY DEF Acyclic, NoRow
<1>4. OneRoot
  BY DEF OneRoot
<1>5. QED
  BY <1>1, <1>2, <1>3, <1>4 DEF StoreInv

\* The rows of the domain tables: known parents, no cycle, one root a project.
THEOREM StoreInvariant == Spec => []StoreInv
<1>1. StoreInv /\ [Next]_domain_vars => StoreInv'
  BY TypeStep, KnownStep, ParentsStep, AcyclicStep, RootStep DEF StoreInv
<1>2. QED
  BY <1>1, InitInv, PTL DEF Spec

\* Every column of every row keeps to its type, whatever verbs follow one
\* another on whatever store.
THEOREM DomainTypeCorrect == Spec => []TypeOK
<1>1. StoreInv => TypeOK
  BY DEF StoreInv
<1>2. QED
  BY <1>1, StoreInvariant, PTL

\* create_goal, move_goal, delete_goal and the task verbs keep the goals and
\* the tasks of the store trees: parents exist and are of the same tree and
\* project, no chain of parents closes, and every goal of a project hangs below
\* its one strategic goal.
THEOREM TreesTheorem == Spec => []TreesHold
<1>1. StoreInv => TreesHold
  BY DEF StoreInv, TreesHold
<1>2. QED
  BY <1>1, StoreInvariant, PTL

\* ensure_project_active stands before every write that it must stand before:
\* while a project is archived, none of its rows, links or columns change.
THEOREM FrozenTheorem == Spec => ArchivedFrozen
<1>1. StoreInv /\ [Next]_domain_vars => \A p \in Projects : FrozenBy(p)
  BY FrozenStep
<1>2. QED
  BY <1>1, StoreInvariant, PTL DEF Spec, ArchivedFrozen

----------------------------------------------------------------------------
(* The graph *)

\* A live node's id was issued, its project was created, and so was the entity
\* it stands for.
NodesKnown ==
    \A n \in Nodes :
      /\ LiveNode(n) => /\ n \in nodeSpent /\ node[n].project \in Projects
                        /\ project[node[n].project].status # "absent"
      /\ node[n].entity # None => node[n].entity \in spent

GraphInv == StoreInv /\ GraphTypeOK /\ NodesKnown /\ GraphSound

----------------------------------------------------------------------------
(* The ways a step changes the graph *)

Same == UNCHANGED <<node, nodeSpent, edge>> /\ pushed' \in SUBSET Projects

Inserts ==
    \E n \in Nodes, p \in Projects, i \in Ids \cup {None} :
      /\ InsertNode(n, p, i)
      /\ i # None => ~Referenced(i) /\ i \in spent'
      /\ project'[p].status # "absent"
      /\ \/ project[p].status = "absent" /\ pushed' = {}
         \/ Active(p) /\ pushed' = {p}

Writes ==
    \E n \in Nodes :
      /\ LiveNode(n) /\ Active(node[n].project)
      /\ node' = [node EXCEPT ![n].rev = 1 - node[n].rev]
      /\ UNCHANGED <<nodeSpent, edge>> /\ pushed' = Reachable(n)

Removes ==
    \E n \in Nodes :
      /\ LiveNode(n) /\ Active(node[n].project)
      /\ node' = [node EXCEPT ![n] = NoNode]
      /\ edge' = edge \ Incident(n)
      /\ UNCHANGED nodeSpent /\ pushed' = Reachable(n)

Relinks ==
    \E e \in EdgeRow :
      /\ LiveNode(e.src) /\ LiveNode(e.dst) /\ e.src # e.dst /\ EndsActive(e)
      /\ UNCHANGED <<node, nodeSpent>> /\ pushed' = EndProjects(e)
      /\ edge' \in SUBSET EdgeRow
      /\ \A f \in (edge \ edge') \cup (edge' \ edge) : f.src = e.src /\ f.dst = e.dst

\* A verb of the graph leaves the domain rows alone, or is one of their verbs.
LEMMA DomainStep == [GraphNext]_vars => [Next]_domain_vars
<1> SUFFICES ASSUME [GraphNext]_vars PROVE [Next]_domain_vars OBVIOUS
<1>1. CASE UNCHANGED vars BY <1>1 DEF vars
<1>2. CASE PlainVerb BY <1>2 DEF PlainVerb, Next, ProjectVerb
<1>3. CASE SeedingVerb
  BY <1>3 DEF SeedingVerb, CreateProjectSeeded, AcceptInsight, AcceptThenCrash,
              SetInsightStatusOnly, Next, ProjectVerb, InsightStatus
<1>4. CASE NodeVerb \/ EdgeVerb
  BY <1>4 DEF NodeVerb, EdgeVerb, AddNode, WriteNode, DeleteNode, AddEdge, UpdateEdge, DeleteEdge
<1> QED BY <1>1, <1>2, <1>3, <1>4 DEF GraphNext

LEMMA SeedingStep ==
    ASSUME GraphInv, SeedingVerb
    PROVE  Same \/ Inserts
<1> USE NoneAssumption DEF GraphInv, StoreInv
<1>1. ASSUME NEW p \in Projects, NEW W \in SUBSET Workspaces, NEW g \in Ids, NEW n \in Nodes,
             CreateProjectSeeded(p, W, g, n)
      PROVE  Inserts
  <2>1. /\ g \notin spent /\ g \in spent' /\ project[p].status = "absent"
        /\ project' = [project EXCEPT ![p].status = "active"]
    BY <1>1 DEF CreateProjectSeeded, CreateProject, Fresh, Insert
  <2>2. project'[p].status = "active" BY <2>1 DEF TypeOK, ProjectRow
  <2>3. ~Referenced(g) BY <2>1 DEF Referenced, NodesKnown
  <2>4. InsertNode(n, p, g) /\ pushed' = {} BY <1>1 DEF CreateProjectSeeded
  <2> QED BY <2>1, <2>2, <2>3, <2>4 DEF Inserts
<1>2. ASSUME NEW i \in Ids, NEW status \in InsightStatus, SetInsightStatus(i, status),
             row[i].project # None
      PROVE  /\ row[i].project \in Projects /\ Active(row[i].project) /\ i \in spent'
             /\ UNCHANGED project
  <2>1. Live(i) /\ ActiveOrNone(row[i].project) /\ UNCHANGED <<spent, project>>
    BY <1>2 DEF SetInsightStatus, Is, Live, Change
  <2> QED BY <1>2, <2>1 DEF ActiveOrNone, Known
<1>3. ASSUME NEW i \in Ids, NEW n \in Nodes, AcceptInsight(i, n)
      PROVE  Same \/ Inserts
  <2>1. /\ row[i].project \in Projects /\ Active(row[i].project) /\ i \in spent'
        /\ UNCHANGED project
    BY <1>2, <1>3 DEF AcceptInsight, InsightStatus
  <2>2. CASE ~Referenced(i) /\ InsertNode(n, row[i].project, i)
    BY <1>3, <2>1, <2>2 DEF AcceptInsight, Inserts, Active
  <2>3. CASE UNCHANGED <<node, nodeSpent, edge>>
    BY <1>3, <2>1, <2>3 DEF AcceptInsight, Same
  <2> QED BY <1>3, <2>2, <2>3 DEF AcceptInsight
<1> QED
  BY <1>1, <1>3
     DEF SeedingVerb, AcceptThenCrash, SetInsightStatusOnly, GraphUntouched, Same

LEMMA GraphStep ==
    ASSUME GraphInv, [GraphNext]_vars
    PROVE  Same \/ Inserts \/ Writes \/ Removes \/ Relinks
<1> USE NoneAssumption DEF GraphInv
<1>1. CASE UNCHANGED vars
  BY <1>1 DEF vars, graph_vars, Same, GraphTypeOK
<1>2. CASE PlainVerb BY <1>2 DEF PlainVerb, GraphUntouched, Same
<1>3. CASE SeedingVerb BY <1>3, SeedingStep
<1>4. ASSUME NEW n \in Nodes, NEW p \in Projects, AddNode(n, p) PROVE Inserts
  BY <1>4 DEF AddNode, Inserts, Active, domain_vars
<1>5. ASSUME NEW n \in Nodes, NEW q, WriteNode(n, q) PROVE Writes
  BY <1>5 DEF WriteNode, Writes
<1>6. ASSUME NEW n \in Nodes, NEW q, DeleteNode(n, q) PROVE Removes
  BY <1>6 DEF DeleteNode, Removes
<1>7. ASSUME NEW e \in EdgeRow, AddEdge(e) PROVE Relinks
  BY <1>7 DEF AddEdge, Relinks, GraphTypeOK
<1>8. ASSUME NEW e \in edge, NEW kind \in EdgeKinds, UpdateEdge(e, kind) PROVE Relinks
  <2> DEFINE f == [e EXCEPT !.kind = kind]
  <2>1. e \in EdgeRow BY DEF GraphTypeOK
  <2>2. f \in EdgeRow /\ f.src = e.src /\ f.dst = e.dst BY <2>1 DEF EdgeRow
  <2>3. edge' = (edge \ {e}) \cup {f} /\ EndsActive(e) /\ pushed' = EndProjects(e)
        /\ UNCHANGED <<node, nodeSpent>>
    BY <1>8 DEF UpdateEdge
  <2>4. LiveNode(e.src) /\ LiveNode(e.dst) /\ e.src # e.dst BY DEF GraphSound
  <2>5. edge' \in SUBSET EdgeRow BY <2>2, <2>3 DEF GraphTypeOK
  <2> HIDE DEF f
  <2> QED BY <2>1, <2>2, <2>3, <2>4, <2>5 DEF Relinks
<1>9. ASSUME NEW e \in edge, DeleteEdge(e) PROVE Relinks
  <2>1. e \in EdgeRow BY DEF GraphTypeOK
  <2>2. LiveNode(e.src) /\ LiveNode(e.dst) /\ e.src # e.dst BY DEF GraphSound
  <2> QED BY <1>9, <2>1, <2>2 DEF DeleteEdge, Relinks, GraphTypeOK
<1> QED
  BY <1>1, <1>2, <1>3, <1>4, <1>5, <1>6, <1>7, <1>8, <1>9
     DEF GraphNext, NodeVerb, EdgeVerb

----------------------------------------------------------------------------
(* The invariant *)

LEMMA NodeTypes ==
    /\ NoNode \in NodeRow
    /\ \A p \in Projects, i \in Ids \cup {None} : [project |-> p, entity |-> i, rev |-> 0] \in NodeRow
    /\ \A r \in NodeRow :
         LET new == [r EXCEPT !.rev = 1 - r.rev]
         IN  new \in NodeRow /\ new.project = r.project /\ new.entity = r.entity
BY DEF NoNode, NodeRow

\* An insert gives one node that was not there.
LEMMA InsertLemma ==
    ASSUME GraphInv, NEW n \in Nodes, NEW p \in Projects, NEW i \in Ids \cup {None},
           InsertNode(n, p, i)
    PROVE  /\ ~LiveNode(n) /\ LiveNode(n)' /\ UNCHANGED edge
           /\ node'[n].project = p /\ node'[n].entity = i
           /\ \A m \in Nodes : m # n => node'[m] = node[m]
           /\ nodeSpent' = nodeSpent \cup {n} /\ node' \in [Nodes -> NodeRow]
<1>1. node' = [node EXCEPT ![n] = [project |-> p, entity |-> i, rev |-> 0]]
  BY DEF InsertNode
<1>2. node \in [Nodes -> NodeRow] BY DEF GraphInv, GraphTypeOK
<1>3. node'[n] = [project |-> p, entity |-> i, rev |-> 0] BY <1>1, <1>2
<1>4. ~LiveNode(n) BY DEF InsertNode, GraphInv, NodesKnown
<1> QED BY <1>1, <1>2, <1>3, <1>4, NodeTypes, NoneAssumption DEF InsertNode, LiveNode

LEMMA WriteLemma ==
    ASSUME GraphInv, NEW n \in Nodes, node' = [node EXCEPT ![n].rev = 1 - node[n].rev]
    PROVE  /\ node' \in [Nodes -> NodeRow]
           /\ \A m \in Nodes : node'[m].project = node[m].project /\ node'[m].entity = node[m].entity
           /\ \A m \in Nodes : m # n => node'[m] = node[m]
<1>1. node \in [Nodes -> NodeRow] BY DEF GraphInv, GraphTypeOK
<1>2. node'[n] = [node[n] EXCEPT !.rev = 1 - node[n].rev] BY <1>1
<1>3. /\ node'[n] \in NodeRow /\ node'[n].project = node[n].project
      /\ node'[n].entity = node[n].entity
  BY <1>1, <1>2, NodeTypes
<1> QED BY <1>1, <1>3

LEMMA ReachableType ==
    ASSUME GraphInv, NEW n \in Nodes, LiveNode(n)
    PROVE  Reachable(n) \in SUBSET Projects
BY DEF GraphInv, GraphTypeOK, GraphSound, NodesKnown, Reachable, EndProjects, Incident, EdgeRow

\* An id that was issued stays so.
LEMMA SpentGrows ==
    ASSUME StoreInv, [Next]_domain_vars
    PROVE  spent \subseteq spent'
<1>1. (Adds \/ Rewrites \/ Moves \/ Deletes \/ Keeps) BY StepLemma
<1> QED BY <1>1 DEF Adds, Insert, Rewrites, Change, Moves, MoveGoal, Deletes, Delete, Keeps

LEMMA GraphInductive ==
    ASSUME GraphInv, [GraphNext]_vars
    PROVE  GraphInv'
<1>1. /\ StoreInv' /\ spent \subseteq spent'
      /\ \A p \in Projects : project[p].status # "absent" => project'[p].status # "absent"
  <2>1. [Next]_domain_vars BY DomainStep
  <2>2. ProjectsKeep BY <2>1, StepLemma DEF GraphInv
  <2> QED
    BY <2>1, <2>2, SpentGrows, TypeStep, KnownStep, ParentsStep, AcyclicStep, RootStep
       DEF GraphInv, StoreInv, ProjectsKeep
<1>2. TypeOK' BY <1>1 DEF StoreInv
<1> USE NoneAssumption
<1>3. CASE Same
  BY <1>1, <1>2, <1>3
     DEF GraphInv, Same, GraphTypeOK, NodesKnown, GraphSound, LiveNode
<1>4. CASE Inserts
  <2> PICK n \in Nodes, p \in Projects, i \in Ids \cup {None} :
        /\ InsertNode(n, p, i)
        /\ i # None => ~Referenced(i) /\ i \in spent'
        /\ project'[p].status # "absent" /\ pushed' \in {{}, {p}}
    BY <1>4 DEF Inserts
  <2>1. GraphTypeOK' BY <1>2, InsertLemma DEF GraphInv, GraphTypeOK
  <2>2. NodesKnown' BY <1>1, InsertLemma DEF GraphInv, NodesKnown, LiveNode
  <2>3. GraphSound' BY InsertLemma DEF GraphInv, GraphTypeOK, EdgeRow, GraphSound, LiveNode, Referenced
  <2> QED BY <1>1, <2>1, <2>2, <2>3 DEF GraphInv
<1>5. CASE Writes
  <2> PICK n \in Nodes :
        /\ LiveNode(n) /\ node' = [node EXCEPT ![n].rev = 1 - node[n].rev]
        /\ UNCHANGED <<nodeSpent, edge>> /\ pushed' = Reachable(n)
    BY <1>5 DEF Writes
  <2>1. GraphTypeOK' BY <1>2, WriteLemma, ReachableType DEF GraphInv, GraphTypeOK
  <2>2. NodesKnown' BY <1>1, WriteLemma DEF GraphInv, NodesKnown, LiveNode
  <2>3. GraphSound' BY WriteLemma DEF GraphInv, GraphTypeOK, EdgeRow, GraphSound, LiveNode
  <2> QED BY <1>1, <2>1, <2>2, <2>3 DEF GraphInv
<1>6. CASE Removes
  <2> PICK n \in Nodes :
        /\ LiveNode(n) /\ node' = [node EXCEPT ![n] = NoNode]
        /\ edge' = edge \ Incident(n)
        /\ UNCHANGED nodeSpent /\ pushed' = Reachable(n)
    BY <1>6 DEF Removes
  <2>0. node \in [Nodes -> NodeRow] BY DEF GraphInv, GraphTypeOK
  <2>1. node' \in [Nodes -> NodeRow] /\ node'[n] = NoNode
        /\ \A m \in Nodes : m # n => node'[m] = node[m]
    BY <2>0, NodeTypes
  <2>2. GraphTypeOK' BY <1>2, <2>1, ReachableType DEF GraphInv, GraphTypeOK
  <2>3. NodesKnown' BY <1>1, <2>1 DEF GraphInv, NodesKnown, LiveNode, NoNode
  <2>4. GraphSound'
    BY <2>1 DEF GraphInv, GraphTypeOK, EdgeRow, GraphSound, LiveNode, NoNode, Incident
  <2> QED BY <1>1, <2>2, <2>3, <2>4 DEF GraphInv
<1>7. CASE Relinks
  <2> PICK e \in EdgeRow :
        /\ LiveNode(e.src) /\ LiveNode(e.dst) /\ e.src # e.dst
        /\ UNCHANGED <<node, nodeSpent>> /\ pushed' = EndProjects(e)
        /\ edge' \in SUBSET EdgeRow
        /\ \A f \in (edge \ edge') \cup (edge' \ edge) : f.src = e.src /\ f.dst = e.dst
    BY <1>7 DEF Relinks
  <2>1. pushed' \in SUBSET Projects BY DEF GraphInv, NodesKnown, EndProjects, EdgeRow
  <2>2. GraphTypeOK' BY <1>2, <2>1 DEF GraphInv, GraphTypeOK
  <2>3. NodesKnown' BY <1>1 DEF GraphInv, NodesKnown, LiveNode
  <2>4. GraphSound' BY DEF GraphInv, GraphSound, LiveNode
  <2> QED BY <1>1, <2>2, <2>3, <2>4 DEF GraphInv
<1> QED BY <1>3, <1>4, <1>5, <1>6, <1>7, GraphStep

LEMMA GraphInitially == GraphInit => GraphInv
<1> SUFFICES ASSUME GraphInit PROVE GraphInv OBVIOUS
<1>1. StoreInv BY InitInv DEF GraphInit
<1>2. GraphTypeOK BY <1>1, NodeTypes DEF GraphInit, GraphTypeOK, StoreInv
<1>3. NodesKnown /\ GraphSound BY DEF GraphInit, NodesKnown, GraphSound, LiveNode, NoNode
<1> QED BY <1>1, <1>2, <1>3 DEF GraphInv

----------------------------------------------------------------------------
(* What a client is shown *)

\* What GraphListProject answers for p depends on p's nodes, the edges that
\* touch them and the nodes at the ends of those.
LEMMA ShownSame ==
    ASSUME NEW p, NodesOf(p)' = NodesOf(p), GraphOf(p).edges' = GraphOf(p).edges,
           \A n \in NodesOf(p) : node'[n] = node[n],
           \A e \in GraphOf(p).edges : node'[e.src] = node[e.src] /\ node'[e.dst] = node[e.dst]
    PROVE  Shown(p)' = Shown(p)
<1> DEFINE E == GraphOf(p).edges
           ends == UNION {{e.src, e.dst} : e \in E}
           nodes == {<<n, node[n]>> : n \in NodesOf(p) \cup ends}
<1>1. E' = E /\ ends' = ends OBVIOUS
<1>2. \A n \in NodesOf(p) \cup ends : node'[n] = node[n] OBVIOUS
<1>3. nodes' = {<<n, node'[n]>> : n \in NodesOf(p) \cup ends} BY <1>1
<1>4. nodes' = nodes BY <1>2, <1>3
<1>5. Shown(p) = [nodes |-> nodes, edges |-> E] BY DEF Shown
<1>6. Shown(p)' = [nodes |-> nodes', edges |-> E'] BY DEF Shown
<1> HIDE DEF E, nodes
<1> QED BY <1>1, <1>4, <1>5, <1>6

\* What the steps mean for the graph of a project p that exists.
Kept(p) ==
    /\ NodesOf(p)' = NodesOf(p) /\ GraphOf(p).edges' = GraphOf(p).edges
    /\ \A n \in NodesOf(p) : node'[n] = node[n]
    /\ \A e \in GraphOf(p).edges : node'[e.src] = node[e.src] /\ node'[e.dst] = node[e.dst]

LEMMA EdgeEnds ==
    ASSUME GraphInv, NEW e \in edge
    PROVE  e \in EdgeRow /\ e.src \in Nodes /\ e.dst \in Nodes /\ LiveNode(e.src) /\ LiveNode(e.dst)
BY DEF GraphInv, GraphTypeOK, GraphSound, EdgeRow

LEMMA InsertKeeps ==
    ASSUME GraphInv, NEW p \in Projects, NEW n \in Nodes, NEW q \in Projects,
           NEW i \in Ids \cup {None}, InsertNode(n, q, i), p # q
    PROVE  Kept(p)
<1>1. \A e \in edge : e.src # n /\ e.dst # n BY EdgeEnds, InsertLemma
<1>2. NodesOf(p)' = NodesOf(p) BY InsertLemma, NoneAssumption DEF NodesOf, LiveNode
<1>3. GraphOf(p).edges' = GraphOf(p).edges
  <2>1. \A e \in edge : EndProjects(e)' = EndProjects(e)
    BY <1>1, EdgeEnds, InsertLemma DEF EndProjects
  <2> QED BY <2>1, InsertLemma DEF GraphOf
<1>4. \A m \in NodesOf(p) : node'[m] = node[m]
  BY InsertLemma, NoneAssumption DEF NodesOf, LiveNode
<1>5. \A e \in edge : node'[e.src] = node[e.src] /\ node'[e.dst] = node[e.dst]
  BY <1>1, EdgeEnds, InsertLemma
<1> QED BY <1>2, <1>3, <1>4, <1>5 DEF Kept, GraphOf

\* A write or a removal of a node out of p's reach.
LEMMA NodeKeeps ==
    ASSUME GraphInv, NEW p \in Projects, NEW n \in Nodes, p \notin Reachable(n),
           \A m \in Nodes : m # n => node'[m] = node[m],
           node'[n].project \in {node[n].project, None},
           edge' = edge \/ edge' = edge \ Incident(n)
    PROVE  Kept(p)
<1>1. node[n].project # p /\ \A e \in Incident(n) : p \notin EndProjects(e)
  BY DEF Reachable
<1>2. NodesOf(p)' = NodesOf(p) BY <1>1, NoneAssumption DEF NodesOf
<1>3. \A e \in edge : e \notin Incident(n) => e.src # n /\ e.dst # n BY DEF Incident
<1>4. \A e \in edge \ Incident(n) : EndProjects(e)' = EndProjects(e)
  BY <1>3, EdgeEnds DEF EndProjects
<1>5. \A e \in Incident(n) : e \in edge' => p \notin EndProjects(e)'
  <2>1. \A e \in Incident(n) : e \in edge BY DEF Incident
  <2> QED BY <1>1, <2>1, EdgeEnds, NoneAssumption DEF EndProjects
<1>6. GraphOf(p).edges' = GraphOf(p).edges
  BY <1>1, <1>4, <1>5 DEF GraphOf
<1>7. \A m \in NodesOf(p) : node'[m] = node[m] BY <1>1 DEF NodesOf
<1>8. \A e \in GraphOf(p).edges : e \in edge \ Incident(n) BY <1>1 DEF GraphOf
<1>9. \A e \in GraphOf(p).edges : node'[e.src] = node[e.src] /\ node'[e.dst] = node[e.dst]
  BY <1>3, <1>8, EdgeEnds
<1> QED BY <1>2, <1>6, <1>7, <1>9 DEF Kept

LEMMA RelinkKeeps ==
    ASSUME GraphInv, NEW p \in Projects, NEW e \in EdgeRow, p \notin EndProjects(e), UNCHANGED node,
           \A f \in (edge \ edge') \cup (edge' \ edge) : f.src = e.src /\ f.dst = e.dst
    PROVE  Kept(p)
<1>1. \A f \in (edge \ edge') \cup (edge' \ edge) : p \notin EndProjects(f)
  BY DEF EndProjects
<1>2. GraphOf(p).edges' = GraphOf(p).edges BY <1>1 DEF GraphOf, EndProjects
<1> QED BY <1>2 DEF Kept, NodesOf

\* A step that does not push to p leaves its graph alone.
LEMMA UnpushedKept ==
    ASSUME GraphInv, [GraphNext]_vars, NEW p \in Projects, project[p].status # "absent",
           p \notin pushed'
    PROVE  Kept(p)
<1>1. CASE Same BY <1>1 DEF Same, Kept, NodesOf, GraphOf, EndProjects
<1>2. CASE Inserts
  <2> PICK n \in Nodes, q \in Projects, i \in Ids \cup {None} :
        InsertNode(n, q, i) /\ (project[q].status = "absent" \/ pushed' = {q})
    BY <1>2 DEF Inserts
  <2> QED BY InsertKeeps
<1>3. CASE Writes
  <2> PICK n \in Nodes : /\ node' = [node EXCEPT ![n].rev = 1 - node[n].rev]
                         /\ UNCHANGED edge /\ pushed' = Reachable(n)
    BY <1>3 DEF Writes
  <2> QED BY WriteLemma, NodeKeeps
<1>4. CASE Removes
  <2> PICK n \in Nodes : /\ node' = [node EXCEPT ![n] = NoNode]
                         /\ edge' = edge \ Incident(n) /\ pushed' = Reachable(n)
    BY <1>4 DEF Removes
  <2>1. node'[n].project = None /\ \A m \in Nodes : m # n => node'[m] = node[m]
    BY DEF GraphInv, GraphTypeOK, NoNode
  <2> QED BY <2>1, NodeKeeps
<1>5. CASE Relinks
  <2> PICK e \in EdgeRow : /\ UNCHANGED node /\ pushed' = EndProjects(e)
                           /\ \A f \in (edge \ edge') \cup (edge' \ edge) :
                                f.src = e.src /\ f.dst = e.dst
    BY <1>5 DEF Relinks
  <2> QED BY RelinkKeeps
<1> QED BY <1>1, <1>2, <1>3, <1>4, <1>5, GraphStep

\* The archived project's own graph, in any step.
FrozenGraph(p) ==
    /\ \A n \in NodesOf(p) \cup NodesOf(p)' : node'[n] = node[n]
    /\ GraphOf(p).edges' \subseteq GraphOf(p).edges
    /\ \A e \in GraphOf(p).edges \ GraphOf(p).edges' :
          \E n \in {e.src, e.dst} : node'[n] = NoNode

LEMMA KeptFrozen ==
    ASSUME NEW p, Kept(p)
    PROVE  FrozenGraph(p)
BY DEF Kept, FrozenGraph

LEMMA ArchivedStep ==
    ASSUME GraphInv, [GraphNext]_vars, NEW p \in Projects, project[p].status = "archived"
    PROVE  FrozenGraph(p)
<1>1. CASE Same
  <2>1. Kept(p) BY <1>1 DEF Same, Kept, NodesOf, GraphOf, EndProjects
  <2> QED BY <2>1, KeptFrozen
<1>2. CASE Inserts
  <2> PICK n \in Nodes, q \in Projects, i \in Ids \cup {None} :
        InsertNode(n, q, i) /\ (project[q].status = "absent" \/ Active(q))
    BY <1>2 DEF Inserts
  <2>1. p # q BY DEF Active
  <2> QED BY <2>1, InsertKeeps, KeptFrozen
<1>3. CASE Writes
  <2> PICK n \in Nodes : /\ Active(node[n].project)
                         /\ node' = [node EXCEPT ![n].rev = 1 - node[n].rev]
                         /\ UNCHANGED edge
    BY <1>3 DEF Writes
  <2>1. node[n].project # p BY DEF Active
  <2>2. \A m \in NodesOf(p) \cup NodesOf(p)' : node'[m] = node[m]
    BY <2>1, WriteLemma DEF NodesOf
  <2>3. GraphOf(p).edges' = GraphOf(p).edges
    <3>1. \A e \in edge : EndProjects(e)' = EndProjects(e) BY EdgeEnds, WriteLemma DEF EndProjects
    <3> QED BY <3>1 DEF GraphOf
  <2> QED BY <2>2, <2>3 DEF FrozenGraph
<1>4. CASE Removes
  <2> PICK n \in Nodes : /\ Active(node[n].project)
                         /\ node' = [node EXCEPT ![n] = NoNode]
                         /\ edge' = edge \ Incident(n)
    BY <1>4 DEF Removes
  <2>1. node'[n] = NoNode /\ \A m \in Nodes : m # n => node'[m] = node[m]
    BY DEF GraphInv, GraphTypeOK
  <2>2. node[n].project # p BY DEF Active
  <2>3. \A m \in NodesOf(p) \cup NodesOf(p)' : node'[m] = node[m]
    BY <2>1, <2>2, NoneAssumption DEF NodesOf, NoNode
  <2>4. \A e \in edge' : EndProjects(e)' = EndProjects(e)
    BY <2>1, EdgeEnds DEF EndProjects, Incident
  <2>5. GraphOf(p).edges' \subseteq GraphOf(p).edges BY <2>4 DEF GraphOf
  <2>6. \A e \in GraphOf(p).edges \ GraphOf(p).edges' : e \in Incident(n)
    BY <2>4 DEF GraphOf
  <2>7. \A e \in GraphOf(p).edges \ GraphOf(p).edges' : \E m \in {e.src, e.dst} : node'[m] = NoNode
    BY <2>1, <2>6 DEF Incident
  <2> QED BY <2>3, <2>5, <2>7 DEF FrozenGraph
<1>5. CASE Relinks
  <2> PICK e \in EdgeRow : /\ UNCHANGED node /\ EndsActive(e)
                           /\ \A f \in (edge \ edge') \cup (edge' \ edge) :
                                f.src = e.src /\ f.dst = e.dst
    BY <1>5 DEF Relinks
  <2>1. p \notin EndProjects(e) BY DEF EndsActive, Active
  <2> QED BY <2>1, RelinkKeeps, KeptFrozen
<1> QED BY <1>1, <1>2, <1>3, <1>4, <1>5, GraphStep

----------------------------------------------------------------------------
(* The backup *)

\* A pair of one project only.
LEMMA OneElement ==
    ASSUME NEW a, NEW b, ~(Cardinality({a, b}) > 1)
    PROVE  a = b
<1> SUFFICES ASSUME a # b PROVE FALSE OBVIOUS
<1>1. IsFiniteSet({a}) /\ Cardinality({a}) = 1 BY FS_Singleton
<1>2. Cardinality({a} \cup {b}) = 2 BY <1>1, FS_AddElement
<1>3. {a} \cup {b} = {a, b} OBVIOUS
<1> QED BY <1>2, <1>3

\* Without a cross-project edge the two ends of an edge are nodes of one project,
\* and that project was created.
LEMMA EdgeHome ==
    ASSUME GraphInv, CrossEdges = {}, NEW e \in edge
    PROVE  \E p \in Exported :
             /\ e.src \in NodesOf(p) /\ e.dst \in NodesOf(p) /\ EndProjects(e) = {p}
<1> DEFINE p == node[e.src].project
<1>1. e.src \in Nodes /\ e.dst \in Nodes /\ LiveNode(e.src) BY EdgeEnds
<1>2. p \in Projects /\ project[p].status # "absent" BY <1>1 DEF GraphInv, NodesKnown
<1>3. ~(Cardinality({node[e.src].project, node[e.dst].project}) > 1)
  BY DEF CrossEdges, EndProjects
<1>4. node[e.dst].project = p BY <1>3, OneElement
<1>5. EndProjects(e) = {p} BY <1>4 DEF EndProjects
<1>6. p \in Exported BY <1>2 DEF Exported
<1> QED BY <1>1, <1>4, <1>5, <1>6 DEF NodesOf

\* What a bundle holds of the store.
LEMMA BundleHolds ==
    ASSUME NEW p
    PROVE  /\ Bundle(p).graph.edges = {e \in edge : p \in EndProjects(e)}
           /\ Bundle(p).links = LinksOf(p)
           /\ Inserted(p) = {i \in Ids : row[i].project = p}
<1>1. /\ Bundle(p).graph.edges = {e \in edge : p \in EndProjects(e)}
      /\ Bundle(p).links = LinksOf(p)
      /\ Bundle(p).rows = {<<i, row[i]>> : i \in {i \in Ids : row[i].project = p}}
  BY DEF Bundle, GraphOf
<1>2. ASSUME NEW i \in Ids, row[i].project = p PROVE \E r \in Bundle(p).rows : r[1] = i
  <2>1. <<i, row[i]>> \in Bundle(p).rows BY <1>1, <1>2
  <2>2. <<i, row[i]>>[1] = i OBVIOUS
  <2> QED BY <2>1, <2>2
<1>3. ASSUME NEW i \in Ids, NEW r \in Bundle(p).rows, r[1] = i PROVE row[i].project = p
  <2>1. PICK j \in {x \in Ids : row[x].project = p} : r = <<j, row[j]>> BY <1>1
  <2>2. j = i BY <1>3, <2>1
  <2> QED BY <2>1, <2>2
<1> QED BY <1>1, <1>2, <1>3 DEF Inserted

\* No row, edge or link of a store is left out of its export, none is inserted
\* twice and no endpoint dangles.
LEMMA BackupLemma ==
    ASSUME GraphInv
    PROVE  LocalBackupRestores
<1> SUFFICES ASSUME CrossEdges = {}
             PROVE  /\ ImportCommits
                    /\ \A i \in Ids : Live(i) => i \in OrphanRows \/ \E p \in Exported : i \in Inserted(p)
                    /\ edge = UNION {Bundle(p).graph.edges : p \in Exported}
                    /\ \A w \in Workspaces : link[w] # None => w \in Bundle(link[w]).links
  BY DEF LocalBackupRestores
<1>1. ImportCommits
  <2>1. ASSUME NEW p \in Exported, NEW q \in Exported, p # q
        PROVE  /\ Inserted(p) \cap Inserted(q) = {}
               /\ Bundle(p).graph.edges \cap Bundle(q).graph.edges = {}
    <3>1. Inserted(p) \cap Inserted(q) = {} BY <2>1, BundleHolds
    <3>2. \A e \in edge : ~(p \in EndProjects(e) /\ q \in EndProjects(e)) BY <2>1, EdgeHome
    <3> QED BY <3>1, <3>2, BundleHolds
  <2>2. ASSUME NEW p \in Exported, NEW e \in Bundle(p).graph.edges
        PROVE  \E q, r \in Exported : e.src \in NodesOf(q) /\ e.dst \in NodesOf(r)
    <3>1. e \in edge BY BundleHolds
    <3> QED BY <3>1, EdgeHome
  <2> QED BY <2>1, <2>2 DEF ImportCommits
<1>2. ASSUME NEW i \in Ids, Live(i)
      PROVE  i \in OrphanRows \/ \E p \in Exported : i \in Inserted(p)
  <2>1. CASE row[i].project = None
    <3>1. row[i].kind \in Kinds BY <1>2 DEF GraphInv, StoreInv, TypeOK, Row, Live
    <3>2. ~Is(i, GoalKinds \cup {"task"})
      BY <2>1, NoneAssumption DEF GraphInv, StoreInv, Known
    <3> QED BY <2>1, <3>1, <3>2 DEF OrphanRows, Is, Kinds
  <2>2. CASE row[i].project # None
    <3>1. row[i].project \in Exported
      BY <2>2 DEF GraphInv, StoreInv, TypeOK, Row, Known, Exported
    <3> QED BY <3>1, BundleHolds
  <2> QED BY <2>1, <2>2
<1>3. edge = UNION {Bundle(p).graph.edges : p \in Exported}
  <2>1. ASSUME NEW e \in edge PROVE \E p \in Exported : e \in Bundle(p).graph.edges
    BY EdgeHome, BundleHolds
  <2>2. \A p \in Exported : Bundle(p).graph.edges \subseteq edge BY BundleHolds
  <2> QED BY <2>1, <2>2
<1>4. ASSUME NEW w \in Workspaces PROVE w \in Bundle(link[w]).links
  BY BundleHolds DEF LinksOf
<1> QED BY <1>1, <1>2, <1>3, <1>4

----------------------------------------------------------------------------
(* Theorems *)

\* The graph beside the rows: its nodes and the mirrors of the rows keep to what GraphInv says.
THEOREM GraphInvariant == GraphSpec => []GraphInv
<1>1. GraphInv /\ [GraphNext]_vars => GraphInv' BY GraphInductive
<1> QED BY <1>1, GraphInitially, PTL DEF GraphSpec

\* Every row of the domain and of the graph keeps to its type.
THEOREM GraphTypeCorrect == GraphSpec => []GraphTypeOK
<1>1. GraphInv => GraphTypeOK BY DEF GraphInv
<1> QED BY <1>1, GraphInvariant, PTL

\* No verb leaves a dangling edge and no two verbs that seed give an entity two
\* nodes: the cascade of delete_node and the unique index, for any store.
THEOREM SoundTheorem == GraphSpec => []GraphSound
<1>1. GraphInv => GraphSound BY DEF GraphInv
<1> QED BY <1>1, GraphInvariant, PTL

\* export_all writes every row, edge and link of the store into some bundle or
\* among the orphans, and import_project_bundles commits what it wrote, if no
\* edge joins two projects.
THEOREM BackupTheorem == GraphSpec => []LocalBackupRestores
<1>1. GraphInv => LocalBackupRestores BY BackupLemma
<1> QED BY <1>1, GraphInvariant, PTL

\* What node_project_ids_reachable and the endpoints of an edge give is enough:
\* a verb that pushes to no client of a project has not changed what
\* GraphListProject answers for it, its ghosts included.
THEOREM PushTheorem == GraphSpec => PushCoversChange
<1>1. GraphInv /\ [GraphNext]_vars =>
        [\A p \in Projects :
           project[p].status # "absent" /\ Shown(p)' # Shown(p) => p \in pushed']_vars
  <2> SUFFICES ASSUME GraphInv, [GraphNext]_vars, NEW p \in Projects,
                      project[p].status # "absent", p \notin pushed'
               PROVE  Shown(p)' = Shown(p)
    OBVIOUS
  <2> QED BY UnpushedKept, ShownSame DEF Kept
<1> QED BY <1>1, GraphInvariant, PTL DEF GraphSpec, PushCoversChange

\* The graph of an archived project is frozen but for the edges a deletion at
\* their other end takes along.
THEOREM ArchivedGraphTheorem == GraphSpec => ArchivedGraphKept
<1>1. GraphInv /\ [GraphNext]_vars =>
        [\A p \in Projects :
          project[p].status = "archived" /\ project'[p].status = "archived" =>
             /\ \A n \in NodesOf(p) \cup NodesOf(p)' : node'[n] = node[n]
             /\ GraphOf(p).edges' \subseteq GraphOf(p).edges
             /\ \A e \in GraphOf(p).edges \ GraphOf(p).edges' :
                   \E n \in {e.src, e.dst} : node'[n] = NoNode]_vars
  BY ArchivedStep DEF FrozenGraph
<1> QED BY <1>1, GraphInvariant, PTL DEF GraphSpec, ArchivedGraphKept

=============================================================================
