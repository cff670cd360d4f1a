------------------------------ MODULE GraphStore ------------------------------
(***************************************************************************)
(* The knowledge graph of orchd (crates/orchd/src/graph.rs) on top of the  *)
(* domain rows: nodes, edges, the entityRef nodes other verbs seed, the    *)
(* GraphChanged pushes of socket_server.rs, and what export.rs writes and  *)
(* reads back.  A verb that writes both families is the conjunction of its *)
(* DomainStore action and what it does to the graph.                       *)
(*                                                                         *)
(* A definition marked `Bug:' is a faulty variant of the next one, used by *)
(* no action.                                                              *)
(***************************************************************************)
EXTENDS DomainStore

CONSTANTS
    Nodes,        \* graph_node ids
    EdgeKinds     \* the kinds an edge may have

VARIABLES
    node,         \* node[n]: the graph_node row with id n, or NoNode
    nodeSpent,    \* node ids issued so far
    edge,         \* the graph_edge rows
    pushed        \* projects the last step sent a GraphChanged for

graph_vars == <<node, nodeSpent, edge, pushed>>
vars == <<domain_vars, graph_vars>>

NoNode == [project |-> None, entity |-> None, rev |-> 0]
NodeRow == [project : Projects \cup {None}, entity : Ids \cup {None}, rev : {0, 1}]
EdgeRow == [src : Nodes, dst : Nodes, kind : EdgeKinds]

LiveNode(n) == node[n].project # None
NodesOf(p) == {n \in Nodes : node[n].project = p}
Incident(n) == {e \in edge : n \in {e.src, e.dst}}
EndProjects(e) == {node[e.src].project, node[e.dst].project}

\* node_project_ids_reachable: the node's project and those at the other end
\* of its edges.
Reachable(n) == {node[n].project} \cup UNION {EndProjects(e) : e \in Incident(n)}

\* ensure_node_project: a caller that names a project must name the node's.
Names(n, expected) == expected \in {None, node[n].project}

\* The partial unique index graph_node_one_per_entity.
Referenced(i) == \E n \in Nodes : LiveNode(n) /\ node[n].entity = i

InsertNode(n, p, i) ==
    /\ n \in Nodes \ nodeSpent
    /\ node' = [node EXCEPT ![n] = [project |-> p, entity |-> i, rev |-> 0]]
    /\ nodeSpent' = nodeSpent \cup {n}
    /\ UNCHANGED edge

GraphUntouched == UNCHANGED <<node, nodeSpent, edge>> /\ pushed' = {}

----------------------------------------------------------------------------
GraphInit ==
    /\ Init
    /\ node = [n \in Nodes |-> NoNode]
    /\ nodeSpent = {}
    /\ edge = {}
    /\ pushed = {}

(* Verbs of the domain that also write the graph *)

\* seed_strategic_entity_ref inside create_project's transaction.
CreateProjectSeeded(p, W, g, n) ==
    /\ CreateProject(p, W, g)
    /\ InsertNode(n, p, g)
    /\ pushed' = {}

\* Accepting an insight of a project commits the status first, then seeds its
\* node in a second transaction: an existing node is a Conflict taken as done,
\* a failure of the second transaction is logged and the reply is still Ok.
AcceptInsight(i, n) ==
    /\ SetInsightStatus(i, "accepted")
    /\ row[i].project # None
    /\ \/ ~Referenced(i) /\ InsertNode(n, row[i].project, i)
       \/ UNCHANGED <<node, nodeSpent, edge>>
    /\ pushed' = {row[i].project}

\* orchd dies between the two transactions: no reply, no push, no node.
AcceptThenCrash(i) ==
    /\ SetInsightStatus(i, "accepted")
    /\ row[i].project # None
    /\ ~Referenced(i)
    /\ GraphUntouched

SetInsightStatusOnly(i, status) ==
    /\ SetInsightStatus(i, status)
    /\ status # "accepted" \/ row[i].project = None
    /\ GraphUntouched

(* Verbs of the graph *)

AddNode(n, p) ==
    /\ Active(p)
    /\ InsertNode(n, p, None)
    /\ pushed' = {p}
    /\ UNCHANGED domain_vars

\* Bug: the push is for the node's own project alone.
WriteNodeOwn(n, expected) ==
    /\ LiveNode(n)
    /\ Names(n, expected)
    /\ Active(node[n].project)
    /\ node' = [node EXCEPT ![n].rev = 1 - node[n].rev]
    /\ pushed' = {node[n].project}
    /\ UNCHANGED <<domain_vars, nodeSpent, edge>>

\* GraphUpdateNode and GraphMoveNode.
WriteNode(n, expected) ==
    /\ LiveNode(n)
    /\ Names(n, expected)
    /\ Active(node[n].project)
    /\ node' = [node EXCEPT ![n].rev = 1 - node[n].rev]
    /\ pushed' = Reachable(n)
    /\ UNCHANGED <<domain_vars, nodeSpent, edge>>

\* Bug: only the edges the node is the source of go with it.
DeleteNodeHalf(n, expected) ==
    /\ LiveNode(n)
    /\ Names(n, expected)
    /\ Active(node[n].project)
    /\ node' = [node EXCEPT ![n] = NoNode]
    /\ edge' = {e \in edge : e.src # n}
    /\ pushed' = Reachable(n)
    /\ UNCHANGED <<domain_vars, nodeSpent>>

\* The incident edges go with the node (ON DELETE CASCADE); the push set is
\* read before they do.
DeleteNode(n, expected) ==
    /\ LiveNode(n)
    /\ Names(n, expected)
    /\ Active(node[n].project)
    /\ node' = [node EXCEPT ![n] = NoNode]
    /\ edge' = edge \ Incident(n)
    /\ pushed' = Reachable(n)
    /\ UNCHANGED <<domain_vars, nodeSpent>>

\* Bug: an edge answers to the project of its source alone.
SourceActive(e) == Active(node[e.src].project)

EndsActive(e) == \A p \in EndProjects(e) : Active(p)

AddEdge(e) ==
    /\ e.src # e.dst
    /\ LiveNode(e.src) /\ LiveNode(e.dst)
    /\ EndsActive(e)
    /\ e \notin edge
    /\ edge' = edge \cup {e}
    /\ pushed' = EndProjects(e)
    /\ UNCHANGED <<domain_vars, node, nodeSpent>>

UpdateEdge(e, kind) ==
    /\ e \in edge
    /\ EndsActive(e)
    /\ [e EXCEPT !.kind = kind] \notin edge \ {e}
    /\ edge' = (edge \ {e}) \cup {[e EXCEPT !.kind = kind]}
    /\ pushed' = EndProjects(e)
    /\ UNCHANGED <<domain_vars, node, nodeSpent>>

DeleteEdge(e) ==
    /\ e \in edge
    /\ EndsActive(e)
    /\ edge' = edge \ {e}
    /\ pushed' = EndProjects(e)
    /\ UNCHANGED <<domain_vars, node, nodeSpent>>

----------------------------------------------------------------------------
\* The domain verbs that leave the graph alone.
PlainVerb ==
    /\ \/ \E p \in Projects :
            \/ UpdateProject(p) \/ ArchiveProject(p) \/ UnarchiveProject(p)
            \/ \E w \in Workspaces : AddProjectWorkspace(p, w) \/ RemoveProjectWorkspace(p, w)
       \/ \E i \in Ids : RowVerb(i)
    /\ GraphUntouched

SeedingVerb ==
    \/ \E p \in Projects, W \in SUBSET Workspaces, g \in Ids, n \in Nodes :
          CreateProjectSeeded(p, W, g, n)
    \/ \E i \in Ids :
          \/ \E n \in Nodes : AcceptInsight(i, n)
          \/ AcceptThenCrash(i)
          \/ \E status \in InsightStatus : SetInsightStatusOnly(i, status)

NodeVerb ==
    \E n \in Nodes :
       \/ \E p \in Projects : AddNode(n, p)
       \/ \E expected \in Projects \cup {None} :
             WriteNode(n, expected) \/ DeleteNode(n, expected)

EdgeVerb ==
    \/ \E e \in EdgeRow : AddEdge(e)
    \/ \E e \in edge : DeleteEdge(e) \/ \E kind \in EdgeKinds : UpdateEdge(e, kind)

GraphNext == PlainVerb \/ SeedingVerb \/ NodeVerb \/ EdgeVerb

GraphSpec == GraphInit /\ [][GraphNext]_vars

----------------------------------------------------------------------------
(* Export and import *)

\* export_project_graph: the project's nodes and every edge with an end among
\* them, the ones to another project included.
GraphOf(p) ==
    [nodes |-> {<<n, node[n]>> : n \in NodesOf(p)},
     edges |-> {e \in edge : p \in EndProjects(e)}]

\* list_project_graph: with them the foreign nodes at the far ends, as ghosts.
\* An entityRef's label is read from its entity and is not part of the model.
Shown(p) ==
    LET ends == UNION {{e.src, e.dst} : e \in GraphOf(p).edges}
    IN  [nodes |-> {<<n, node[n]>> : n \in NodesOf(p) \cup ends},
         edges |-> GraphOf(p).edges]

\* build_project_bundle.
Bundle(p) ==
    [project |-> project[p],
     links |-> LinksOf(p),
     rows |-> {<<i, row[i]>> : i \in {i \in Ids : row[i].project = p}},
     graph |-> GraphOf(p)]

\* export_all.
Exported == {p \in Projects : project[p].status # "absent"}
\* Bug: the orphan insights are left out.
OrphanIdeas == {i \in Ids : Is(i, {"idea"}) /\ row[i].project = None}

OrphanRows == {i \in Ids : Is(i, LooseKinds) /\ row[i].project = None}

\* import_project_bundles inserts every row of every bundle in one transaction:
\* an id inserted twice is a Conflict that rolls it all back, a dangling
\* endpoint fails the deferred foreign keys at the commit.
Inserted(p) == {i \in Ids : \E r \in Bundle(p).rows : r[1] = i}
ImportCommits ==
    /\ \A p, q \in Exported : p # q =>
         /\ Inserted(p) \cap Inserted(q) = {}
         /\ Bundle(p).graph.edges \cap Bundle(q).graph.edges = {}
    /\ \A p \in Exported : \A e \in Bundle(p).graph.edges :
         \E q, r \in Exported : e.src \in NodesOf(q) /\ e.dst \in NodesOf(r)

----------------------------------------------------------------------------
GraphTypeOK ==
    /\ TypeOK
    /\ node \in [Nodes -> NodeRow]
    /\ nodeSpent \in SUBSET Nodes
    /\ edge \in SUBSET EdgeRow
    /\ pushed \in SUBSET Projects

\* No verb leaves an edge without its ends, whichever of the two nodes goes
\* first, and no entity ever has two nodes, although two verbs seed them.
GraphSound ==
    /\ \A e \in edge : LiveNode(e.src) /\ LiveNode(e.dst) /\ e.src # e.dst
    /\ \A m, n \in Nodes :
         LiveNode(m) /\ LiveNode(n) /\ node[m].entity = node[n].entity /\ node[m].entity # None
           => m = n

\* A client that refetches a project's graph on each GraphChanged never keeps a
\* stale one: the step that changes what GraphListProject answers for a project
\* pushes to it, to the project that shows the node as a ghost too.
PushCoversChange ==
    [][\A p \in Projects :
          project[p].status # "absent" /\ Shown(p)' # Shown(p) => p \in pushed']_vars

\* While a project is archived its nodes stay as they are, no edge touching them
\* is added or changed, and one disappears only with the node at its other end.
ArchivedGraphKept ==
    [][\A p \in Projects :
          project[p].status = "archived" /\ project'[p].status = "archived" =>
             /\ \A n \in NodesOf(p) \cup NodesOf(p)' : node'[n] = node[n]
             /\ GraphOf(p).edges' \subseteq GraphOf(p).edges
             /\ \A e \in GraphOf(p).edges \ GraphOf(p).edges' :
                   \E n \in {e.src, e.dst} : node'[n] = NoNode]_vars

CrossEdges == {e \in edge : Cardinality(EndProjects(e)) > 1}

\* A whole-store export that holds no cross-project edge imports into an empty
\* store, and the bundles and the orphans hold every row of the store.
LocalBackupRestores ==
    CrossEdges = {} =>
        /\ ImportCommits
        /\ \A i \in Ids : Live(i) => i \in OrphanRows \/ \E p \in Exported : i \in Inserted(p)
        /\ edge = UNION {Bundle(p).graph.edges : p \in Exported}
        /\ \A w \in Workspaces : link[w] # None => w \in Bundle(link[w]).links

\* A whole-store export imports into an empty store.
BackupRestores == ImportCommits
=============================================================================
