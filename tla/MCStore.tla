-------------------------------- MODULE MCStore --------------------------------
(***************************************************************************)
(* DomainStore and GraphStore for TLC, in one run: a behaviour is either   *)
(* of the domain verbs alone, with the graph left empty and every row kind *)
(* explored, or of all verbs, with the rows and rewrites the graph cannot  *)
(* tell apart stored once and not built on further.                        *)
(***************************************************************************)
EXTENDS GraphStore, TLC

CONSTANTS MaxEdges    \* bound on the edges of the graph

VARIABLE side         \* which of the two the behaviour is of

StoreSymmetry ==
    Permutations(Ids) \cup Permutations(Projects) \cup Permutations(Workspaces)
        \cup Permutations(Nodes)

StoreInit == GraphInit /\ side \in {"domain", "graph"}

StoreNext ==
    /\ \/ side = "graph" /\ GraphNext
       \/ side = "domain" /\ Next /\ GraphUntouched
    /\ UNCHANGED side

StoreSpec == StoreInit /\ [][StoreNext]_<<vars, side>>

GraphBound ==
    /\ Cardinality(edge) <= MaxEdges
    /\ \A i \in Ids : row[i].kind \in {"none", "strategic", "insight"}
    /\ \A i \in Ids : row[i].rev = 1 => row[i].status = "accepted"
    /\ \A p \in Projects : project[p].rev = 0
    /\ \A n \in Nodes : node[n].rev = 0
    /\ \A p \in Projects : Cardinality(LinksOf(p)) <= 1

StoreBound == side = "graph" => GraphBound
=============================================================================
