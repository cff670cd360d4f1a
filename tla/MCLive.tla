-------------------------------- MODULE MCLive --------------------------------
(***************************************************************************)
(* What must end along a connection, and what the Core knows over it, on   *)
(* one instance of each component: a behaviour is of one component,        *)
(* `part', while the others keep an initial state.                         *)
(***************************************************************************)
EXTENDS AttachStream, ClientLink, WorkspaceRoots

CONSTANTS f1, m1, m2

VARIABLE part

all_vars == <<vars, link_vars, roots_vars, part>>

LiveInit ==
    /\ Init /\ LinkInit /\ RootsInit
    /\ part \in {"stream", "link", "copy"}
    /\ f1 \in born
    /\ part # "copy" => db[f1] = Roots

LiveNext ==
    /\ IF part = "stream" THEN Next ELSE UNCHANGED vars
    /\ IF part = "link" THEN LinkNext ELSE UNCHANGED link_vars
    /\ IF part = "copy" THEN RootsNext ELSE UNCHANGED roots_vars
    /\ UNCHANGED part

\* The fairness of each component, in its behaviours.
LiveSpec ==
    /\ LiveInit /\ [][LiveNext]_all_vars
    /\ WF_vars(part = "stream" /\ Reader) /\ WF_vars(part = "stream" /\ Waiter)
    /\ \A c \in Conns : WF_vars(part = "stream" /\ AttachStep(c))
    /\ \A s \in Subs : WF_vars(part = "stream" /\ Forwarder(s))
    /\ WF_link_vars(part = "link" /\ Connection) /\ WF_link_vars(part = "link" /\ Handler)
    /\ WF_link_vars(part = "link" /\ Writer)
    /\ WF_link_vars(part = "link" /\ Close({"cleanup"}))
    /\ \A r \in Reqs : WF_link_vars(part = "link" /\ Send(r))

\* Commands are alike: one is used after the other.  They meet a change of another client or a
\* cut, not both.
Few ==
    /\ cmd[m2].st # "new" => cmd[m1].st # "new"
    /\ others + cuts <= 1
=============================================================================
