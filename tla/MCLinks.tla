-------------------------------- MODULE MCLinks --------------------------------
(***************************************************************************)
(* The two ends of a connection, each on an instance with several clients  *)
(* or requests: ClientLink, and the AttachStream of two connections that   *)
(* share a session.  A behaviour is of one of them, `part'; the other      *)
(* keeps its initial state.                                                *)
(***************************************************************************)
EXTENDS AttachStream, ClientLink, TLC

CONSTANTS r1, r2, r3, big

VARIABLE part

EndsInit == Init /\ LinkInit /\ part \in {"link", "stream"}

EndsNext ==
  /\ IF part = "link" THEN LinkNext ELSE UNCHANGED link_vars
  /\ IF part = "stream" THEN Next ELSE UNCHANGED vars
  /\ UNCHANGED part

EndsSpec == EndsInit /\ [][EndsNext]_<<vars, link_vars, part>>

ASSUME LinksAssumption == LinkAssumption

\* Three requests are made, in this order but for the one that is too large.
Made(r) == caller[r] # "new"
InOrder ==
  /\ Cardinality({r \in Reqs : Made(r)}) <= 3
  /\ Made(r2) => Made(r1)
  /\ Made(r3) => Made(r2)

\* Of two connections one stays.
OneStays == \E c \in Conns : link[c] = "up"

\* What the client was shown, and how much of it late, is history: it guards no step, and the
\* invariants of this instance do not read it.
NoHistory ==
  <<part, link_vars, ptyVars, procVars, sinks, connVars, nextSub, owner, chan, fwd, cancel>>

Symmetric == Permutations(Conns)
=============================================================================
