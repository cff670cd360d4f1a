---------------------------- MODULE MCSessionHost ----------------------------
(* SessionHost on small instances.                                         *)
EXTENDS SessionHost, TLC

CONSTANTS w1, s1

AllInOne == [s \in Sessions |-> w1]
\* Either one session alone, with two of a client close, a sweep and a restart, or two sessions
\* whose creates follow one another, s1 first, without output and any of these, the PTY held open
\* by a descendant.
Used == {s \in Sessions : create[s].pc # "new"}
OneOrTight ==
  \/ Used \subseteq {s1} /\ closes + sweeps + boots <= 3
  \/ /\ s1 \in Used /\ Cardinality({s \in Used : create[s].pc \notin {"done", "failed"}}) <= 1
     /\ closes = 0 /\ sweeps = 0 /\ boots = 1 /\ \A s \in Sessions : ring[s] = 0
     /\ \A s \in Used : child[s] # "none" => reading[s]
=============================================================================
