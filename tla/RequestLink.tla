------------------------------ MODULE RequestLink ------------------------------
(***************************************************************************)
(* What DaemonClient::request promises its callers, whatever the link      *)
(* between client and daemon goes through: a request is dispatched at most *)
(* once, perhaps after its caller gave up; its caller gets the response to *)
(* that dispatch, or a failure; and one that is refused at the gate or is  *)
(* too large never reaches the daemon.                                     *)
(***************************************************************************)
EXTENDS Naturals

CONSTANTS Reqs, Big, NoReq

VARIABLES
  outcome, (* "new", "asked", "ok", "failed", "refused"                    *)
  answer,  (* the request whose response the caller got                    *)
  ran      (* how often the daemon dispatched it                           *)

request_vars == <<outcome, answer, ran>>

RequestInit ==
  /\ outcome = [r \in Reqs |-> "new"]
  /\ answer = [r \in Reqs |-> NoReq]
  /\ ran = [r \in Reqs |-> 0]

Ask(r) ==
  /\ outcome[r] = "new"
  /\ outcome' = [outcome EXCEPT ![r] = "asked"]
  /\ UNCHANGED <<answer, ran>>

Refuse(r) ==
  /\ outcome[r] = "new"
  /\ outcome' = [outcome EXCEPT ![r] = "refused"]
  /\ UNCHANGED <<answer, ran>>

\* The caller may have given up: the daemon does not hear of it.
Run(r) ==
  /\ r \notin Big /\ ran[r] = 0
  /\ outcome[r] \in {"asked", "failed"}
  /\ ran' = [ran EXCEPT ![r] = 1]
  /\ UNCHANGED <<outcome, answer>>

Answer(r) ==
  /\ outcome[r] = "asked" /\ ran[r] = 1
  /\ outcome' = [outcome EXCEPT ![r] = "ok"]
  /\ answer' = [answer EXCEPT ![r] = r]
  /\ UNCHANGED ran

\* A lost connection fails many at once.
Fail(who) ==
  /\ outcome' = [r \in Reqs |-> IF r \in who THEN "failed" ELSE outcome[r]]
  /\ UNCHANGED <<answer, ran>>

RequestNext ==
  \/ \E who \in SUBSET {r \in Reqs : outcome[r] = "asked"} : Fail(who)
  \/ \E r \in Reqs : Ask(r) \/ Refuse(r) \/ Run(r) \/ Answer(r)

RequestSpec == RequestInit /\ [][RequestNext]_request_vars
=============================================================================
