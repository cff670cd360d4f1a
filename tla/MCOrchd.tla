-------------------------------- MODULE MCOrchd --------------------------------
(***************************************************************************)
(* The three parts of orchd that leave its database: the gate of outside   *)
(* calls, the owner's files and the Keychain.  They share no state but the *)
(* archived projects and the rows, which each changes itself: a behaviour  *)
(* is of one, `part', the others keep one initial state.                   *)
(***************************************************************************)
EXTENDS McpGate, TLC

CONSTANTS Docs, Workflows, Skills, Contents, MaxEdits, MaxCrashes, Askers, MaxFaults

ASSUME ContentsAssumption == None \notin Contents \cup Projects
ASSUME FaultsAssumption == MaxFaults \in Nat
ASSUME OwnersAssumption == Accounts \cap Servers = {} /\ None \notin Accounts \cup Servers

VARIABLES
    shelved, created, entry, disk, verb, templates, owed, edits, crashes,
    acct, srv, frozen, keychain, login, asker, setter, delete, leaky, hollow, faults,
    part

Files == INSTANCE OwnerFiles WITH archived <- shelved, row <- entry

Creds == INSTANCE Credentials

files_vars == <<shelved, created, entry, disk, verb, templates, owed, edits, crashes>>

cred_vars == <<acct, srv, frozen, keychain, login, asker, setter, delete, leaky, hollow, faults>>

CapRows == {[rate |-> 1, spend |-> 1]}

Untouched ==
    /\ server = [s \in Servers |-> NoServer]
    /\ account = [a \in Accounts |-> "none"]
    /\ policy = [k \in Keys |-> None]

OrchdInit ==
    /\ part \in {"gate", "files", "secrets"}
    /\ GateInit /\ (part # "gate" => Untouched)
    /\ Files!FilesInit
    /\ Creds!CredInit /\ (part # "secrets" => frozen = {})

OrchdNext ==
    /\ IF part = "gate" THEN GateNext ELSE UNCHANGED gate_vars
    /\ IF part = "files" THEN Files!FilesNext ELSE UNCHANGED files_vars
    /\ IF part = "secrets" THEN Creds!CredNext ELSE UNCHANGED cred_vars
    /\ UNCHANGED part

OrchdSpec == OrchdInit /\ [][OrchdNext]_<<gate_vars, files_vars, cred_vars, part>>

\* One policy, or one server of a project.
FewRules ==
    Cardinality({k \in Keys : policy[k] # None})
      + Cardinality({s \in Servers : server[s].home # None}) <= 1

\* One entry with a file behind it, and one edit or crash.
FewEntries ==
    /\ Cardinality({e \in Files!Entries :
                      IF e[1] = "skill" THEN Files!Live(e)
                      ELSE entry[e].hash # None \/ Files!OnDisk(e) # {}}) <= 1
    /\ edits + crashes <= 1

\* An account's secrets, or a server's.
OneOwner ==
    \/ \A a \in Accounts : login[a] = "new"
    \/ \A s \in Servers : srv[s].st = "live" /\ ~srv[s].ref /\ setter[s] = "idle" /\ delete.of # s

Few == FewRules /\ FewEntries /\ OneOwner

Symmetric == Permutations(Calls) \cup Permutations(Targets) \cup Permutations(Contents)

OrchdTypeOK ==
    CASE part = "gate" -> GateTypeOK
      [] part = "files" -> Files!FilesTypeOK
      [] part = "secrets" -> Creds!CredTypeOK
NothingLost == Files!NothingLost
SecretsMatchRows == Creds!SecretsMatchRows
ArchivedFilesKept == Files!ArchivedFilesKept
=============================================================================
