------------------------------ MODULE OwnerFiles ------------------------------
(***************************************************************************)
(* The owner's files of orchd: rules, docs, workflow definitions and       *)
(* skills.  The file is the truth, the row holds its path and the hash of  *)
(* the content last saved or accepted (persistence.rs, ruleset_files.rs,   *)
(* skills/registry.rs).  A verb holds the database mutex from its guards   *)
(* to its commit, but a file write does not roll back: the outside world   *)
(* edits files, and orchd fails or dies, between any two of its steps.     *)
(*                                                                         *)
(* A content stands for its hash.  A file belongs to the entry it was made *)
(* for: an owner who points two rows at one file is left out.  A           *)
(* definition marked `Bug:' is a faulty variant of the next one.           *)
(***************************************************************************)
EXTENDS Naturals, FiniteSets

CONSTANTS
    Projects,
    Docs,         \* doc names
    Workflows,    \* workflow ids
    Skills,       \* the owner's SKILL.md files
    Contents,
    MaxEdits,     \* bound on the edits from outside
    MaxCrashes,   \* bound on the restarts of orchd
    None

VARIABLES
    archived,     \* projects that are archived (the others are active once created)
    created,
    row,          \* row[e]: the row of an entry, or NoRow
    disk,         \* disk[f]: the content of a file, None when there is none
    verb,         \* the verb that holds the database mutex, or Idle
    templates,    \* projects whose CreateProject has not written the rules file yet
    owed,         \* entries whose file orchd wrote and nobody was asked to remove
    edits, crashes

files_vars == <<archived, created, row, disk, verb, templates, owed, edits, crashes>>

Scopes == Projects \cup {None}                  \* None: the global scope
RulesOf(s) == <<"rules", s, None>>
DocOf(p, d) == <<"doc", p, d>>
WorkflowOf(w) == <<"workflow", None, w>>
SkillOf(k) == <<"skill", None, k>>

Entries ==
    {RulesOf(s) : s \in Scopes} \cup {DocOf(p, d) : p \in Projects, d \in Docs}
        \cup {WorkflowOf(w) : w \in Workflows} \cup {SkillOf(k) : k \in Skills}

\* Where an entry's file may lie: at its default place, at the one the owner
\* points the rules to, or in the directory of a scope.
Dirs == {"home", "away"} \cup Scopes
Files == Dirs \X Entries

NoRow == [live |-> FALSE, scope |-> None, dir |-> "home", hash |-> None]
EntryRow == [live : BOOLEAN, scope : Scopes, dir : Dirs, hash : Contents \cup {None}]

Live(e) == row[e].live
FileOf(e) == <<row[e].dir, e>>
OnDisk(e) == {d \in Dirs : disk[<<d, e>>] # None}

Active(s) == s = None \/ s \in created \ archived

\* read_state: the badge of an entry.
State(e) ==
    IF disk[FileOf(e)] = None THEN "missing"
    ELSE IF disk[FileOf(e)] = row[e].hash THEN "ok" ELSE "modified"

Idle == [pc |-> "idle"]
Verbs == [pc : {"write", "late", "clear", "commit"}, op : {"save", "delete", "accept"},
          e : Entries, next : EntryRow]

----------------------------------------------------------------------------
FilesInit ==
    /\ archived = {} /\ created = {}
    /\ row = [e \in Entries |-> NoRow]
    /\ \E content \in Contents :
         disk = [f \in Files |->
                   IF f[1] = "home" /\ f[2][1] = "skill" THEN content ELSE None]
    /\ verb = Idle
    /\ templates = {} /\ owed = {}
    /\ edits = 0 /\ crashes = 0

Begin(pc, op, e, next) ==
    /\ verb = Idle
    /\ verb' = [pc |-> pc, op |-> op, e |-> e, next |-> next]
    /\ UNCHANGED <<archived, created, row, disk, templates, edits, crashes>>

\* The row as the verb's commit will leave it.
Saved(scope, dir, content) == [live |-> TRUE, scope |-> scope, dir |-> dir, hash |-> content]

\* ensure_global_ruleset at boot: the template unless the file is there.
EnsureGlobal(template) ==
    LET e == RulesOf(None) IN
    /\ verb = Idle /\ ~Live(e)
    /\ LET now == IF disk[<<"home", e>>] = None THEN template ELSE disk[<<"home", e>>] IN
         /\ disk' = [disk EXCEPT ![<<"home", e>>] = now]
         /\ row' = [row EXCEPT ![e] = Saved(None, "home", now)]
    /\ owed' = owed \cup {e}
    /\ UNCHANGED <<archived, created, verb, templates, edits, crashes>>

\* create_project commits the rules row without a hash; the handler comes back
\* for the mutex to write the file.
CreateProject(p) ==
    /\ verb = Idle /\ p \notin created
    /\ created' = created \cup {p}
    /\ row' = [row EXCEPT ![RulesOf(p)] = Saved(p, "home", None)]
    /\ templates' = templates \cup {p}
    /\ UNCHANGED <<archived, disk, verb, owed, edits, crashes>>

\* Bug: nobody asks whether there is such a project.
SetArchivedUnknown(p) ==
    /\ verb = Idle
    /\ archived' = IF p \in archived THEN archived \ {p} ELSE archived \cup {p}
    /\ UNCHANGED <<created, row, disk, verb, templates, owed, edits, crashes>>

SetArchived(p) ==
    /\ verb = Idle /\ p \in created
    /\ archived' = IF p \in archived THEN archived \ {p} ELSE archived \cup {p}
    /\ UNCHANGED <<created, row, disk, verb, templates, owed, edits, crashes>>

\* write_initial_ruleset_file: upsert_ruleset with the template; refused, and
\* logged, when the project has been archived meanwhile.
WriteTemplate(p, template) ==
    /\ verb = Idle /\ p \in templates
    /\ templates' = templates \ {p}
    /\ verb' = IF Active(p)
               THEN [pc |-> "write", op |-> "save", e |-> RulesOf(p),
                     next |-> [row[RulesOf(p)] EXCEPT !.hash = template]]
               ELSE verb
    /\ UNCHANGED <<archived, created, row, disk, owed, edits, crashes>>

UpsertRuleset(s, content, dir) ==
    LET e == RulesOf(s) IN
    /\ Live(e) /\ Active(s)
    /\ IF content = None
       THEN Begin("commit", "save", e, [row[e] EXCEPT !.dir = dir])
       ELSE Begin("write", "save", e, Saved(s, dir, content))
    /\ UNCHANGED owed

\* A new doc lies beside the project's rules file, an old one where it was made.
UpsertDoc(p, d, content) ==
    LET e == DocOf(p, d) IN
    /\ Active(p)
    /\ Begin("write", "save", e,
             Saved(p, IF Live(e) THEN row[e].dir ELSE row[RulesOf(p)].dir, content))
    /\ UNCHANGED owed

\* Only the scope the workflow goes to is asked for its project.
UpsertWorkflow(w, s, content) ==
    /\ Active(s)
    /\ Begin("write", "save", WorkflowOf(w), Saved(s, s, content))
    /\ UNCHANGED owed

\* Bug: the archived project is not asked for.
DeleteUnasked(e) ==
    /\ Live(e)
    /\ Begin("clear", "delete", e, NoRow)
    /\ owed' = owed \ {e}

\* DeleteDoc, WorkflowDelete: the file first, then the row.
DeleteFiled(e) ==
    /\ Live(e) /\ Active(row[e].scope)
    /\ Begin("clear", "delete", e, NoRow)
    /\ owed' = owed \ {e}

\* AcknowledgeRuleFile, AcknowledgeDocFile: the hash of the file as it is now.
Acknowledge(e) ==
    /\ Live(e) /\ Active(row[e].scope)
    /\ disk[FileOf(e)] # None
    /\ Begin("commit", "accept", e, [row[e] EXCEPT !.hash = disk[FileOf(e)]])
    /\ UNCHANGED owed

\* SkillAdd reads the owner's file and never writes it; SkillDelete removes the
\* row alone.
AddSkill(k, s) ==
    LET e == SkillOf(k) IN
    /\ ~Live(e) /\ Active(s)
    /\ disk[<<"home", e>>] # None
    /\ Begin("commit", "save", e, Saved(s, "home", disk[<<"home", e>>]))
    /\ UNCHANGED owed

DeleteSkill(k) ==
    /\ Live(SkillOf(k)) /\ Active(row[SkillOf(k)].scope)
    /\ Begin("commit", "delete", SkillOf(k), NoRow)
    /\ UNCHANGED owed

\* import_project_bundles commits every row, the hash as exported, and writes
\* the files after: the global rules over the seeded ones, a project's for a
\* project the store does not know.
Import(s, content, hash) ==
    LET e == RulesOf(s) IN
    /\ verb = Idle /\ s \notin created
    /\ created' = created \cup ({s} \ {None})
    /\ row' = [row EXCEPT ![e] = Saved(s, "home", hash)]
    /\ verb' = IF content = None THEN Idle
               ELSE [pc |-> "late", op |-> "save", e |-> e,
                     next |-> Saved(s, "home", content)]
    /\ UNCHANGED <<archived, disk, templates, owed, edits, crashes>>

----------------------------------------------------------------------------
(* The steps of the verb that holds the mutex *)

Written == <<verb.next.dir, verb.e>>
Moved == verb.e[1] = "workflow" /\ Live(verb.e) /\ FileOf(verb.e) # Written

AfterWrite ==
    IF verb.pc = "late" THEN Idle
    ELSE [verb EXCEPT !.pc = IF Moved THEN "clear" ELSE "commit"]

\* Bug: the file is truncated in place.
TruncatingWrite ==
    /\ verb # Idle /\ verb.pc \in {"write", "late"}
    /\ \/ disk' = [disk EXCEPT ![Written] = verb.next.hash] /\ verb' = AfterWrite
       \/ disk' = [disk EXCEPT ![Written] = None] /\ UNCHANGED verb
    /\ owed' = owed \cup {verb.e}
    /\ UNCHANGED <<archived, created, row, templates, edits, crashes>>

\* write_atomic: the rename puts the whole content in place, or nothing.
WriteFile ==
    /\ verb # Idle /\ verb.pc \in {"write", "late"}
    /\ disk' = [disk EXCEPT ![Written] = verb.next.hash]
    /\ verb' = AfterWrite
    /\ owed' = owed \cup {verb.e}
    /\ UNCHANGED <<archived, created, row, templates, edits, crashes>>

\* remove_if_exists on the file the row still names.
ClearFile ==
    /\ verb # Idle /\ verb.pc = "clear"
    /\ disk' = [disk EXCEPT ![FileOf(verb.e)] = None]
    /\ verb' = [verb EXCEPT !.pc = "commit"]
    /\ UNCHANGED <<archived, created, row, templates, owed, edits, crashes>>

Commit ==
    /\ verb # Idle /\ verb.pc = "commit"
    /\ row' = [row EXCEPT ![verb.e] = verb.next]
    /\ verb' = Idle
    /\ UNCHANGED <<archived, created, disk, templates, owed, edits, crashes>>

\* A file or SQL error: the transaction rolls back, the files stay as they are.
Fail ==
    /\ verb # Idle
    /\ verb' = Idle
    /\ UNCHANGED <<archived, created, row, disk, templates, owed, edits, crashes>>

\* orchd dies and boots: the template of a project it was creating is forgotten.
Crash ==
    /\ crashes < MaxCrashes
    /\ crashes' = crashes + 1
    /\ verb' = Idle /\ templates' = {}
    /\ UNCHANGED <<archived, created, row, disk, owed, edits>>

\* The owner, an agent or an editor writes or removes a file orchd knows.
EditOutside(e, content) ==
    /\ edits < MaxEdits
    /\ Live(e) /\ disk[FileOf(e)] # content
    /\ disk' = [disk EXCEPT ![FileOf(e)] = content]
    /\ edits' = edits + 1
    /\ owed' = IF content = None THEN owed \ {e} ELSE owed
    /\ UNCHANGED <<archived, created, row, verb, templates, crashes>>

----------------------------------------------------------------------------
Upserts(content) ==
    \/ \E s \in Scopes : UpsertRuleset(s, content, "home") \/ UpsertRuleset(s, content, "away")
    \/ \E p \in Projects, d \in Docs : UpsertDoc(p, d, content)
    \/ \E w \in Workflows, s \in Scopes : UpsertWorkflow(w, s, content)

FileVerb ==
    \/ \E content \in Contents : EnsureGlobal(content) \/ Upserts(content)
    \/ \E s \in Scopes, dir \in {"home", "away"} : UpsertRuleset(s, None, dir)
    \/ \E p \in Projects :
          \/ CreateProject(p) \/ SetArchived(p)
          \/ \E template \in Contents : WriteTemplate(p, template)
    \/ \E e \in Entries : e[1] \in {"doc", "workflow"} /\ DeleteFiled(e)
    \/ \E e \in Entries : e[1] \in {"rules", "doc"} /\ Acknowledge(e)
    \/ \E k \in Skills : DeleteSkill(k) \/ \E s \in Scopes : AddSkill(k, s)
    \/ \E s \in Scopes, content, hash \in Contents \cup {None} : Import(s, content, hash)

FilesNext ==
    \/ FileVerb
    \/ WriteFile \/ ClearFile \/ Commit \/ Fail \/ Crash
    \/ \E e \in Entries, content \in Contents \cup {None} : EditOutside(e, content)

FilesSpec == FilesInit /\ [][FilesNext]_files_vars

----------------------------------------------------------------------------
FilesTypeOK ==
    /\ archived \subseteq created /\ created \subseteq Projects
    /\ row \in [Entries -> EntryRow]
    /\ disk \in [Files -> Contents \cup {None}]
    /\ verb \in {Idle} \cup Verbs
    /\ templates \subseteq created
    /\ owed \in SUBSET Entries

\* Wherever a verb fails and whenever orchd dies, what it once wrote for an
\* entry is still in some file of the entry, the old content or the new, until
\* somebody asks for its removal.
NothingLost == \A e \in owed : OnDisk(e) # {}

\* While a project is archived orchd changes none of its rows and none of their
\* files; a workflow is let go to another scope all the same.
ArchivedFilesKept ==
    [][\A e \in Entries :
          Live(e) /\ row[e].scope \in archived \cap archived' /\ edits' = edits =>
             \/ row'[e] = row[e] /\ disk'[FileOf(e)] = disk[FileOf(e)]
             \/ verb # Idle /\ verb.e = e /\ e[1] = "workflow"]_files_vars
=============================================================================
