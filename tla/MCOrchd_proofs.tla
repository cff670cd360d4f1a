---------------------------- MODULE MCOrchd_proofs ----------------------------
(***************************************************************************)
(* The three parts of orchd keep their promises for any calls, entries,    *)
(* contents, owners and bounds: each has an inductive invariant of its     *)
(* own, GateInv, FilesInv and CredInv, and a step of one leaves the others *)
(* alone.                                                                  *)
(***************************************************************************)
EXTENDS MCOrchd, SequenceTheorems, FiniteSetTheorems, TLAPS

----------------------------------------------------------------------------
(* The owner's files *)

\* A row of rules or of a doc is of the scope the entry is named for.
OfScope(e, r) == r.live /\ e[1] \in {"rules", "doc"} => r.scope = e[2]

\* The verb that holds the mutex: what it writes is there to be written, what it clears was asked
\* for or is written elsewhere, and its entry was asked for its project.
VerbInv ==
    verb # Files!Idle =>
      /\ OfScope(verb.e, verb.next)
      /\ verb.pc \in {"write", "late"} => verb.next.hash # None
      /\ verb.pc = "clear" =>
           \/ verb.op = "delete" /\ verb.e \notin owed
           \/ Files!Written # Files!FileOf(verb.e) /\ disk[Files!Written] # None
      /\ verb.e[1] # "workflow" /\ Files!Live(verb.e) => entry[verb.e].scope \notin shelved

FilesInv ==
    /\ Files!FilesTypeOK /\ VerbInv /\ Files!NothingLost /\ edits \in Nat
    /\ \A e \in Files!Entries : OfScope(e, entry[e])

\* Which entry a name is of.
LEMMA EntryIs ==
    /\ \A s \in Files!Scopes : Files!RulesOf(s) \in Files!Entries
                              /\ Files!RulesOf(s)[1] = "rules" /\ Files!RulesOf(s)[2] = s
    /\ \A p \in Projects, d \in Docs : Files!DocOf(p, d) \in Files!Entries
                              /\ Files!DocOf(p, d)[1] = "doc" /\ Files!DocOf(p, d)[2] = p
    /\ \A w \in Workflows : Files!WorkflowOf(w) \in Files!Entries
                              /\ Files!WorkflowOf(w)[1] = "workflow"
    /\ \A k \in Skills : Files!SkillOf(k) \in Files!Entries /\ Files!SkillOf(k)[1] = "skill"
  BY DEF Files!Entries, Files!RulesOf, Files!DocOf, Files!WorkflowOf, Files!SkillOf

\* A file is named by where it lies and by its entry.
LEMMA FileIs ==
    ASSUME NEW d \in Files!Dirs, NEW e \in Files!Entries
    PROVE  <<d, e>> \in Files!Files /\ <<d, e>>[1] = d /\ <<d, e>>[2] = e
  BY DEF Files!Files

\* The file of a row.
LEMMA FileOfIs ==
    ASSUME Files!FilesTypeOK, NEW e \in Files!Entries
    PROVE  /\ entry[e] \in Files!EntryRow /\ Files!FileOf(e) = <<entry[e].dir, e>>
           /\ entry[e].dir \in Files!Dirs /\ Files!FileOf(e) \in Files!Files
<1>1. entry[e] \in Files!EntryRow
  BY DEF Files!FilesTypeOK
<1>2. entry[e].dir \in Files!Dirs /\ Files!FileOf(e) = <<entry[e].dir, e>>
  BY <1>1 DEF Files!EntryRow, Files!FileOf
<1>. QED
  BY <1>1, <1>2, FileIs

\* What an entry is before anything has been written for it.
LEMMA NoRowIs == Files!NoRow \in Files!EntryRow /\ Files!NoRow.live = FALSE
  BY DEF Files!EntryRow, Files!NoRow, Files!Scopes, Files!Dirs

\* A row of another directory, or of another content, is still the row of its entry.
LEMMA AmendedIs ==
    ASSUME NEW r \in Files!EntryRow, NEW d \in Files!Dirs, NEW h \in Contents \cup {None}
    PROVE  /\ [r EXCEPT !.dir = d] \in Files!EntryRow /\ [r EXCEPT !.hash = h] \in Files!EntryRow
           /\ [r EXCEPT !.dir = d].live = r.live /\ [r EXCEPT !.dir = d].scope = r.scope
           /\ [r EXCEPT !.hash = h].live = r.live /\ [r EXCEPT !.hash = h].scope = r.scope
           /\ [r EXCEPT !.hash = h].hash = h
  BY DEF Files!EntryRow

\* The verb that holds the mutex.
LEMMA VerbIs ==
    ASSUME Files!FilesTypeOK, verb # Files!Idle
    PROVE  /\ verb \in Files!Verbs /\ verb.e \in Files!Entries /\ verb.next \in Files!EntryRow
           /\ verb.pc \in {"write", "late", "clear", "commit"}
           /\ verb.op \in {"save", "delete", "accept"}
           /\ Files!Written = <<verb.next.dir, verb.e>> /\ verb.next.dir \in Files!Dirs
           /\ Files!Written \in Files!Files
<1>1. /\ verb \in Files!Verbs /\ verb.e \in Files!Entries /\ verb.next \in Files!EntryRow
      /\ verb.pc \in {"write", "late", "clear", "commit"}
      /\ verb.op \in {"save", "delete", "accept"}
  BY DEF Files!FilesTypeOK, Files!Verbs
<1>2. verb.next.dir \in Files!Dirs /\ Files!Written = <<verb.next.dir, verb.e>>
  BY <1>1 DEF Files!EntryRow, Files!Written
<1>. QED
  BY <1>1, <1>2, FileIs

\* A verb takes the mutex: its guards are what the invariant says of it.
LEMMA BeginStep ==
    ASSUME FilesInv, NEW e \in Files!Entries, NEW pc \in {"write", "clear", "commit"},
           NEW op \in {"save", "delete", "accept"}, NEW next \in Files!EntryRow,
           Files!Begin(pc, op, e, next), owed' \subseteq owed, OfScope(e, next),
           pc = "write" => next.hash # None, pc = "clear" => op = "delete" /\ e \notin owed',
           e[1] # "workflow" /\ Files!Live(e) => entry[e].scope \notin shelved
    PROVE  FilesInv'
<1>1. /\ verb = Files!Idle /\ verb' = [pc |-> pc, op |-> op, e |-> e, next |-> next]
      /\ UNCHANGED <<shelved, created, entry, disk, templates, edits>>
  BY DEF Files!Begin
<1>2. /\ verb' \in Files!Verbs /\ verb'.pc = pc /\ verb'.op = op /\ verb'.e = e /\ verb'.next = next
  BY <1>1 DEF Files!Verbs
<1>3. Files!FilesTypeOK'
  BY <1>1, <1>2 DEF FilesInv, Files!FilesTypeOK
<1>4. VerbInv'
  BY <1>1, <1>2 DEF VerbInv, OfScope, Files!Live
<1>5. Files!NothingLost'
  BY <1>1 DEF FilesInv, Files!NothingLost, Files!OnDisk
<1>6. \A x \in Files!Entries : OfScope(x, entry'[x])
  BY <1>1 DEF FilesInv
<1>. QED
  BY <1>1, <1>3, <1>4, <1>5, <1>6 DEF FilesInv

\* A scope that was asked for is not archived.
LEMMA ActiveIs == ASSUME Files!FilesTypeOK, NEW s, Files!Active(s) PROVE s \notin shelved
  BY ContentsAssumption DEF Files!FilesTypeOK, Files!Active

\* The verbs that go to a file or to the row once they hold the mutex.
LEMMA RulesetStep ==
    ASSUME FilesInv, NEW s \in Files!Scopes, NEW content \in Contents \cup {None},
           NEW dir \in {"home", "away"}, Files!UpsertRuleset(s, content, dir)
    PROVE  FilesInv'
<1>1. PICK e \in Files!Entries : e = Files!RulesOf(s) /\ e[1] = "rules" /\ e[2] = s
  BY EntryIs
<1>2. /\ Files!FilesTypeOK /\ dir \in Files!Dirs
      /\ Files!Live(e) /\ entry[e].scope = s /\ s \notin shelved /\ owed' = owed
      /\ entry[e] \in Files!EntryRow /\ entry[e].live
  <2>1. Files!Live(e) /\ Files!Active(s) /\ owed' = owed
    BY <1>1 DEF Files!UpsertRuleset
  <2>. QED
    BY <1>1, <2>1, ActiveIs DEF FilesInv, OfScope, Files!Live, Files!FilesTypeOK, Files!Dirs
<1>3. CASE content = None
  <2>1. Files!Begin("commit", "save", e, [entry[e] EXCEPT !.dir = dir])
    BY <1>1, <1>3 DEF Files!UpsertRuleset
  <2>2. [entry[e] EXCEPT !.dir = dir] \in Files!EntryRow /\ OfScope(e, [entry[e] EXCEPT !.dir = dir])
    BY <1>1, <1>2, AmendedIs DEF OfScope
  <2>. QED
    BY <1>2, <2>1, <2>2, BeginStep
<1>4. CASE content # None
  <2>1. Files!Begin("write", "save", e, Files!Saved(s, dir, content))
    BY <1>1, <1>4 DEF Files!UpsertRuleset
  <2>2. /\ Files!Saved(s, dir, content) \in Files!EntryRow
        /\ Files!Saved(s, dir, content).scope = s /\ Files!Saved(s, dir, content).hash = content
    BY <1>2 DEF Files!Saved, Files!EntryRow
  <2>3. OfScope(e, Files!Saved(s, dir, content))
    BY <1>1, <2>2 DEF OfScope
  <2>. QED
    BY <1>2, <1>4, <2>1, <2>2, <2>3, BeginStep
<1>. QED
  BY <1>3, <1>4

\* A doc is asked for its project, and written before its old file is cleared.
LEMMA DocStep ==
    ASSUME FilesInv, NEW p \in Projects, NEW d \in Docs, NEW content \in Contents,
           Files!UpsertDoc(p, d, content)
    PROVE  FilesInv'
<1>1. PICK e \in Files!Entries : e = Files!DocOf(p, d) /\ e[1] = "doc" /\ e[2] = p
  BY EntryIs
<1>2. PICK dir : dir = IF Files!Live(e) THEN entry[e].dir ELSE entry[Files!RulesOf(p)].dir
  OBVIOUS
<1>3. p \in Files!Scopes /\ content # None /\ content \in Contents \cup {None} /\ Files!FilesTypeOK
  BY ContentsAssumption DEF Files!Scopes, FilesInv
<1>4. dir \in Files!Dirs
  BY <1>2, <1>3, EntryIs, FileOfIs
<1>5. Files!Begin("write", "save", e, Files!Saved(p, dir, content)) /\ Files!Active(p) /\ owed' = owed
  BY <1>1, <1>2 DEF Files!UpsertDoc
<1>6. p \notin shelved
  BY <1>3, <1>5, ActiveIs
<1>7. Files!Live(e) => entry[e].scope \notin shelved
  BY <1>1, <1>6 DEF FilesInv, OfScope, Files!Live
<1>8. /\ Files!Saved(p, dir, content) \in Files!EntryRow /\ Files!Saved(p, dir, content).hash # None
      /\ OfScope(e, Files!Saved(p, dir, content))
  BY <1>1, <1>3, <1>4 DEF OfScope, Files!Saved, Files!EntryRow
<1>. QED
  BY <1>5, <1>7, <1>8, BeginStep

\* A workflow may change its scope, and its file the directory with it.
LEMMA WorkflowStep ==
    ASSUME FilesInv, NEW w \in Workflows, NEW s \in Files!Scopes, NEW content \in Contents,
           Files!UpsertWorkflow(w, s, content)
    PROVE  FilesInv'
<1>1. PICK e \in Files!Entries : e = Files!WorkflowOf(w) /\ e[1] = "workflow"
  BY EntryIs
<1>2. content # None /\ content \in Contents \cup {None} /\ s \in Files!Dirs
  BY ContentsAssumption DEF Files!Scopes, Files!Dirs
<1>3. Files!Begin("write", "save", e, Files!Saved(s, s, content)) /\ owed' = owed
  BY <1>1 DEF Files!UpsertWorkflow
<1>4. /\ Files!Saved(s, s, content) \in Files!EntryRow /\ Files!Saved(s, s, content).hash # None
      /\ OfScope(e, Files!Saved(s, s, content))
  BY <1>1, <1>2 DEF OfScope, Files!Saved, Files!EntryRow
<1>. QED
  BY <1>1, <1>3, <1>4, BeginStep

\* A delete is owed no file from the moment it is asked for.
LEMMA DeleteStep ==
    ASSUME FilesInv, NEW e \in Files!Entries, Files!DeleteFiled(e)
    PROVE  FilesInv'
<1>1. /\ Files!Begin("clear", "delete", e, Files!NoRow) /\ owed' = owed \ {e}
      /\ Files!Active(entry[e].scope)
  BY DEF Files!DeleteFiled
<1>2. entry[e].scope \notin shelved
  BY <1>1, ActiveIs DEF FilesInv
<1>3. OfScope(e, Files!NoRow) /\ Files!NoRow \in Files!EntryRow
  BY NoRowIs DEF OfScope
<1>. QED
  BY <1>1, <1>2, <1>3, BeginStep

\* The content edited outside becomes the row's.
LEMMA AcknowledgeStep ==
    ASSUME FilesInv, NEW e \in Files!Entries, Files!Acknowledge(e)
    PROVE  FilesInv'
<1>1. /\ Files!Begin("commit", "accept", e, [entry[e] EXCEPT !.hash = disk[Files!FileOf(e)]])
      /\ owed' = owed /\ Files!Active(entry[e].scope)
  BY DEF Files!Acknowledge
<1>2. entry[e].scope \notin shelved
  BY <1>1, ActiveIs DEF FilesInv
<1>3. entry[e] \in Files!EntryRow /\ disk[Files!FileOf(e)] \in Contents \cup {None}
  BY FileOfIs DEF FilesInv, Files!FilesTypeOK
<1>4. PICK r : r = [entry[e] EXCEPT !.hash = disk[Files!FileOf(e)]]
  OBVIOUS
<1>5. r \in Files!EntryRow /\ OfScope(e, r)
  <2>1. r \in Files!EntryRow /\ r.live = entry[e].live /\ r.scope = entry[e].scope
    BY <1>3, <1>4 DEF Files!EntryRow
  <2>. QED
    BY <2>1 DEF OfScope, FilesInv
<1>. QED
  BY <1>1, <1>2, <1>4, <1>5, BeginStep

\* A skill's file is the owner's: only its row comes and goes.
LEMMA SkillStep ==
    ASSUME FilesInv, NEW k \in Skills,
           Files!DeleteSkill(k) \/ \E s \in Files!Scopes : Files!AddSkill(k, s)
    PROVE  FilesInv'
<1>1. PICK e \in Files!Entries : e = Files!SkillOf(k) /\ e[1] = "skill"
  BY EntryIs
<1>2. CASE Files!DeleteSkill(k)
  <2>1. /\ Files!Begin("commit", "delete", e, Files!NoRow) /\ owed' = owed
        /\ Files!Active(entry[e].scope)
    BY <1>1, <1>2 DEF Files!DeleteSkill
  <2>2. entry[e].scope \notin shelved
    BY <2>1, ActiveIs DEF FilesInv
  <2>3. OfScope(e, Files!NoRow) /\ Files!NoRow \in Files!EntryRow
    BY NoRowIs DEF OfScope
  <2>. QED
    BY <2>1, <2>2, <2>3, BeginStep
<1>3. ASSUME NEW s \in Files!Scopes, Files!AddSkill(k, s) PROVE FilesInv'
  <2>1. PICK h : h = disk[<<"home", e>>]
    OBVIOUS
  <2>2. /\ Files!Begin("commit", "save", e, Files!Saved(s, "home", h)) /\ owed' = owed
        /\ ~ Files!Live(e)
    BY <1>1, <1>3, <2>1 DEF Files!AddSkill
  <2>3. "home" \in Files!Dirs
    BY DEF Files!Dirs
  <2>4. h \in Contents \cup {None}
    BY <2>1, <2>3, FileIs DEF FilesInv, Files!FilesTypeOK
  <2>5. Files!Saved(s, "home", h) \in Files!EntryRow /\ OfScope(e, Files!Saved(s, "home", h))
    BY <1>1, <2>3, <2>4 DEF OfScope, Files!Saved, Files!EntryRow
  <2>. QED
    BY <2>2, <2>5, BeginStep
<1>. QED
  BY <1>2, <1>3

\* The steps that are one transaction each: nobody holds the mutex, before or after.
LEMMA EnsureStep ==
    ASSUME FilesInv, NEW template \in Contents, Files!EnsureGlobal(template)
    PROVE  FilesInv'
<1>1. PICK e \in Files!Entries : e = Files!RulesOf(None) /\ e[1] = "rules" /\ e[2] = None
  BY EntryIs DEF Files!Scopes
<1>2. PICK now : now = IF disk[<<"home", e>>] = None THEN template ELSE disk[<<"home", e>>]
  OBVIOUS
<1>3. /\ verb = Files!Idle /\ UNCHANGED <<shelved, created, verb, templates, edits>>
      /\ disk' = [disk EXCEPT ![<<"home", e>>] = now]
      /\ entry' = [entry EXCEPT ![e] = Files!Saved(None, "home", now)]
      /\ owed' = owed \cup {e}
  BY <1>1, <1>2 DEF Files!EnsureGlobal
<1>4. /\ "home" \in Files!Dirs /\ None \in Files!Scopes /\ <<"home", e>> \in Files!Files
      /\ Files!FilesTypeOK
  BY FileIs DEF Files!Dirs, Files!Scopes, FilesInv
<1>5. now \in Contents \cup {None} /\ now # None
  BY <1>2, <1>4, ContentsAssumption DEF Files!FilesTypeOK
<1>6. /\ Files!Saved(None, "home", now) \in Files!EntryRow
      /\ OfScope(e, Files!Saved(None, "home", now))
  <2>1. /\ Files!Saved(None, "home", now) \in Files!EntryRow
        /\ Files!Saved(None, "home", now).scope = None
    BY <1>4, <1>5 DEF Files!Saved, Files!EntryRow
  <2>. QED
    BY <1>1, <2>1 DEF OfScope
<1>7. Files!FilesTypeOK'
  BY <1>3, <1>4, <1>5, <1>6 DEF Files!FilesTypeOK
<1>8. Files!NothingLost'
  <2>1. disk'[<<"home", e>>] = now
    BY <1>3, <1>4 DEF Files!FilesTypeOK
  <2>2. ASSUME NEW x \in owed, x # e, NEW d \in Files!Dirs, disk[<<d, x>>] # None
        PROVE  disk'[<<d, x>>] # None
    BY <1>3, <2>2 DEF Files!FilesTypeOK
  <2>. QED
    BY <1>3, <1>4, <1>5, <2>1, <2>2 DEF FilesInv, Files!NothingLost, Files!OnDisk
<1>9. \A x \in Files!Entries : OfScope(x, entry'[x])
  BY <1>3, <1>4, <1>6 DEF FilesInv, Files!FilesTypeOK
<1>. QED
  BY <1>3, <1>7, <1>8, <1>9 DEF FilesInv, VerbInv

\* A project comes with its row of rules, is archived or is taken up again.
LEMMA ProjectStep ==
    ASSUME FilesInv, NEW p \in Projects, Files!CreateProject(p) \/ Files!SetArchived(p)
    PROVE  FilesInv'
<1>1. /\ verb = Files!Idle /\ UNCHANGED <<verb, disk, owed, edits>>
      /\ Files!FilesTypeOK /\ p \in Files!Scopes
  BY DEF Files!CreateProject, Files!SetArchived, FilesInv, Files!Scopes
<1>2. Files!NothingLost'
  BY <1>1 DEF FilesInv, Files!NothingLost, Files!OnDisk
<1>3. CASE Files!CreateProject(p)
  <2>1. PICK e \in Files!Entries : e = Files!RulesOf(p) /\ e[1] = "rules" /\ e[2] = p
    BY <1>1, EntryIs
  <2>2. /\ entry' = [entry EXCEPT ![e] = Files!Saved(p, "home", None)]
        /\ created' = created \cup {p} /\ templates' = templates \cup {p} /\ shelved' = shelved
    BY <1>3, <2>1 DEF Files!CreateProject
  <2>3. "home" \in Files!Dirs
    BY DEF Files!Dirs
  <2>4. Files!Saved(p, "home", None) \in Files!EntryRow /\ OfScope(e, Files!Saved(p, "home", None))
    BY <1>1, <2>1, <2>3 DEF OfScope, Files!Saved, Files!EntryRow
  <2>5. Files!FilesTypeOK'
    BY <1>1, <2>2, <2>4 DEF Files!FilesTypeOK
  <2>6. \A x \in Files!Entries : OfScope(x, entry'[x])
    BY <1>1, <2>2, <2>4 DEF FilesInv, Files!FilesTypeOK
  <2>. QED
    BY <1>1, <1>2, <2>5, <2>6 DEF FilesInv, VerbInv
<1>4. CASE Files!SetArchived(p)
  <2>1. /\ entry' = entry /\ created' = created /\ templates' = templates
        /\ shelved' \subseteq shelved \cup {p} /\ p \in created
    BY <1>4 DEF Files!SetArchived
  <2>2. Files!FilesTypeOK'
    BY <1>1, <2>1 DEF Files!FilesTypeOK
  <2>. QED
    BY <1>1, <1>2, <2>1, <2>2 DEF FilesInv, VerbInv
<1>. QED
  BY <1>3, <1>4

\* The rules a template gives a new project are to be written, unless it has been archived.
LEMMA TemplateStep ==
    ASSUME FilesInv, NEW p \in Projects, NEW template \in Contents, Files!WriteTemplate(p, template)
    PROVE  FilesInv'
<1>1. PICK e \in Files!Entries : e = Files!RulesOf(p) /\ e[1] = "rules" /\ e[2] = p
  BY EntryIs DEF Files!Scopes
<1>2. PICK r : r = [entry[e] EXCEPT !.hash = template]
  OBVIOUS
<1>3. /\ verb = Files!Idle /\ templates' = templates \ {p}
      /\ UNCHANGED <<shelved, created, entry, disk, owed, edits>>
      /\ verb' = IF Files!Active(p) THEN [pc |-> "write", op |-> "save", e |-> e, next |-> r] ELSE verb
  BY <1>1, <1>2 DEF Files!WriteTemplate
<1>4. r \in Files!EntryRow /\ OfScope(e, r) /\ r.hash # None
  <2>1. entry[e] \in Files!EntryRow /\ template # None
    BY ContentsAssumption DEF FilesInv, Files!FilesTypeOK
  <2>2. r \in Files!EntryRow /\ r.live = entry[e].live /\ r.scope = entry[e].scope /\ r.hash = template
    BY <1>2, <2>1 DEF Files!EntryRow
  <2>. QED
    BY <2>1, <2>2 DEF OfScope, FilesInv
<1>5. CASE Files!Active(p)
  <2>1. verb' = [pc |-> "write", op |-> "save", e |-> e, next |-> r]
    BY <1>3, <1>5
  <2>2. /\ verb' \in Files!Verbs /\ verb'.pc = "write" /\ verb'.op = "save" /\ verb'.e = e /\ verb'.next = r
    BY <1>4, <2>1 DEF Files!Verbs
  <2>3. p \notin shelved
    BY <1>5, ActiveIs DEF FilesInv
  <2>4. Files!FilesTypeOK'
    BY <1>3, <2>2 DEF FilesInv, Files!FilesTypeOK
  <2>5. Files!Live(e) => entry[e].scope \notin shelved
    BY <1>1, <2>3 DEF FilesInv, OfScope, Files!Live
  <2>6. VerbInv'
    BY <1>3, <1>4, <2>2, <2>5 DEF VerbInv, OfScope, Files!Live
  <2>7. Files!NothingLost'
    BY <1>3 DEF FilesInv, Files!NothingLost, Files!OnDisk
  <2>. QED
    BY <1>3, <2>4, <2>6, <2>7 DEF FilesInv
<1>6. CASE ~ Files!Active(p)
  <2>1. Files!FilesTypeOK'
    BY <1>3, <1>6 DEF FilesInv, Files!FilesTypeOK
  <2>2. Files!NothingLost'
    BY <1>3 DEF FilesInv, Files!NothingLost, Files!OnDisk
  <2>. QED
    BY <1>3, <1>6, <2>1, <2>2 DEF FilesInv, VerbInv
<1>. QED
  BY <1>5, <1>6

\* An import writes rows, and no file.
LEMMA ImportStep ==
    ASSUME FilesInv, NEW s \in Files!Scopes, NEW content \in Contents \cup {None},
           NEW hash \in Contents \cup {None}, Files!Import(s, content, hash)
    PROVE  FilesInv'
<1>1. PICK e \in Files!Entries : e = Files!RulesOf(s) /\ e[1] = "rules" /\ e[2] = s
  BY EntryIs
<1>2. /\ verb = Files!Idle /\ s \notin created /\ created' = created \cup ({s} \ {None})
      /\ UNCHANGED <<shelved, disk, templates, owed, edits>>
      /\ entry' = [entry EXCEPT ![e] = Files!Saved(s, "home", hash)]
      /\ verb' = IF content = None THEN Files!Idle
                 ELSE [pc |-> "late", op |-> "save", e |-> e, next |-> Files!Saved(s, "home", content)]
  BY <1>1 DEF Files!Import
<1>3. "home" \in Files!Dirs /\ Files!FilesTypeOK
  BY DEF Files!Dirs, FilesInv
<1>4. /\ Files!Saved(s, "home", hash) \in Files!EntryRow /\ Files!Saved(s, "home", content) \in Files!EntryRow
      /\ Files!Saved(s, "home", hash).scope = s /\ Files!Saved(s, "home", content).scope = s
      /\ Files!Saved(s, "home", content).hash = content
  <2>1. Files!Saved(s, "home", hash) \in Files!EntryRow /\ Files!Saved(s, "home", hash).scope = s
    BY <1>3 DEF Files!Saved, Files!EntryRow
  <2>2. /\ Files!Saved(s, "home", content) \in Files!EntryRow
        /\ Files!Saved(s, "home", content).scope = s /\ Files!Saved(s, "home", content).hash = content
    BY <1>3 DEF Files!Saved, Files!EntryRow
  <2>. QED
    BY <2>1, <2>2
<1>5. /\ s \notin shelved /\ created' \subseteq Projects
  BY <1>2, <1>3 DEF Files!FilesTypeOK, Files!Scopes
<1>6. /\ entry' \in [Files!Entries -> Files!EntryRow] /\ entry'[e] = Files!Saved(s, "home", hash)
      /\ \A x \in Files!Entries : OfScope(x, entry'[x])
  BY <1>1, <1>2, <1>3, <1>4 DEF FilesInv, Files!FilesTypeOK, OfScope
<1>7. Files!NothingLost'
  BY <1>2 DEF FilesInv, Files!NothingLost, Files!OnDisk
<1>8. verb' \in {Files!Idle} \cup Files!Verbs /\ VerbInv'
  <2>1. CASE content = None
    BY <1>2, <2>1 DEF VerbInv
  <2>2. CASE content # None
    <3>1. verb' = [pc |-> "late", op |-> "save", e |-> e, next |-> Files!Saved(s, "home", content)]
      BY <1>2, <2>2
    <3>2. /\ verb' \in Files!Verbs /\ verb'.pc = "late" /\ verb'.e = e
          /\ verb'.next = Files!Saved(s, "home", content)
      BY <1>4, <3>1 DEF Files!Verbs
    <3>. QED
      BY <1>1, <1>2, <1>4, <1>5, <1>6, <2>2, <3>2 DEF VerbInv, OfScope
  <2>. QED
    BY <2>1, <2>2
<1>9. Files!FilesTypeOK'
  BY <1>2, <1>3, <1>5, <1>6, <1>8 DEF Files!FilesTypeOK
<1>. QED
  BY <1>2, <1>6, <1>7, <1>8, <1>9 DEF FilesInv

\* The content takes the place of the old one, in one step; a workflow that went to another scope
\* then leaves its old file.
LEMMA WriteStep == ASSUME FilesInv, Files!WriteFile PROVE FilesInv'
<1>1. /\ verb # Files!Idle /\ verb.pc \in {"write", "late"}
      /\ disk' = [disk EXCEPT ![Files!Written] = verb.next.hash]
      /\ verb' = Files!AfterWrite /\ owed' = owed \cup {verb.e}
      /\ UNCHANGED <<shelved, created, entry, templates, edits>>
  BY DEF Files!WriteFile
<1>2. /\ verb \in Files!Verbs /\ verb.e \in Files!Entries /\ verb.next \in Files!EntryRow
      /\ Files!Written = <<verb.next.dir, verb.e>> /\ verb.next.dir \in Files!Dirs
      /\ Files!Written \in Files!Files /\ Files!FilesTypeOK
      /\ verb.next.hash \in Contents \cup {None}
  BY <1>1, VerbIs DEF FilesInv, Files!EntryRow
<1>3. verb.next.hash # None
  BY <1>1 DEF FilesInv, VerbInv
<1>4. PICK pc \in {"clear", "commit"} : pc = IF Files!Moved THEN "clear" ELSE "commit"
  OBVIOUS
<1>6. \/ verb' = Files!Idle
      \/ /\ verb' = [verb EXCEPT !.pc = pc] /\ verb' \in Files!Verbs
         /\ verb'.pc = pc /\ verb'.op = verb.op /\ verb'.e = verb.e /\ verb'.next = verb.next
  <2>1. CASE verb.pc = "late"
    BY <1>1, <2>1 DEF Files!AfterWrite
  <2>2. CASE verb.pc # "late"
    <3>1. verb' = [verb EXCEPT !.pc = pc]
      BY <1>1, <1>4, <2>2 DEF Files!AfterWrite
    <3>. QED
      BY <1>2, <3>1 DEF Files!Verbs
  <2>. QED
    BY <2>1, <2>2
<1>7. Files!FilesTypeOK'
  BY <1>1, <1>2, <1>6 DEF Files!FilesTypeOK
<1>8. /\ disk'[<<verb.next.dir, verb.e>>] # None
      /\ \A x \in owed, d \in Files!Dirs : x # verb.e => disk'[<<d, x>>] = disk[<<d, x>>]
  BY <1>1, <1>2, <1>3 DEF Files!FilesTypeOK
<1>9. Files!NothingLost'
  BY <1>1, <1>2, <1>8 DEF FilesInv, Files!NothingLost, Files!OnDisk
<1>10. VerbInv'
  <2>1. CASE verb' = Files!Idle
    BY <2>1 DEF VerbInv
  <2>2. CASE /\ verb' = [verb EXCEPT !.pc = pc]
             /\ verb'.pc = pc /\ verb'.op = verb.op /\ verb'.e = verb.e /\ verb'.next = verb.next
    <3>1. /\ OfScope(verb.e, verb.next)
          /\ verb.e[1] # "workflow" /\ Files!Live(verb.e) => entry[verb.e].scope \notin shelved
      BY <1>1 DEF FilesInv, VerbInv
    <3>2. pc = "clear" => <<verb.next.dir, verb.e>> # <<entry[verb.e].dir, verb.e>>
      BY <1>2, <1>4 DEF Files!Moved, Files!FileOf
    <3>. QED
      BY <1>1, <1>2, <1>8, <2>2, <3>1, <3>2 DEF VerbInv, OfScope, Files!Live, Files!FileOf, Files!Written
  <2>. QED
    BY <1>6, <2>1, <2>2
<1>. QED
  BY <1>1, <1>7, <1>9, <1>10 DEF FilesInv

\* What is cleared was asked for, or is written elsewhere.
LEMMA ClearStep == ASSUME FilesInv, Files!ClearFile PROVE FilesInv'
<1>1. /\ verb # Files!Idle /\ verb.pc = "clear"
      /\ disk' = [disk EXCEPT ![Files!FileOf(verb.e)] = None]
      /\ verb' = [verb EXCEPT !.pc = "commit"]
      /\ UNCHANGED <<shelved, created, entry, templates, owed, edits>>
  BY DEF Files!ClearFile
<1>2. /\ verb \in Files!Verbs /\ verb.e \in Files!Entries /\ verb.next \in Files!EntryRow
      /\ Files!Written = <<verb.next.dir, verb.e>> /\ verb.next.dir \in Files!Dirs
      /\ Files!Written \in Files!Files /\ Files!FilesTypeOK
  BY <1>1, VerbIs DEF FilesInv
<1>3. Files!FileOf(verb.e) = <<entry[verb.e].dir, verb.e>> /\ Files!FileOf(verb.e) \in Files!Files
  BY <1>2, FileOfIs
<1>4. /\ verb' \in Files!Verbs /\ verb'.pc = "commit" /\ verb'.op = verb.op
      /\ verb'.e = verb.e /\ verb'.next = verb.next
  BY <1>1, <1>2 DEF Files!Verbs
<1>5. /\ OfScope(verb.e, verb.next)
      /\ verb.e[1] # "workflow" /\ Files!Live(verb.e) => entry[verb.e].scope \notin shelved
      /\ \/ verb.op = "delete" /\ verb.e \notin owed
         \/ Files!Written # Files!FileOf(verb.e) /\ disk[Files!Written] # None
  BY <1>1 DEF FilesInv, VerbInv
<1>6. Files!FilesTypeOK'
  BY <1>1, <1>2, <1>3, <1>4 DEF Files!FilesTypeOK
<1>7. VerbInv'
  BY <1>1, <1>4, <1>5 DEF VerbInv, OfScope, Files!Live
<1>8. Files!NothingLost'
  <2>1. \A x \in owed, d \in Files!Dirs : x # verb.e => disk'[<<d, x>>] = disk[<<d, x>>]
    BY <1>1, <1>2, <1>3 DEF Files!FilesTypeOK
  <2>2. verb.e \in owed => disk'[<<verb.next.dir, verb.e>>] # None
    BY <1>1, <1>2, <1>3, <1>5 DEF Files!FilesTypeOK
  <2>. QED
    BY <1>1, <1>2, <2>1, <2>2 DEF FilesInv, Files!NothingLost, Files!OnDisk
<1>. QED
  BY <1>1, <1>6, <1>7, <1>8 DEF FilesInv

\* The verb is over, with its row or without.
LEMMA OverStep ==
    ASSUME FilesInv, Files!Commit \/ Files!Fail \/ Files!Crash
    PROVE  FilesInv'
<1>1. /\ verb' = Files!Idle /\ UNCHANGED <<shelved, created, disk, owed, edits>>
      /\ templates' \subseteq templates
  BY DEF Files!Commit, Files!Fail, Files!Crash
<1>2. /\ entry' \in [Files!Entries -> Files!EntryRow]
      /\ \A x \in Files!Entries : OfScope(x, entry'[x])
  <2>1. CASE Files!Commit
    <3>1. verb # Files!Idle /\ entry' = [entry EXCEPT ![verb.e] = verb.next]
      BY <2>1 DEF Files!Commit
    <3>2. verb.e \in Files!Entries /\ verb.next \in Files!EntryRow /\ OfScope(verb.e, verb.next)
      BY <3>1, VerbIs DEF FilesInv, VerbInv
    <3>. QED
      BY <3>1, <3>2 DEF FilesInv, Files!FilesTypeOK
  <2>2. CASE Files!Fail \/ Files!Crash
    BY <2>2 DEF Files!Fail, Files!Crash, FilesInv, Files!FilesTypeOK
  <2>. QED
    BY <2>1, <2>2
<1>3. Files!FilesTypeOK'
  BY <1>1, <1>2 DEF FilesInv, Files!FilesTypeOK
<1>4. Files!NothingLost'
  BY <1>1 DEF FilesInv, Files!NothingLost, Files!OnDisk
<1>. QED
  BY <1>1, <1>2, <1>3, <1>4 DEF FilesInv, VerbInv

\* The outside world writes or removes the file a row names.
LEMMA EditStep ==
    ASSUME FilesInv, NEW e \in Files!Entries, NEW content \in Contents \cup {None},
           Files!EditOutside(e, content)
    PROVE  FilesInv'
<1>1. /\ disk' = [disk EXCEPT ![Files!FileOf(e)] = content]
      /\ owed' = IF content = None THEN owed \ {e} ELSE owed
      /\ UNCHANGED <<shelved, created, entry, verb, templates>> /\ edits' = edits + 1
  BY DEF Files!EditOutside
<1>2. /\ Files!FileOf(e) = <<entry[e].dir, e>> /\ Files!FileOf(e) \in Files!Files
      /\ entry[e].dir \in Files!Dirs /\ Files!FilesTypeOK
  BY FileOfIs DEF FilesInv
<1>3. Files!FilesTypeOK'
  BY <1>1, <1>2 DEF Files!FilesTypeOK
<1>4. \A x \in Files!Entries, d \in Files!Dirs :
        <<d, x>> # <<entry[e].dir, e>> => disk'[<<d, x>>] = disk[<<d, x>>]
  BY <1>1, <1>2, FileIs DEF Files!FilesTypeOK
<1>5. disk'[<<entry[e].dir, e>>] = content
  BY <1>1, <1>2 DEF Files!FilesTypeOK
<1>6. Files!NothingLost'
  <2>1. owed \subseteq Files!Entries
    BY <1>2 DEF Files!FilesTypeOK
  <2>2. ASSUME NEW x \in owed', x # e PROVE Files!OnDisk(x)' # {}
    <3>1. PICK d \in Files!Dirs : disk[<<d, x>>] # None
      BY <1>1, <2>2 DEF FilesInv, Files!NothingLost, Files!OnDisk
    <3>2. <<d, x>> # <<entry[e].dir, e>>
      BY <2>2
    <3>3. disk'[<<d, x>>] = disk[<<d, x>>]
      BY <1>1, <1>4, <2>1, <2>2, <3>2
    <3>. QED
      BY <3>1, <3>3 DEF Files!OnDisk
  <2>3. e \in owed' => Files!OnDisk(e)' # {}
    BY <1>1, <1>2, <1>5 DEF Files!OnDisk
  <2>. QED
    BY <2>2, <2>3 DEF Files!NothingLost
<1>7. VerbInv'
  <2>1. CASE verb = Files!Idle
    BY <1>1, <2>1 DEF VerbInv
  <2>2. CASE verb # Files!Idle
    <3>1. /\ verb.e \in Files!Entries /\ Files!Written = <<verb.next.dir, verb.e>>
          /\ verb.next.dir \in Files!Dirs
      BY <2>2, VerbIs DEF FilesInv
    <3>2. Files!FileOf(verb.e) = <<entry[verb.e].dir, verb.e>> /\ entry[verb.e].dir \in Files!Dirs
      BY <1>2, <3>1, FileOfIs
    <3>3. /\ OfScope(verb.e, verb.next)
          /\ verb.pc \in {"write", "late"} => verb.next.hash # None
          /\ verb.e[1] # "workflow" /\ Files!Live(verb.e) => entry[verb.e].scope \notin shelved
          /\ verb.pc = "clear" =>
               \/ verb.op = "delete" /\ verb.e \notin owed
               \/ Files!Written # Files!FileOf(verb.e) /\ disk[Files!Written] # None
      BY <2>2 DEF FilesInv, VerbInv
    <3>4. disk[<<verb.next.dir, verb.e>>] # None /\ <<verb.next.dir, verb.e>> # <<entry[verb.e].dir, verb.e>>
             => disk'[<<verb.next.dir, verb.e>>] # None
      <4>1. CASE <<verb.next.dir, verb.e>> = <<entry[e].dir, e>>
        BY <4>1
      <4>2. CASE <<verb.next.dir, verb.e>> # <<entry[e].dir, e>>
        BY <1>4, <3>1, <4>2
      <4>. QED
        BY <4>1, <4>2
    <3>. QED
      BY <1>1, <3>1, <3>2, <3>3, <3>4 DEF VerbInv, OfScope, Files!Live, Files!Written, Files!FileOf
  <2>. QED
    BY <2>1, <2>2
<1>. QED
  BY <1>1, <1>3, <1>6, <1>7 DEF FilesInv

\* No file but the owner's skills is there at first, and orchd has written none.
LEMMA FilesStart == Files!FilesInit => FilesInv
<1>. SUFFICES ASSUME Files!FilesInit PROVE FilesInv
  OBVIOUS
<1>1. /\ shelved = {} /\ created = {} /\ entry = [e \in Files!Entries |-> Files!NoRow]
      /\ verb = Files!Idle /\ templates = {} /\ owed = {} /\ edits = 0
  BY DEF Files!FilesInit
<1>2. disk \in [Files!Files -> Contents \cup {None}]
  BY DEF Files!FilesInit
<1>3. Files!FilesTypeOK
  BY <1>1, <1>2, NoRowIs DEF Files!FilesTypeOK
<1>. QED
  BY <1>1, <1>3, NoRowIs DEF FilesInv, VerbInv, OfScope, Files!NothingLost

\* Every step keeps the invariant of the files.
LEMMA FilesStep == FilesInv /\ [Files!FilesNext]_files_vars => FilesInv'
<1>. SUFFICES ASSUME FilesInv, [Files!FilesNext]_files_vars PROVE FilesInv'
  OBVIOUS
<1>1. ASSUME NEW content \in Contents, Files!Upserts(content) PROVE FilesInv'
  <2>1. content \in Contents \cup {None}
    OBVIOUS
  <2>. QED
    BY <1>1, <2>1, RulesetStep, DocStep, WorkflowStep DEF Files!Upserts
<1>2. CASE Files!FileVerb
  BY <1>1, <1>2, EnsureStep, RulesetStep, ProjectStep, TemplateStep, DeleteStep, AcknowledgeStep,
     SkillStep, ImportStep DEF Files!FileVerb
<1>3. ASSUME NEW e \in Files!Entries, NEW content \in Contents \cup {None}, Files!EditOutside(e, content)
      PROVE  FilesInv'
  BY <1>3, EditStep
<1>4. CASE UNCHANGED files_vars
  BY <1>4 DEF files_vars, FilesInv, VerbInv, OfScope, Files!FilesTypeOK, Files!NothingLost, Files!OnDisk,
     Files!Live, Files!Written, Files!FileOf
<1>. QED
  BY <1>2, <1>3, <1>4, WriteStep, ClearStep, OverStep DEF Files!FilesNext

\* What a step does to the row and the file of an entry of an archived project.
Kept(e) ==
    \/ entry'[e] = entry[e] /\ disk'[Files!FileOf(e)] = disk[Files!FileOf(e)]
    \/ verb # Files!Idle /\ verb.e = e /\ e[1] = "workflow"

\* No step changes the row or the file of an entry in an archived project.
LEMMA KeptStep ==
    ASSUME FilesInv, [Files!FilesNext]_files_vars, NEW e \in Files!Entries, Files!Live(e),
           entry[e].scope \in shelved \cap shelved', edits' = edits
    PROVE  Kept(e)
<1>1. /\ Files!FilesTypeOK /\ edits \in Nat /\ OfScope(e, entry[e])
      /\ entry \in [Files!Entries -> Files!EntryRow] /\ disk \in [Files!Files -> Contents \cup {None}]
      /\ Files!FileOf(e) = <<entry[e].dir, e>> /\ Files!FileOf(e) \in Files!Files
      /\ shelved \subseteq created
  BY FileOfIs DEF FilesInv, Files!FilesTypeOK
<1>2. ASSUME UNCHANGED <<entry, disk>> PROVE Kept(e)
  BY <1>2 DEF Kept
<1>3. ASSUME NEW x \in Files!Entries, NEW r, x # e, entry' = [entry EXCEPT ![x] = r], disk' = disk
      PROVE  Kept(e)
  BY <1>1, <1>3 DEF Kept
<1>4. ASSUME NEW x \in Files!Entries, NEW d, NEW h, x # e,
             entry' = entry, disk' = [disk EXCEPT ![<<d, x>>] = h]
      PROVE  Kept(e)
  <2>1. <<d, x>> # <<entry[e].dir, e>>
    BY <1>4
  <2>. QED
    BY <1>1, <1>4, <2>1 DEF Kept
<1>5. ASSUME NEW content \in Contents, Files!EnsureGlobal(content) PROVE Kept(e)
  <2>1. PICK x \in Files!Entries : x = Files!RulesOf(None)
    BY EntryIs DEF Files!Scopes
  <2>2. x # e /\ <<"home", x>> # <<entry[e].dir, e>>
    BY <1>5, <2>1 DEF Files!EnsureGlobal
  <2>3. PICK now, r : entry' = [entry EXCEPT ![x] = r] /\ disk' = [disk EXCEPT ![<<"home", x>>] = now]
    BY <1>5, <2>1 DEF Files!EnsureGlobal
  <2>. QED
    BY <1>1, <2>2, <2>3 DEF Kept
<1>6. ASSUME NEW p \in Projects, Files!CreateProject(p) PROVE Kept(e)
  <2>1. PICK x \in Files!Entries : x = Files!RulesOf(p) /\ x[1] = "rules" /\ x[2] = p
    BY EntryIs DEF Files!Scopes
  <2>2. p \notin created /\ disk' = disk /\ \E r : entry' = [entry EXCEPT ![x] = r]
    BY <1>6, <2>1 DEF Files!CreateProject
  <2>3. x # e
    BY <1>1, <2>1, <2>2 DEF OfScope, Files!Live
  <2>. QED
    BY <1>3, <2>2, <2>3
<1>7. ASSUME NEW s \in Files!Scopes, NEW content, NEW hash, Files!Import(s, content, hash) PROVE Kept(e)
  <2>1. PICK x \in Files!Entries : x = Files!RulesOf(s) /\ x[1] = "rules" /\ x[2] = s
    BY EntryIs
  <2>2. s \notin created /\ disk' = disk /\ \E r : entry' = [entry EXCEPT ![x] = r]
    BY <1>7, <2>1 DEF Files!Import
  <2>3. x # e
    BY <1>1, <2>1, <2>2 DEF OfScope, Files!Live
  <2>. QED
    BY <1>3, <2>2, <2>3
<1>8. CASE Files!FileVerb
  <2>1. ASSUME NEW content \in Contents, Files!Upserts(content) PROVE Kept(e)
    BY <1>2, <2>1 DEF Files!Upserts, Files!UpsertRuleset, Files!UpsertDoc, Files!UpsertWorkflow, Files!Begin
  <2>2. ASSUME NEW s, NEW dir, Files!UpsertRuleset(s, None, dir) PROVE Kept(e)
    BY <1>2, <2>2 DEF Files!UpsertRuleset, Files!Begin
  <2>3. ASSUME NEW p \in Projects, NEW template, Files!SetArchived(p) \/ Files!WriteTemplate(p, template)
        PROVE  Kept(e)
    BY <1>2, <2>3 DEF Files!SetArchived, Files!WriteTemplate
  <2>4. ASSUME NEW x \in Files!Entries, Files!DeleteFiled(x) \/ Files!Acknowledge(x) PROVE Kept(e)
    BY <1>2, <2>4 DEF Files!DeleteFiled, Files!Acknowledge, Files!Begin
  <2>5. ASSUME NEW k \in Skills, Files!DeleteSkill(k) \/ \E s \in Files!Scopes : Files!AddSkill(k, s)
        PROVE  Kept(e)
    BY <1>2, <2>5 DEF Files!DeleteSkill, Files!AddSkill, Files!Begin
  <2>. QED
    BY <1>5, <1>6, <1>7, <1>8, <2>1, <2>2, <2>3, <2>4, <2>5 DEF Files!FileVerb
<1>9. ASSUME verb # Files!Idle, verb.e = e, e[1] # "workflow" PROVE FALSE
  BY <1>9 DEF FilesInv, VerbInv
<1>10. CASE Files!WriteFile \/ Files!ClearFile \/ Files!Commit
  <2>1. /\ verb # Files!Idle /\ verb.e \in Files!Entries
        /\ Files!Written = <<verb.next.dir, verb.e>> /\ Files!FileOf(verb.e) = <<entry[verb.e].dir, verb.e>>
    BY <1>1, <1>10, VerbIs, FileOfIs DEF Files!WriteFile, Files!ClearFile, Files!Commit
  <2>2. CASE verb.e = e
    BY <1>9, <2>1, <2>2 DEF Kept
  <2>3. CASE verb.e # e
    <3>1. \/ entry' = entry /\ \E d, h : disk' = [disk EXCEPT ![<<d, verb.e>>] = h]
          \/ disk' = disk /\ \E r : entry' = [entry EXCEPT ![verb.e] = r]
      BY <1>10, <2>1 DEF Files!WriteFile, Files!ClearFile, Files!Commit
    <3>. QED
      BY <1>3, <1>4, <2>1, <2>3, <3>1
  <2>. QED
    BY <2>2, <2>3
<1>11. CASE Files!Fail \/ Files!Crash \/ UNCHANGED files_vars
  BY <1>2, <1>11 DEF Files!Fail, Files!Crash, files_vars
<1>12. ASSUME NEW x \in Files!Entries, NEW content, Files!EditOutside(x, content) PROVE FALSE
  BY <1>1, <1>12 DEF Files!EditOutside
<1>. QED
  BY <1>8, <1>10, <1>11, <1>12 DEF Files!FilesNext

----------------------------------------------------------------------------
(* The secrets *)

Left == {delete.left[i] : i \in DOMAIN delete.left}

\* A login has stored its tokens before anybody knows the id.
LoginOK(a) ==
    /\ login[a] # "over" => acct[a].st = "none"
    /\ login[a] \in {"new", "begun", "exchanging"} => Creds!Holds(a) = {}
    /\ login[a] = "stored" => Creds!Holds(a) \in {{"token"}, {"token", "refresh"}}
    /\ acct[a].refresh => acct[a].kind = "oauth"

\* The one bearer of a server, which a delete has found unless it was written behind its back.
BearerOK(s) ==
    /\ Creds!Holds(s) \subseteq {"bearer"}
    /\ srv[s].st = "gone" /\ s \notin leaky => Creds!Holds(s) = {}
    /\ setter[s] = "stored" /\ srv[s].st = "live" /\ s \notin hollow /\ delete.of # s =>
         "bearer" \in Creds!Holds(s)

Storing(x) == IF x \in Servers THEN setter[x] = "stored" ELSE login[x] = "stored"

\* Each half of SecretsMatchRows lasts longer than the whole: the first but for a delete, the
\* second but for a write.
MatchOK(x) ==
    /\ x \notin hollow /\ delete.of # x => Creds!Refers(x) \subseteq Creds!Holds(x)
    /\ x \notin leaky /\ ~ Storing(x) => Creds!Holds(x) \subseteq Creds!Refers(x)

\* Who refreshes has read a row that names both tokens.
AskInv ==
    \A t \in Askers : asker[t].pc # "idle" =>
      /\ asker[t].on \in Accounts /\ acct[asker[t].on].st # "none"
      /\ Creds!Live(asker[t].on) => acct[asker[t].on].refresh

\* A delete finds every entry there is, but for those written behind its back.
DeleteInv ==
    /\ delete \in [of : Creds!Owners \cup {None}, left : Seq(Creds!Slots)]
    /\ delete.of = None => delete.left = <<>>
    /\ delete.of # None =>
         /\ Creds!Present(delete.of)
         /\ delete.of \notin leaky => Creds!Holds(delete.of) \subseteq Left

OwnersOK ==
    /\ \A a \in Accounts : LoginOK(a)
    /\ \A s \in Servers : BearerOK(s)
    /\ \A x \in Creds!Owners : MatchOK(x)

CredInv == Creds!CredTypeOK /\ OwnersOK /\ AskInv /\ DeleteInv

\* An account is no server, and nobody is an owner.
LEMMA OwnerIs ==
    /\ \A a \in Accounts : a \notin Servers /\ a # None /\ a \in Creds!Owners
    /\ \A s \in Servers : s \notin Accounts /\ s # None /\ s \in Creds!Owners
    /\ \A x \in Creds!Owners : x \in Accounts \/ x \in Servers
    /\ None \notin Creds!Owners
  BY OwnersAssumption DEF Creds!Owners

\* What the row of an account names, and that of a server.
Rowed ==
    /\ \A a \in Accounts :
         /\ Creds!Named(a) \in Seq(Creds!Slots)
         /\ Creds!Refers(a) =
              IF ~ Creds!Live(a) THEN {}
              ELSE IF acct[a].kind = "apikey" THEN {"apikey"}
              ELSE IF acct[a].refresh THEN {"token", "refresh"} ELSE {"token"}
    /\ \A s \in Servers :
         Creds!Refers(s) = IF srv[s].st = "live" /\ srv[s].ref THEN {"bearer"} ELSE {}

\* By cases of the row, a slot being an element of what the row names.
LEMMA NamedIs == Rowed
<1>1. ASSUME NEW a \in Accounts
      PROVE  /\ Creds!Named(a) \in Seq(Creds!Slots)
             /\ Creds!Refers(a) =
                  IF ~ Creds!Live(a) THEN {}
                  ELSE IF acct[a].kind = "apikey" THEN {"apikey"}
                  ELSE IF acct[a].refresh THEN {"token", "refresh"} ELSE {"token"}
  <2>1. a \notin Servers
    BY OwnerIs
  <2>2. CASE ~ Creds!Live(a)
    <3>1. Creds!Named(a) = <<>>
      BY <2>1, <2>2 DEF Creds!Named
    <3>. QED
      BY <2>2, <3>1 DEF Creds!Refers
  <2>3. CASE Creds!Live(a) /\ acct[a].kind = "apikey"
    <3>1. Creds!Named(a) = <<"apikey">>
      BY <2>1, <2>3 DEF Creds!Named
    <3>. QED
      BY <2>3, <3>1 DEF Creds!Refers, Creds!Slots
  <2>4. CASE Creds!Live(a) /\ acct[a].kind # "apikey" /\ acct[a].refresh
    <3>1. Creds!Named(a) = <<"token", "refresh">>
      BY <2>1, <2>4 DEF Creds!Named
    <3>2. Creds!Refers(a) = {"token", "refresh"}
      BY <3>1 DEF Creds!Refers
    <3>3. Creds!Named(a) \in Seq(Creds!Slots)
      BY <3>1 DEF Creds!Slots
    <3>. QED
      BY <2>4, <3>2, <3>3
  <2>5. CASE Creds!Live(a) /\ acct[a].kind # "apikey" /\ ~ acct[a].refresh
    <3>1. Creds!Named(a) = <<"token">>
      BY <2>1, <2>5 DEF Creds!Named
    <3>. QED
      BY <2>5, <3>1 DEF Creds!Refers, Creds!Slots
  <2>. QED
    BY <2>2, <2>3, <2>4, <2>5
<1>2. ASSUME NEW s \in Servers
      PROVE  Creds!Refers(s) = IF srv[s].st = "live" /\ srv[s].ref THEN {"bearer"} ELSE {}
  <2>1. CASE srv[s].st = "live" /\ srv[s].ref
    <3>1. Creds!Named(s) = <<"bearer">>
      BY <2>1 DEF Creds!Named
    <3>. QED
      BY <2>1, <3>1 DEF Creds!Refers
  <2>2. CASE ~ (srv[s].st = "live" /\ srv[s].ref)
    <3>1. Creds!Named(s) = <<>>
      BY <2>2 DEF Creds!Named
    <3>. QED
      BY <2>2, <3>1 DEF Creds!Refers
  <2>. QED
    BY <2>1, <2>2
<1>. QED
  BY <1>1, <1>2 DEF Rowed

\* The same after a step.
LEMMA NamedNext == Rowed'
  BY NamedIs, PTL

\* The entries of the owners, as the Keychain changes.
LEMMA HoldsAdd ==
    ASSUME NEW x, NEW S \in SUBSET Creds!Slots, keychain' = keychain \cup ({x} \X S)
    PROVE  /\ Creds!Holds(x)' = Creds!Holds(x) \cup S
           /\ \A y : y # x => Creds!Holds(y)' = Creds!Holds(y)
  BY DEF Creds!Holds

\* An entry less.
LEMMA HoldsDrop ==
    ASSUME NEW x, NEW slot, keychain' = keychain \ {<<x, slot>>}
    PROVE  /\ Creds!Holds(x)' = Creds!Holds(x) \ {slot}
           /\ \A y : y # x => Creds!Holds(y)' = Creds!Holds(y)
  BY DEF Creds!Holds

\* The Keychain as it was.
LEMMA HoldsSame ==
    ASSUME UNCHANGED keychain PROVE \A y : Creds!Holds(y)' = Creds!Holds(y)
  BY DEF Creds!Holds

\* A step that is about x and about no other owner.
About(x) ==
    /\ \A y \in Creds!Owners : y # x =>
         /\ Creds!Holds(y)' = Creds!Holds(y)
         /\ (y \in leaky' <=> y \in leaky) /\ (y \in hollow' <=> y \in hollow)
    /\ \A a \in Accounts : a # x => acct'[a] = acct[a] /\ login'[a] = login[a]
    /\ \A s \in Servers : s # x => srv'[s] = srv[s] /\ setter'[s] = setter[s]
    /\ delete'.of = delete.of \/ (delete.of \in {None, x} /\ delete'.of \in {None, x})

\* The owners a step is not about keep their part of the invariant.
LEMMA AboutIs ==
    ASSUME CredInv, NEW x \in Creds!Owners \cup {None}, About(x),
           x \in Accounts => LoginOK(x)', x \in Servers => BearerOK(x)', x # None => MatchOK(x)'
    PROVE  OwnersOK'
<1>1. ASSUME NEW a \in Accounts PROVE LoginOK(a)'
  <2>1. CASE a = x
    BY <2>1
  <2>2. CASE a # x
    <3>1. acct'[a] = acct[a] /\ login'[a] = login[a] /\ Creds!Holds(a)' = Creds!Holds(a) /\ LoginOK(a)
      BY <2>2, OwnerIs DEF About, CredInv, OwnersOK
    <3>. QED
      BY <3>1 DEF LoginOK
  <2>. QED
    BY <2>1, <2>2
<1>2. ASSUME NEW s \in Servers PROVE BearerOK(s)'
  <2>1. CASE s = x
    BY <2>1
  <2>2. CASE s # x
    <3>1. /\ srv'[s] = srv[s] /\ setter'[s] = setter[s] /\ Creds!Holds(s)' = Creds!Holds(s) /\ BearerOK(s)
          /\ (s \in leaky' <=> s \in leaky) /\ (s \in hollow' <=> s \in hollow)
          /\ (delete'.of = s <=> delete.of = s)
      BY <2>2, OwnerIs DEF About, CredInv, OwnersOK
    <3>. QED
      BY <3>1 DEF BearerOK
  <2>. QED
    BY <2>1, <2>2
<1>3. ASSUME NEW y \in Creds!Owners, y # x PROVE MatchOK(y)'
  <2>1. /\ Creds!Holds(y)' = Creds!Holds(y) /\ MatchOK(y)
        /\ (y \in leaky' <=> y \in leaky) /\ (y \in hollow' <=> y \in hollow)
        /\ (delete'.of = y <=> delete.of = y)
    BY <1>3, OwnerIs DEF About, CredInv, OwnersOK
  <2>2. Storing(y)' <=> Storing(y)
    BY <1>3, OwnerIs DEF About, Storing
  <2>3. Creds!Refers(y)' = Creds!Refers(y)
    <3>1. CASE y \in Accounts
      <4>1. acct'[y] = acct[y]
        BY <1>3, <3>1 DEF About
      <4>. QED
        BY <3>1, <4>1, NamedIs, NamedNext DEF Rowed, Creds!Live
    <3>2. CASE y \in Servers
      <4>1. srv'[y] = srv[y]
        BY <1>3, <3>2 DEF About
      <4>. QED
        BY <3>2, <4>1, NamedIs, NamedNext DEF Rowed
    <3>. QED
      BY <3>1, <3>2, OwnerIs
  <2>. QED
    BY <2>1, <2>2, <2>3 DEF MatchOK
<1>. QED
  BY <1>1, <1>2, <1>3, OwnerIs DEF OwnersOK

\* Who asks and who deletes, when rows come and change but do not go.
LEMMA AskSame ==
    ASSUME AskInv, UNCHANGED asker,
           \A a \in Accounts : acct[a].st # "none" =>
             acct'[a].st = acct[a].st /\ (acct[a].refresh => acct'[a].refresh)
    PROVE  AskInv'
  BY DEF AskInv, Creds!Live

\* The delete that holds the mutex has still found what there is.
LEMMA DeleteSame ==
    ASSUME DeleteInv, UNCHANGED delete,
           \A a \in Accounts : Creds!Live(a) => acct'[a].st = acct[a].st,
           \A s \in Servers : srv'[s].st = srv[s].st,
           leaky \subseteq leaky',
           delete.of # None /\ delete.of \notin leaky' =>
             Creds!Holds(delete.of)' \subseteq Creds!Holds(delete.of)
    PROVE  DeleteInv'
<1>1. Left' = Left
  BY DEF Left
<1>2. delete.of # None => Creds!Present(delete.of)'
  <2>1. ASSUME delete.of # None PROVE delete.of \in Accounts \/ delete.of \in Servers
    BY <2>1, OwnerIs DEF DeleteInv
  <2>. QED
    BY <2>1, OwnerIs DEF DeleteInv, Creds!Present, Creds!Live
<1>. QED
  BY <1>1, <1>2 DEF DeleteInv

\* What the invariant says of one account.
LEMMA AccountIs ==
    ASSUME CredInv, NEW a \in Accounts
    PROVE  /\ acct[a] \in Creds!AccountRows
           /\ login[a] \in {"new", "begun", "exchanging", "stored", "over"}
           /\ LoginOK(a) /\ MatchOK(a) /\ a \in Creds!Owners /\ a \notin Servers
           /\ delete.of = a => Creds!Live(a)
           /\ keychain \subseteq Creds!Owners \X Creds!Slots
  BY OwnerIs DEF CredInv, Creds!CredTypeOK, OwnersOK, DeleteInv, Creds!Present

\* A login goes on without the Keychain.
LEMMA LoginStep ==
    ASSUME CredInv, NEW a \in Accounts,
           Creds!BeginOAuth(a) \/ Creds!CompleteOAuth(a) \/ Creds!ExchangeFails(a)
    PROVE  CredInv'
<1>1. /\ login[a] \in {"new", "begun", "exchanging"}
      /\ \E st \in {"begun", "exchanging", "over"} : login' = [login EXCEPT ![a] = st]
      /\ UNCHANGED <<acct, srv, frozen, keychain, asker, setter, delete, leaky, hollow, faults>>
  BY DEF Creds!BeginOAuth, Creds!CompleteOAuth, Creds!ExchangeFails, Creds!Logs, Creds!Others
<1>2. \A y : Creds!Holds(y)' = Creds!Holds(y)
  BY <1>1, HoldsSame
<1>3. /\ LoginOK(a) /\ MatchOK(a) /\ a \in Creds!Owners /\ a \notin Servers
      /\ login'[a] \in {"begun", "exchanging", "over"}
      /\ login \in [Accounts -> {"new", "begun", "exchanging", "stored", "over"}]
  BY <1>1, AccountIs DEF CredInv, Creds!CredTypeOK
<1>4. Creds!Refers(a)' = Creds!Refers(a)
  BY <1>1, NamedIs, NamedNext DEF Rowed, Creds!Live
<1>5. About(a)
  BY <1>1, <1>2, <1>3 DEF About
<1>6. LoginOK(a)' /\ MatchOK(a)'
  BY <1>1, <1>2, <1>3, <1>4 DEF LoginOK, MatchOK, Storing
<1>7. OwnersOK'
  BY <1>3, <1>5, <1>6, AboutIs
<1>8. Creds!CredTypeOK'
  <2>1. login' \in [Accounts -> {"new", "begun", "exchanging", "stored", "over"}]
    BY <1>1, <1>3
  <2>. QED
    BY <1>1, <2>1 DEF CredInv, Creds!CredTypeOK
<1>9. AskInv' /\ DeleteInv'
  BY <1>1, <1>2, AskSame, DeleteSame DEF CredInv
<1>. QED
  BY <1>7, <1>8, <1>9 DEF CredInv

\* Nobody knows the id yet, so no row names the tokens and no delete meets them.
LEMMA TokensStep ==
    ASSUME CredInv, NEW a \in Accounts, NEW slots \in {{"token"}, {"token", "refresh"}},
           Creds!StoreTokens(a, slots)
    PROVE  CredInv'
<1>1. /\ login[a] = "exchanging" /\ login' = [login EXCEPT ![a] = "stored"]
      /\ keychain' = keychain \cup ({a} \X slots)
      /\ UNCHANGED <<acct, srv, frozen, asker, setter, delete, leaky, hollow, faults>>
  BY DEF Creds!StoreTokens, Creds!Logs, Creds!Others
<1>2. slots \in SUBSET Creds!Slots
  BY DEF Creds!Slots
<1>3. /\ Creds!Holds(a)' = Creds!Holds(a) \cup slots
      /\ \A y : y # a => Creds!Holds(y)' = Creds!Holds(y)
  BY <1>1, <1>2, HoldsAdd
<1>4. /\ LoginOK(a) /\ MatchOK(a) /\ a \in Creds!Owners /\ a \notin Servers
      /\ delete.of = a => Creds!Live(a)
      /\ login \in [Accounts -> {"new", "begun", "exchanging", "stored", "over"}]
      /\ keychain \subseteq Creds!Owners \X Creds!Slots
  BY AccountIs DEF CredInv, Creds!CredTypeOK
<1>5. acct[a].st = "none" /\ Creds!Holds(a) = {} /\ delete.of # a
  BY <1>1, <1>4 DEF LoginOK, Creds!Live
<1>6. Creds!Refers(a)' = {}
  BY <1>1, <1>5, NamedNext DEF Rowed, Creds!Live
<1>7. About(a)
  BY <1>1, <1>3, <1>4 DEF About
<1>8. LoginOK(a)' /\ MatchOK(a)'
  BY <1>1, <1>3, <1>4, <1>5, <1>6 DEF LoginOK, MatchOK, Storing
<1>9. OwnersOK'
  BY <1>4, <1>7, <1>8, AboutIs
<1>10. Creds!CredTypeOK'
  <2>1. /\ login' \in [Accounts -> {"new", "begun", "exchanging", "stored", "over"}]
        /\ keychain' \subseteq Creds!Owners \X Creds!Slots
    BY <1>1, <1>2, <1>4
  <2>. QED
    BY <1>1, <1>4, <2>1, FaultsAssumption DEF CredInv, Creds!CredTypeOK
<1>11. AskInv' /\ DeleteInv'
  BY <1>1, <1>3, <1>5, AskSame, DeleteSame DEF CredInv
<1>. QED
  BY <1>9, <1>10, <1>11 DEF CredInv

\* The row names what the Keychain has been given for it.
LEMMA InsertStep ==
    ASSUME CredInv, NEW a \in Accounts, Creds!InsertAccount(a) \/ Creds!AddApiKey(a)
    PROVE  CredInv'
<1>1. /\ delete = Creds!Free /\ login[a] \in {"stored", "new"} /\ login' = [login EXCEPT ![a] = "over"]
      /\ UNCHANGED <<srv, frozen, asker, setter, delete, leaky, hollow, faults>>
  BY DEF Creds!InsertAccount, Creds!AddApiKey, Creds!Logs, Creds!Others, Creds!Unlocked
<1>0. PICK kind \in {"oauth", "apikey"} :
        /\ acct' = [acct EXCEPT ![a] = Creds!Inserted(a, kind)]
        /\ \/ kind = "oauth" /\ login[a] = "stored" /\ keychain' = keychain
           \/ kind = "apikey" /\ login[a] = "new" /\ keychain' = keychain \cup ({a} \X {"apikey"})
  <2>1. CASE Creds!InsertAccount(a)
    BY <2>1 DEF Creds!InsertAccount, Creds!Logs
  <2>2. CASE Creds!AddApiKey(a)
    <3>1. {a} \X {"apikey"} = {<<a, "apikey">>}
      OBVIOUS
    <3>. QED
      BY <2>2, <3>1 DEF Creds!AddApiKey, Creds!Logs
  <2>. QED
    BY <2>1, <2>2
<1>2. PICK r :
        /\ r = [Creds!NoAccount EXCEPT !.st = "live", !.kind = kind,
                                       !.refresh = (<<a, "refresh">> \in keychain')]
        /\ acct' = [acct EXCEPT ![a] = r]
        /\ \/ kind = "oauth" /\ login[a] = "stored" /\ keychain' = keychain
           \/ kind = "apikey" /\ login[a] = "new" /\ keychain' = keychain \cup ({a} \X {"apikey"})
  BY <1>0 DEF Creds!Inserted
<1>3. /\ LoginOK(a) /\ MatchOK(a) /\ a \in Creds!Owners /\ a \notin Servers
      /\ login \in [Accounts -> {"new", "begun", "exchanging", "stored", "over"}]
      /\ keychain \subseteq Creds!Owners \X Creds!Slots
      /\ acct \in [Accounts -> Creds!AccountRows]
  BY AccountIs DEF CredInv, Creds!CredTypeOK
<1>4. /\ r \in Creds!AccountRows
      /\ r.st = "live" /\ r.kind = kind /\ (r.refresh <=> <<a, "refresh">> \in keychain')
  <2>1. PICK b \in BOOLEAN : b <=> <<a, "refresh">> \in keychain'
    OBVIOUS
  <2>2. r = [Creds!NoAccount EXCEPT !.st = "live", !.kind = kind, !.refresh = b]
    BY <1>2, <2>1
  <2>. QED
    BY <2>1, <2>2 DEF Creds!NoAccount, Creds!AccountRows
<1>5. {"apikey"} \in SUBSET Creds!Slots
  BY DEF Creds!Slots
<1>6. /\ Creds!Holds(a)' = IF kind = "oauth" THEN Creds!Holds(a) ELSE Creds!Holds(a) \cup {"apikey"}
      /\ \A y : y # a => Creds!Holds(y)' = Creds!Holds(y)
  BY <1>2, <1>5, HoldsAdd, HoldsSame
<1>7. /\ acct[a].st = "none"
      /\ kind = "oauth" => Creds!Holds(a) \in {{"token"}, {"token", "refresh"}}
      /\ kind = "apikey" => Creds!Holds(a) = {}
  BY <1>1, <1>2, <1>3 DEF LoginOK
<1>8. r.refresh <=> "refresh" \in Creds!Holds(a)'
  BY <1>4 DEF Creds!Holds, Creds!Slots
<1>9. acct'[a] = r /\ \A b \in Accounts : b # a => acct'[b] = acct[b]
  BY <1>2, <1>3
<1>10. Creds!Refers(a)' = Creds!Holds(a)'
  <2>1. Creds!Refers(a)' = IF kind = "apikey" THEN {"apikey"}
                           ELSE IF r.refresh THEN {"token", "refresh"} ELSE {"token"}
    BY <1>4, <1>9, NamedNext DEF Rowed, Creds!Live
  <2>. QED
    BY <1>6, <1>7, <1>8, <2>1
<1>11. About(a)
  BY <1>1, <1>3, <1>6, <1>9 DEF About
<1>12. LoginOK(a)' /\ MatchOK(a)'
  <2>1. login'[a] = "over"
    BY <1>1, <1>3
  <2>2. acct'[a].refresh => acct'[a].kind = "oauth"
    BY <1>4, <1>6, <1>7, <1>8, <1>9
  <2>. QED
    BY <1>10, <2>1, <2>2 DEF LoginOK, MatchOK
<1>13. OwnersOK'
  BY <1>3, <1>11, <1>12, AboutIs
<1>14. Creds!CredTypeOK'
  <2>1. /\ keychain' \subseteq Creds!Owners \X Creds!Slots
        /\ login' \in [Accounts -> {"new", "begun", "exchanging", "stored", "over"}]
    BY <1>1, <1>2, <1>3, <1>5
  <2>2. acct' \in [Accounts -> Creds!AccountRows]
    BY <1>2, <1>3, <1>4
  <2>. QED
    BY <1>1, <2>1, <2>2 DEF CredInv, Creds!CredTypeOK
<1>15. AskInv'
  BY <1>1, <1>7, <1>9, AskSame DEF CredInv
<1>16. DeleteInv'
  BY <1>1 DEF CredInv, DeleteInv, Creds!Free
<1>. QED
  BY <1>13, <1>14, <1>15, <1>16 DEF CredInv

\* An entry without a row is left, and the account is known to leak.
LEMMA AddFailsStep ==
    ASSUME CredInv, NEW a \in Accounts, NEW slots \in {{}, {"token"}, {"token", "refresh"}, {"apikey"}},
           Creds!AddFails(a, slots)
    PROVE  CredInv'
<1>1. /\ login[a] \in {"exchanging", "stored", "new"} /\ login' = [login EXCEPT ![a] = "over"]
      /\ keychain' = keychain \cup ({a} \X slots) /\ leaky' = leaky \cup {a}
      /\ UNCHANGED <<acct, srv, frozen, asker, setter, delete, hollow>>
      /\ faults < MaxFaults /\ faults' = faults + 1
  BY DEF Creds!AddFails, Creds!Logs, Creds!Others
<1>2. slots \in SUBSET Creds!Slots
  BY DEF Creds!Slots
<1>3. /\ Creds!Holds(a)' = Creds!Holds(a) \cup slots
      /\ \A y : y # a => Creds!Holds(y)' = Creds!Holds(y)
  BY <1>1, <1>2, HoldsAdd
<1>4. /\ LoginOK(a) /\ MatchOK(a) /\ a \in Creds!Owners /\ a \notin Servers
      /\ delete.of = a => Creds!Live(a)
      /\ login \in [Accounts -> {"new", "begun", "exchanging", "stored", "over"}]
      /\ keychain \subseteq Creds!Owners \X Creds!Slots
  BY AccountIs DEF CredInv, Creds!CredTypeOK
<1>5. acct[a].st = "none" /\ delete.of # a
  BY <1>1, <1>4 DEF LoginOK, Creds!Live
<1>6. Creds!Refers(a)' = {}
  BY <1>1, <1>5, NamedNext DEF Rowed, Creds!Live
<1>7. About(a)
  BY <1>1, <1>3, <1>4 DEF About
<1>8. LoginOK(a)' /\ MatchOK(a)'
  BY <1>1, <1>3, <1>4, <1>5, <1>6 DEF LoginOK, MatchOK, Storing
<1>9. OwnersOK'
  BY <1>4, <1>7, <1>8, AboutIs
<1>10. Creds!CredTypeOK'
  <2>1. /\ login' \in [Accounts -> {"new", "begun", "exchanging", "stored", "over"}]
        /\ keychain' \subseteq Creds!Owners \X Creds!Slots
    BY <1>1, <1>2, <1>4
  <2>. QED
    BY <1>1, <1>4, <2>1, FaultsAssumption DEF CredInv, Creds!CredTypeOK
<1>11. AskInv' /\ DeleteInv'
  BY <1>1, <1>3, <1>5, AskSame, DeleteSame DEF CredInv
<1>. QED
  BY <1>9, <1>10, <1>11 DEF CredInv

\* Who refreshes an account that is still there finds both its entries named.
LEMMA AskerIs ==
    ASSUME CredInv, NEW t \in Askers, asker[t].pc # "idle"
    PROVE  /\ asker[t].on \in Accounts
           /\ Creds!Live(asker[t].on) => acct[asker[t].on].refresh /\ acct[asker[t].on].kind = "oauth"
<1>1. asker[t].on \in Accounts /\ (Creds!Live(asker[t].on) => acct[asker[t].on].refresh)
  BY DEF CredInv, AskInv
<1>. QED
  BY <1>1, AccountIs DEF LoginOK

Askings == [pc : {"idle", "read", "asked", "renewed", "stored"}, on : Accounts \cup {None}]

\* A call of token_for goes on, or gives up.
GoesOn(t) ==
    \E r \in Askings :
      /\ asker' = [asker EXCEPT ![t] = r]
      /\ r.pc # "idle" => asker[t].pc # "idle" /\ r.on = asker[t].on

\* Either update of the caller is one.
LEMMA GoesOnIs ==
    ASSUME CredInv, NEW t \in Askers, NEW pc \in {"idle", "read", "asked", "renewed", "stored"},
           \/ asker' = [asker EXCEPT ![t] = Creds!Idle]
           \/ asker' = [asker EXCEPT ![t].pc = pc] /\ asker[t].pc # "idle"
    PROVE  GoesOn(t)
<1>1. asker[t] \in Askings /\ asker \in [Askers -> Askings]
  BY DEF CredInv, Creds!CredTypeOK, Askings
<1>2. CASE asker' = [asker EXCEPT ![t] = Creds!Idle]
  <2>1. PICK r : r = Creds!Idle
    OBVIOUS
  <2>2. r \in Askings /\ r.pc = "idle"
    BY <2>1 DEF Creds!Idle, Askings
  <2>. QED
    BY <1>2, <2>1, <2>2 DEF GoesOn
<1>3. CASE asker' = [asker EXCEPT ![t].pc = pc] /\ asker[t].pc # "idle"
  <2>1. PICK r : r = [asker[t] EXCEPT !.pc = pc]
    OBVIOUS
  <2>2. r \in Askings /\ r.on = asker[t].on
    BY <1>1, <2>1 DEF Askings
  <2>3. asker' = [asker EXCEPT ![t] = r]
    BY <1>1, <1>3, <2>1
  <2>. QED
    BY <1>3, <2>2, <2>3 DEF GoesOn
<1>. QED
  BY <1>2, <1>3

\* The other callers, and this one if it goes on, are of rows that name both tokens.
LEMMA GoesOnKeeps ==
    ASSUME CredInv, NEW t \in Askers, GoesOn(t),
           \A a \in Accounts : acct[a].st # "none" =>
             acct'[a].st = acct[a].st /\ (acct[a].refresh => acct'[a].refresh)
    PROVE  AskInv' /\ asker' \in [Askers -> Askings]
<1>1. PICK r \in Askings : /\ asker' = [asker EXCEPT ![t] = r]
                           /\ r.pc # "idle" => asker[t].pc # "idle" /\ r.on = asker[t].on
  BY DEF GoesOn
<1>2. asker \in [Askers -> Askings]
  BY DEF CredInv, Creds!CredTypeOK, Askings
<1>3. ASSUME NEW u \in Askers, asker'[u].pc # "idle"
      PROVE  /\ asker'[u].on \in Accounts /\ acct'[asker'[u].on].st # "none"
             /\ acct'[asker'[u].on].st = "live" => acct'[asker'[u].on].refresh
  <2>1. asker[u].pc # "idle" /\ asker'[u].on = asker[u].on
    <3>1. CASE u = t
      BY <1>1, <1>2, <1>3, <3>1
    <3>2. CASE u # t
      BY <1>1, <1>2, <1>3, <3>2
    <3>. QED
      BY <3>1, <3>2
  <2>2. PICK a \in Accounts : /\ a = asker[u].on /\ acct[a].st # "none"
                              /\ acct[a].st = "live" => acct[a].refresh
    BY <2>1 DEF CredInv, AskInv, Creds!Live
  <2>3. acct'[a].st = acct[a].st /\ (acct[a].refresh => acct'[a].refresh)
    BY <2>2
  <2>4. asker'[u].on = a
    BY <2>1, <2>2
  <2>. QED
    BY <2>2, <2>3, <2>4
<1>4. asker' \in [Askers -> Askings]
  BY <1>1, <1>2
<1>. QED
  BY <1>3, <1>4 DEF AskInv, Creds!Live

\* The row and the Keychain stay as they are.
LEMMA ReadStep ==
    ASSUME CredInv, NEW t \in Askers, Creds!ReadRefresh(t) \/ Creds!RefreshFails(t)
    PROVE  CredInv'
<1>1. /\ \/ asker' = [asker EXCEPT ![t] = Creds!Idle]
         \/ asker' = [asker EXCEPT ![t].pc = "asked"] /\ asker[t].pc # "idle"
      /\ UNCHANGED <<acct, srv, frozen, keychain, login, setter, delete, leaky, hollow, faults>>
  BY DEF Creds!ReadRefresh, Creds!RefreshFails, Creds!Asks, Creds!Rest
<1>2. GoesOn(t)
  BY <1>1, GoesOnIs
<1>3. AskInv' /\ asker' \in [Askers -> Askings]
  BY <1>1, <1>2, GoesOnKeeps
<1>4. \A y : Creds!Holds(y)' = Creds!Holds(y)
  BY <1>1, HoldsSame
<1>5. OwnersOK'
  <2>1. About(None)
    BY <1>1, <1>4 DEF About
  <2>. QED
    BY <2>1, AboutIs, OwnersAssumption
<1>6. DeleteInv'
  BY <1>1, <1>4, DeleteSame DEF CredInv
<1>7. Creds!CredTypeOK'
  BY <1>1, <1>3 DEF CredInv, Creds!CredTypeOK, Askings
<1>. QED
  BY <1>3, <1>5, <1>6, <1>7 DEF CredInv

\* The row is read: it names both tokens.
LEMMA ReadAccountStep ==
    ASSUME CredInv, NEW t \in Askers, NEW a \in Accounts, Creds!ReadAccount(t, a)
    PROVE  CredInv'
<1>1. PICK r : r = [pc |-> "read", on |-> a]
  OBVIOUS
<1>2. /\ Creds!Live(a) /\ acct[a].refresh /\ asker' = [asker EXCEPT ![t] = r]
      /\ UNCHANGED <<acct, srv, frozen, keychain, login, setter, delete, leaky, hollow, faults>>
  BY <1>1 DEF Creds!ReadAccount, Creds!Rest
<1>3. r \in Askings /\ r.on = a /\ asker \in [Askers -> Askings]
  BY <1>1 DEF Askings, CredInv, Creds!CredTypeOK
<1>4. asker'[t] = r /\ asker' \in [Askers -> Askings] /\ \A u \in Askers : u # t => asker'[u] = asker[u]
  BY <1>2, <1>3
<1>5. AskInv'
  BY <1>2, <1>3, <1>4 DEF CredInv, AskInv, Creds!Live
<1>6. \A y : Creds!Holds(y)' = Creds!Holds(y)
  BY <1>2, HoldsSame
<1>7. OwnersOK'
  <2>1. About(None)
    BY <1>2, <1>6 DEF About
  <2>. QED
    BY <2>1, AboutIs, OwnersAssumption
<1>8. DeleteInv'
  BY <1>2, <1>6, DeleteSame DEF CredInv
<1>9. Creds!CredTypeOK'
  BY <1>2, <1>4 DEF CredInv, Creds!CredTypeOK, Askings
<1>. QED
  BY <1>5, <1>7, <1>8, <1>9 DEF CredInv

\* A token is stored under a row that names it, or behind the back of a delete.
LEMMA RefreshStep ==
    ASSUME CredInv, NEW t \in Askers,
           Creds!StoreAccess(t) \/ \E rotated \in BOOLEAN : Creds!StoreRefresh(t, rotated)
    PROVE  CredInv'
<1>1. PICK a : a = asker[t].on
  OBVIOUS
<1>2. /\ asker[t].pc # "idle"
      /\ asker' = [asker EXCEPT ![t].pc = "renewed"] \/ asker' = [asker EXCEPT ![t].pc = "stored"]
      /\ UNCHANGED <<acct, srv, frozen, login, setter, delete, hollow, faults>>
  BY DEF Creds!StoreAccess, Creds!StoreRefresh, Creds!Asks, Creds!Rest
<1>3. PICK S \in {{}, {"token"}, {"refresh"}} :
        /\ keychain' = keychain \cup ({a} \X S)
        /\ leaky' = IF S # {} /\ Creds!Late(a) THEN leaky \cup {a} ELSE leaky
  <2>1. /\ {a} \X {"token"} = {<<a, "token">>} /\ {a} \X {"refresh"} = {<<a, "refresh">>}
        /\ {a} \X {} = {}
    OBVIOUS
  <2>2. CASE Creds!StoreAccess(t)
    BY <1>1, <2>1, <2>2 DEF Creds!StoreAccess
  <2>3. ASSUME NEW rotated \in BOOLEAN, Creds!StoreRefresh(t, rotated)
        PROVE  \E S \in {{}, {"token"}, {"refresh"}} :
                 /\ keychain' = keychain \cup ({a} \X S)
                 /\ leaky' = IF S # {} /\ Creds!Late(a) THEN leaky \cup {a} ELSE leaky
    <3>1. CASE rotated
      <4>1. /\ keychain' = keychain \cup ({a} \X {"refresh"})
            /\ leaky' = IF Creds!Late(a) THEN leaky \cup {a} ELSE leaky
        BY <1>1, <2>1, <2>3, <3>1 DEF Creds!StoreRefresh
      <4>. QED
        BY <4>1
    <3>2. CASE ~ rotated
      <4>1. keychain' = keychain \cup ({a} \X {}) /\ leaky' = leaky
        BY <1>1, <2>1, <2>3, <3>2 DEF Creds!StoreRefresh
      <4>. QED
        BY <4>1
    <3>. QED
      BY <3>1, <3>2
  <2>. QED
    BY <2>2, <2>3
<1>4. a \in Accounts /\ (Creds!Live(a) => acct[a].refresh /\ acct[a].kind = "oauth")
  BY <1>1, <1>2, AskerIs
<1>5. S \in SUBSET Creds!Slots
  BY DEF Creds!Slots
<1>6. /\ Creds!Holds(a)' = Creds!Holds(a) \cup S
      /\ \A y : y # a => Creds!Holds(y)' = Creds!Holds(y)
  BY <1>3, <1>5, HoldsAdd
<1>7. /\ LoginOK(a) /\ MatchOK(a) /\ a \in Creds!Owners /\ a \notin Servers
      /\ keychain \subseteq Creds!Owners \X Creds!Slots
      /\ acct[a].st # "none"
  BY <1>1, <1>2, <1>4, AccountIs DEF CredInv, AskInv
<1>8. Creds!Late(a) <=> delete.of = a \/ ~ Creds!Live(a)
  BY <1>7 DEF Creds!Late, Creds!Present
<1>9. AskInv' /\ asker' \in [Askers -> Askings]
  BY <1>2, GoesOnIs, GoesOnKeeps
<1>10. About(a)
  BY <1>2, <1>3, <1>6 DEF About
<1>11. Creds!Refers(a)' = Creds!Refers(a) /\ (Creds!Live(a) => Creds!Refers(a) = {"token", "refresh"})
  BY <1>2, <1>4, NamedIs, NamedNext DEF Rowed, Creds!Live
<1>12. LoginOK(a)' /\ MatchOK(a)'
  <2>1. login[a] = "over"
    BY <1>7 DEF LoginOK
  <2>2. LoginOK(a)'
    BY <1>2, <1>7, <2>1 DEF LoginOK
  <2>3. S # {} /\ a \notin leaky' => Creds!Live(a)
    BY <1>3, <1>8
  <2>. QED
    BY <1>2, <1>3, <1>6, <1>7, <1>11, <2>1, <2>2, <2>3 DEF MatchOK, Storing
<1>13. OwnersOK'
  BY <1>7, <1>10, <1>12, AboutIs
<1>14. DeleteInv'
  <2>1. ASSUME delete.of # None, delete.of \notin leaky'
        PROVE  Creds!Holds(delete.of)' \subseteq Creds!Holds(delete.of)
    <3>1. CASE delete.of # a
      BY <1>2, <1>6, <3>1
    <3>2. CASE delete.of = a
      <4>1. S = {}
        BY <1>3, <1>8, <2>1, <3>2
      <4>2. Creds!Holds(a)' = Creds!Holds(a)
        BY <1>6, <4>1
      <4>. QED
        BY <1>2, <3>2, <4>2
    <3>. QED
      BY <3>1, <3>2
  <2>. QED
    BY <1>2, <1>3, <2>1, DeleteSame DEF CredInv
<1>15. Creds!CredTypeOK'
  <2>1. keychain' \subseteq Creds!Owners \X Creds!Slots /\ leaky' \subseteq Creds!Owners
    BY <1>3, <1>5, <1>7 DEF CredInv, Creds!CredTypeOK
  <2>. QED
    BY <1>2, <1>9, <2>1 DEF CredInv, Creds!CredTypeOK, Askings
<1>. QED
  BY <1>9, <1>13, <1>14, <1>15 DEF CredInv

\* The row is renewed, or expires: what it names stays.
LEMMA RenewStep ==
    ASSUME CredInv, \/ \E a \in Accounts : Creds!Expire(a)
                    \/ \E t \in Askers : Creds!UpdateTokens(t)
    PROVE  CredInv'
<1>1. /\ acct \in [Accounts -> Creds!AccountRows] /\ asker \in [Askers -> Askings]
  BY DEF CredInv, Creds!CredTypeOK, Askings
<1>2. \E a \in Accounts, expired \in BOOLEAN : acct' = acct \/ acct' = [acct EXCEPT ![a].expired = expired]
  <2>1. ASSUME NEW a \in Accounts, Creds!Expire(a) PROVE acct' = [acct EXCEPT ![a].expired = TRUE]
    BY <2>1 DEF Creds!Expire
  <2>2. ASSUME NEW t \in Askers, Creds!UpdateTokens(t)
        PROVE  /\ asker[t].on \in Accounts
               /\ acct' = acct \/ acct' = [acct EXCEPT ![asker[t].on].expired = FALSE]
    <3>1. asker[t].on \in Accounts
      BY <2>2, AskerIs DEF Creds!UpdateTokens
    <3>2. acct' = acct \/ acct' = [acct EXCEPT ![asker[t].on] = Creds!Updated(acct[asker[t].on])]
      BY <2>2 DEF Creds!UpdateTokens
    <3>. QED
      BY <3>1, <3>2 DEF Creds!Updated
  <2>. QED
    BY <2>1, <2>2
<1>3. /\ acct' \in [Accounts -> Creds!AccountRows]
      /\ \A a \in Accounts : /\ acct'[a].st = acct[a].st /\ acct'[a].kind = acct[a].kind
                             /\ acct'[a].refresh = acct[a].refresh
  <2>1. PICK a \in Accounts, expired \in BOOLEAN :
          acct' = acct \/ acct' = [acct EXCEPT ![a].expired = expired]
    BY <1>2
  <2>2. PICK r : r = [acct[a] EXCEPT !.expired = expired]
    OBVIOUS
  <2>3. /\ r \in Creds!AccountRows
        /\ r.st = acct[a].st /\ r.kind = acct[a].kind /\ r.refresh = acct[a].refresh
    BY <1>1, <2>2 DEF Creds!AccountRows
  <2>4. acct' = acct \/ acct' = [acct EXCEPT ![a] = r]
    BY <1>1, <2>1, <2>2
  <2>. QED
    BY <1>1, <2>3, <2>4
<1>4. UNCHANGED <<srv, frozen, keychain, login, setter, delete, leaky, hollow, faults>>
  BY DEF Creds!Expire, Creds!UpdateTokens, Creds!Rest
<1>5. asker' = asker \/ \E t \in Askers : asker' = [asker EXCEPT ![t] = Creds!Idle]
  BY DEF Creds!Expire, Creds!UpdateTokens
<1>6. AskInv' /\ asker' \in [Askers -> Askings]
  <2>1. CASE asker' = asker
    BY <1>1, <1>3, <2>1, AskSame DEF CredInv
  <2>2. ASSUME NEW t \in Askers, asker' = [asker EXCEPT ![t] = Creds!Idle]
        PROVE  AskInv' /\ asker' \in [Askers -> Askings]
    <3>1. GoesOn(t)
      BY <2>2, GoesOnIs
    <3>. QED
      BY <1>3, <3>1, GoesOnKeeps
  <2>. QED
    BY <1>5, <2>1, <2>2
<1>7. \A y : Creds!Holds(y)' = Creds!Holds(y)
  BY <1>4, HoldsSame
<1>8. ASSUME NEW a \in Accounts
      PROVE  (Creds!Live(a)' <=> Creds!Live(a)) /\ Creds!Refers(a)' = Creds!Refers(a)
  <2>1. /\ acct'[a].st = acct[a].st /\ acct'[a].kind = acct[a].kind
        /\ acct'[a].refresh = acct[a].refresh
    BY <1>3
  <2>2. Creds!Live(a)' <=> Creds!Live(a)
    BY <2>1 DEF Creds!Live
  <2>3. /\ Creds!Refers(a) =
             IF ~ Creds!Live(a) THEN {}
             ELSE IF acct[a].kind = "apikey" THEN {"apikey"}
             ELSE IF acct[a].refresh THEN {"token", "refresh"} ELSE {"token"}
        /\ Creds!Refers(a)' =
             IF ~ Creds!Live(a)' THEN {}
             ELSE IF acct'[a].kind = "apikey" THEN {"apikey"}
             ELSE IF acct'[a].refresh THEN {"token", "refresh"} ELSE {"token"}
    BY NamedIs, NamedNext DEF Rowed
  <2>. QED
    BY <2>1, <2>2, <2>3
<1>9. \A s \in Servers : Creds!Refers(s)' = Creds!Refers(s)
  BY <1>4, NamedIs, NamedNext DEF Rowed
<1>10. OwnersOK'
  <2>1. \A a \in Accounts : LoginOK(a)'
    BY <1>3, <1>4, <1>7 DEF CredInv, OwnersOK, LoginOK
  <2>2. \A s \in Servers : BearerOK(s)'
    BY <1>4, <1>7 DEF CredInv, OwnersOK, BearerOK
  <2>3. \A x \in Creds!Owners : MatchOK(x)'
    BY <1>4, <1>7, <1>8, <1>9, OwnerIs DEF CredInv, OwnersOK, MatchOK, Storing
  <2>. QED
    BY <2>1, <2>2, <2>3 DEF OwnersOK
<1>11. DeleteInv'
  BY <1>3, <1>4, <1>7, DeleteSame DEF CredInv
<1>12. Creds!CredTypeOK'
  BY <1>3, <1>4, <1>6 DEF CredInv, Creds!CredTypeOK, Askings
<1>. QED
  BY <1>6, <1>10, <1>11, <1>12 DEF CredInv

\* What the invariant says of one server.
LEMMA ServerIs ==
    ASSUME CredInv, NEW s \in Servers
    PROVE  /\ srv[s].st \in {"live", "gone"} /\ setter[s] \in {"idle", "checked", "stored"}
           /\ BearerOK(s) /\ MatchOK(s) /\ s \in Creds!Owners /\ s \notin Accounts
           /\ Creds!Present(s) <=> srv[s].st = "live"
           /\ Creds!Refers(s) = IF srv[s].st = "live" /\ srv[s].ref THEN {"bearer"} ELSE {}
  BY OwnerIs, NamedIs DEF CredInv, Creds!CredTypeOK, OwnersOK, Creds!Present, Rowed

\* The check before a bearer is written, and the archiving of a project.
LEMMA CheckStep ==
    ASSUME CredInv, NEW s \in Servers, Creds!CheckServer(s) \/ Creds!Archive(s)
    PROVE  CredInv'
<1>1. /\ setter' = setter \/ setter' = [setter EXCEPT ![s] = "checked"]
      /\ frozen \subseteq Servers => frozen' \subseteq Servers
      /\ UNCHANGED <<acct, srv, keychain, login, asker, delete, leaky, hollow, faults>>
  BY DEF Creds!CheckServer, Creds!Archive, Creds!Else
<1>2. \A y : Creds!Holds(y)' = Creds!Holds(y)
  BY <1>1, HoldsSame
<1>3. /\ setter \in [Servers -> {"idle", "checked", "stored"}] /\ frozen \subseteq Servers
      /\ BearerOK(s) /\ MatchOK(s) /\ s \in Creds!Owners /\ s \notin Accounts
  BY ServerIs DEF CredInv, Creds!CredTypeOK
<1>4. setter'[s] = setter[s] \/ setter'[s] = "checked"
  BY <1>1, <1>3
<1>5. About(s)
  BY <1>1, <1>2, <1>3 DEF About
<1>6. Creds!Refers(s)' = Creds!Refers(s)
  BY <1>1, NamedIs, NamedNext DEF Rowed
<1>7. BearerOK(s)'
  BY <1>1, <1>2, <1>3, <1>4 DEF BearerOK
<1>8. MatchOK(s)'
  <2>1. CASE setter' = setter
    BY <1>1, <1>2, <1>3, <1>6, <2>1 DEF MatchOK, Storing
  <2>2. CASE Creds!CheckServer(s)
    <3>1. setter[s] = "idle"
      BY <2>2 DEF Creds!CheckServer
    <3>. QED
      BY <1>1, <1>2, <1>3, <1>6, <3>1 DEF MatchOK, Storing
  <2>. QED
    BY <2>1, <2>2 DEF Creds!Archive
<1>9. OwnersOK'
  BY <1>3, <1>5, <1>7, <1>8, AboutIs
<1>10. Creds!CredTypeOK'
  <2>1. setter' \in [Servers -> {"idle", "checked", "stored"}]
    BY <1>1, <1>3
  <2>. QED
    BY <1>1, <1>3, <2>1 DEF CredInv, Creds!CredTypeOK
<1>11. AskInv' /\ DeleteInv'
  BY <1>1, <1>2, AskSame, DeleteSame DEF CredInv
<1>. QED
  BY <1>9, <1>10, <1>11 DEF CredInv

\* The bearer is there before its row says so, or is written behind the back of a delete.
LEMMA StoreBearerStep ==
    ASSUME CredInv, NEW s \in Servers, Creds!StoreBearer(s)
    PROVE  CredInv'
<1>1. /\ setter[s] = "checked" /\ setter' = [setter EXCEPT ![s] = "stored"]
      /\ leaky' = IF Creds!Late(s) THEN leaky \cup {s} ELSE leaky
      /\ UNCHANGED <<acct, srv, frozen, login, asker, delete, hollow, faults>>
  BY DEF Creds!StoreBearer, Creds!Else
<1>2. keychain' = keychain \cup ({s} \X {"bearer"})
  <2>1. {s} \X {"bearer"} = {<<s, "bearer">>}
    OBVIOUS
  <2>. QED
    BY <2>1 DEF Creds!StoreBearer
<1>3. {"bearer"} \in SUBSET Creds!Slots
  BY DEF Creds!Slots
<1>4. /\ Creds!Holds(s)' = Creds!Holds(s) \cup {"bearer"}
      /\ \A y : y # s => Creds!Holds(y)' = Creds!Holds(y)
  BY <1>2, <1>3, HoldsAdd
<1>5. /\ setter \in [Servers -> {"idle", "checked", "stored"}]
      /\ srv[s].st \in {"live", "gone"}
      /\ BearerOK(s) /\ MatchOK(s) /\ s \in Creds!Owners /\ s \notin Accounts
      /\ Creds!Present(s) <=> srv[s].st = "live"
      /\ keychain \subseteq Creds!Owners \X Creds!Slots /\ leaky \subseteq Creds!Owners
  BY ServerIs DEF CredInv, Creds!CredTypeOK
<1>6. s \notin leaky' => s \notin leaky /\ srv[s].st = "live" /\ delete.of # s
  BY <1>1, <1>5 DEF Creds!Late
<1>7. setter'[s] = "stored" /\ \A u \in Servers : u # s => setter'[u] = setter[u]
  BY <1>1, <1>5
<1>8. About(s)
  BY <1>1, <1>4, <1>5, <1>7 DEF About
<1>9. Creds!Refers(s)' = Creds!Refers(s)
  BY <1>1, NamedIs, NamedNext DEF Rowed
<1>10. BearerOK(s)'
  BY <1>1, <1>4, <1>5, <1>6 DEF BearerOK
<1>11. MatchOK(s)'
  BY <1>1, <1>4, <1>5, <1>7, <1>9 DEF MatchOK, Storing
<1>12. OwnersOK'
  BY <1>5, <1>8, <1>10, <1>11, AboutIs
<1>13. Creds!CredTypeOK'
  <2>1. /\ setter' \in [Servers -> {"idle", "checked", "stored"}]
        /\ keychain' \subseteq Creds!Owners \X Creds!Slots /\ leaky' \subseteq Creds!Owners
    BY <1>1, <1>2, <1>3, <1>5
  <2>. QED
    BY <1>1, <2>1 DEF CredInv, Creds!CredTypeOK
<1>14. AskInv'
  BY <1>1, AskSame DEF CredInv
<1>15. DeleteInv'
  <2>1. ASSUME delete.of # None, delete.of \notin leaky'
        PROVE  Creds!Holds(delete.of)' \subseteq Creds!Holds(delete.of)
    BY <1>1, <1>4, <1>6, <2>1
  <2>. QED
    BY <1>1, <2>1, DeleteSame DEF CredInv
<1>. QED
  BY <1>12, <1>13, <1>14, <1>15 DEF CredInv

\* The row says that there is a bearer, if the server is still there.
LEMMA RecordStep ==
    ASSUME CredInv, NEW s \in Servers, Creds!RecordBearer(s)
    PROVE  CredInv'
<1>1. /\ setter[s] = "stored" /\ setter' = [setter EXCEPT ![s] = "idle"]
      /\ delete = Creds!Free
      /\ srv' = IF srv[s].st = "live" THEN [srv EXCEPT ![s].ref = TRUE] ELSE srv
      /\ UNCHANGED <<acct, frozen, keychain, login, asker, delete, leaky, hollow, faults>>
  BY DEF Creds!RecordBearer, Creds!Else, Creds!Unlocked
<1>2. \A y : Creds!Holds(y)' = Creds!Holds(y)
  BY <1>1, HoldsSame
<1>3. /\ setter \in [Servers -> {"idle", "checked", "stored"}]
      /\ srv \in [Servers -> [st : {"live", "gone"}, ref : BOOLEAN]]
      /\ srv[s].st \in {"live", "gone"}
      /\ BearerOK(s) /\ MatchOK(s) /\ s \in Creds!Owners /\ s \notin Accounts
      /\ Creds!Refers(s) = IF srv[s].st = "live" /\ srv[s].ref THEN {"bearer"} ELSE {}
  BY ServerIs DEF CredInv, Creds!CredTypeOK
<1>4. /\ srv' \in [Servers -> [st : {"live", "gone"}, ref : BOOLEAN]]
      /\ srv'[s].st = srv[s].st /\ (srv[s].st = "live" => srv'[s].ref)
      /\ \A u \in Servers : u # s => srv'[u] = srv[u]
  <2>1. CASE srv[s].st = "live"
    <3>1. PICK r : r = [srv[s] EXCEPT !.ref = TRUE]
      OBVIOUS
    <3>2. r \in [st : {"live", "gone"}, ref : BOOLEAN] /\ r.st = srv[s].st /\ r.ref
      BY <1>3, <3>1
    <3>3. srv' = [srv EXCEPT ![s] = r]
      BY <1>1, <1>3, <2>1, <3>1
    <3>. QED
      BY <1>3, <3>2, <3>3
  <2>2. CASE srv[s].st # "live"
    BY <1>1, <1>3, <2>2
  <2>. QED
    BY <2>1, <2>2
<1>5. /\ setter'[s] = "idle" /\ \A u \in Servers : u # s => setter'[u] = setter[u]
      /\ delete.of = None /\ s # None
  BY <1>1, <1>3, OwnerIs DEF Creds!Free
<1>6. About(s)
  BY <1>1, <1>2, <1>3, <1>4, <1>5 DEF About
<1>7. Creds!Refers(s)' = IF srv[s].st = "live" THEN {"bearer"} ELSE {}
  BY <1>4, NamedNext DEF Rowed
<1>8. BearerOK(s)'
  BY <1>1, <1>2, <1>3, <1>4, <1>5 DEF BearerOK
<1>9. MatchOK(s)'
  BY <1>1, <1>2, <1>3, <1>5, <1>7 DEF MatchOK, BearerOK
<1>10. OwnersOK'
  BY <1>3, <1>6, <1>8, <1>9, AboutIs
<1>11. Creds!CredTypeOK'
  <2>1. setter' \in [Servers -> {"idle", "checked", "stored"}]
    BY <1>1, <1>3
  <2>. QED
    BY <1>1, <1>4, <2>1 DEF CredInv, Creds!CredTypeOK
<1>12. AskInv'
  BY <1>1, AskSame DEF CredInv
<1>13. \A u \in Servers : srv'[u].st = srv[u].st
  BY <1>4
<1>14. DeleteInv'
  BY <1>1, <1>2, <1>13, DeleteSame DEF CredInv
<1>. QED
  BY <1>10, <1>11, <1>12, <1>14 DEF CredInv

\* What the invariant says of the owner a delete is about.
LEMMA DeletedIs ==
    ASSUME CredInv, delete # Creds!Free
    PROVE  /\ delete.of \in Creds!Owners /\ MatchOK(delete.of)
           /\ delete.of \in Accounts => /\ LoginOK(delete.of) /\ acct[delete.of].st = "live"
                                        /\ login[delete.of] = "over" /\ delete.of \notin Servers
           /\ delete.of \in Servers => BearerOK(delete.of) /\ srv[delete.of].st = "live"
           /\ delete.of \notin leaky => Creds!Holds(delete.of) \subseteq Left
           /\ delete.left \in Seq(Creds!Slots)
<1>1. delete \in [of : Creds!Owners \cup {None}, left : Seq(Creds!Slots)]
  BY DEF CredInv, DeleteInv
<1>2. delete.of # None
  <2>1. ASSUME delete.of = None PROVE FALSE
    <3>1. delete.left = <<>>
      BY <2>1 DEF CredInv, DeleteInv
    <3>2. delete = [of |-> None, left |-> <<>>]
      BY <1>1, <2>1, <3>1
    <3>. QED
      BY <3>2 DEF Creds!Free
  <2>. QED
    BY <2>1
<1>3. PICK x \in Creds!Owners : x = delete.of
  BY <1>1, <1>2
<1>4. /\ Creds!Present(x) /\ MatchOK(x)
      /\ x \notin leaky => Creds!Holds(x) \subseteq Left
  BY <1>2, <1>3 DEF CredInv, DeleteInv, OwnersOK
<1>5. CASE x \in Accounts
  <2>1. /\ x \notin Servers /\ LoginOK(x) /\ acct[x].st = "live"
        /\ login[x] \in {"new", "begun", "exchanging", "stored", "over"}
    BY <1>4, <1>5, AccountIs DEF Creds!Present, Creds!Live
  <2>. QED
    BY <1>1, <1>3, <1>4, <1>5, <2>1 DEF LoginOK
<1>6. CASE x \in Servers
  BY <1>1, <1>3, <1>4, <1>6, ServerIs
<1>. QED
  BY <1>3, <1>5, <1>6, OwnerIs

\* A delete begins: it has found every entry there is.
LEMMA DeleteBeginStep ==
    ASSUME CredInv, NEW x \in Creds!Owners, Creds!DeleteBegin(x)
    PROVE  CredInv'
<1>1. /\ delete = Creds!Free /\ Creds!Present(x)
      /\ delete' = [of |-> x, left |-> Creds!Visited(x)]
      /\ UNCHANGED <<acct, srv, frozen, keychain, login, asker, setter, leaky, hollow, faults>>
  BY DEF Creds!DeleteBegin, Creds!Unlocked
<1>2. /\ \A y : Creds!Holds(y)' = Creds!Holds(y)
      /\ delete.of = None /\ x # None
  BY <1>1, HoldsSame, OwnerIs DEF Creds!Free
<1>3. delete'.of = x /\ delete'.left = Creds!Visited(x)
  BY <1>1
<1>4. /\ Creds!Visited(x) \in Seq(Creds!Slots)
      /\ x \notin leaky => Creds!Holds(x) \subseteq {Creds!Visited(x)[i] : i \in DOMAIN Creds!Visited(x)}
  <2>1. CASE x \in Accounts
    <3>1. /\ x \notin Servers /\ LoginOK(x) /\ acct[x].st = "live" /\ MatchOK(x)
          /\ login[x] \in {"new", "begun", "exchanging", "stored", "over"}
      BY <1>1, <2>1, AccountIs DEF Creds!Present, Creds!Live
    <3>2. Creds!Visited(x) = Creds!Named(x) /\ Creds!Named(x) \in Seq(Creds!Slots)
      BY <2>1, <3>1, NamedIs DEF Creds!Visited, Rowed
    <3>3. x \notin leaky => Creds!Holds(x) \subseteq Creds!Refers(x)
      BY <3>1 DEF MatchOK, Storing, LoginOK
    <3>. QED
      BY <3>2, <3>3 DEF Creds!Refers
  <2>2. CASE x \in Servers
    <3>1. Creds!Visited(x) = <<"bearer">>
      BY <2>2 DEF Creds!Visited
    <3>2. Creds!Holds(x) \subseteq {"bearer"}
      BY <2>2, ServerIs DEF BearerOK
    <3>. QED
      BY <3>1, <3>2 DEF Creds!Slots
  <2>. QED
    BY <2>1, <2>2, OwnerIs
<1>5. About(x)
  BY <1>1, <1>2, <1>3 DEF About
<1>6. Creds!Refers(x)' = Creds!Refers(x)
  <2>1. CASE x \in Accounts
    BY <1>1, <2>1, NamedIs, NamedNext DEF Rowed, Creds!Live
  <2>2. CASE x \in Servers
    BY <1>1, <2>2, NamedIs, NamedNext DEF Rowed
  <2>. QED
    BY <2>1, <2>2, OwnerIs
<1>7. /\ x \in Accounts => LoginOK(x)'
      /\ x \in Servers => BearerOK(x)'
      /\ MatchOK(x)'
  <2>1. x \in Accounts => LoginOK(x)'
    BY <1>1, <1>2 DEF CredInv, OwnersOK, LoginOK
  <2>2. x \in Servers => BearerOK(x)'
    BY <1>1, <1>2, <1>3 DEF CredInv, OwnersOK, BearerOK
  <2>3. MatchOK(x)'
    BY <1>1, <1>2, <1>3, <1>6 DEF CredInv, OwnersOK, MatchOK, Storing
  <2>. QED
    BY <2>1, <2>2, <2>3
<1>8. OwnersOK'
  BY <1>5, <1>7, AboutIs
<1>9. AskInv'
  BY <1>1, AskSame DEF CredInv
<1>10. DeleteInv'
  <2>1. Creds!Present(x)'
    BY <1>1 DEF Creds!Present, Creds!Live
  <2>2. delete' \in [of : Creds!Owners \cup {None}, left : Seq(Creds!Slots)]
    BY <1>1, <1>4
  <2>3. Left' = {Creds!Visited(x)[i] : i \in DOMAIN Creds!Visited(x)}
    BY <1>3 DEF Left
  <2>4. x \notin leaky => Creds!Holds(x)' \subseteq Left'
    BY <1>1, <1>2, <1>3, <1>4, <2>3
  <2>. QED
    BY <1>1, <1>2, <1>3, <2>1, <2>2, <2>4 DEF DeleteInv
<1>11. Creds!CredTypeOK'
  BY <1>1, <1>3, <1>4 DEF CredInv, Creds!CredTypeOK
<1>. QED
  BY <1>8, <1>9, <1>10, <1>11 DEF CredInv

\* An entry goes, and with it the one the delete still had to visit.
LEMMA DeleteEntryStep ==
    ASSUME CredInv, Creds!DeleteEntry
    PROVE  CredInv'
<1>1. PICK x, slot, q : x = delete.of /\ slot = Head(delete.left) /\ q = Tail(delete.left)
  OBVIOUS
<1>2. /\ delete.left # <<>> /\ keychain' = keychain \ {<<x, slot>>}
      /\ delete' = [delete EXCEPT !.left = q]
      /\ UNCHANGED <<acct, srv, frozen, login, asker, setter, leaky, hollow, faults>>
  BY <1>1 DEF Creds!DeleteEntry
<1>3. delete # Creds!Free
  BY <1>2 DEF Creds!Free
<1>4. /\ x \in Creds!Owners /\ MatchOK(x)
      /\ x \in Accounts => LoginOK(x) /\ acct[x].st = "live" /\ login[x] = "over"
      /\ x \in Servers => BearerOK(x) /\ srv[x].st = "live"
      /\ x \notin leaky => Creds!Holds(x) \subseteq Left
      /\ delete.left \in Seq(Creds!Slots)
  BY <1>1, <1>3, DeletedIs
<1>5. /\ delete \in [of : Creds!Owners \cup {None}, left : Seq(Creds!Slots)]
      /\ x # None /\ Creds!Present(x)
  BY <1>1, <1>4, OwnerIs DEF CredInv, DeleteInv
<1>6. /\ q \in Seq(Creds!Slots)
      /\ \A i \in DOMAIN delete.left : delete.left[i] = slot \/ \E j \in DOMAIN q : delete.left[i] = q[j]
  <2>1. q \in Seq(Creds!Slots) /\ Len(q) = Len(delete.left) - 1
        /\ \A j \in 1..Len(q) : q[j] = delete.left[j + 1]
    BY <1>1, <1>2, <1>4, HeadTailProperties
  <2>2. ASSUME NEW i \in DOMAIN delete.left
        PROVE  delete.left[i] = slot \/ \E j \in DOMAIN q : delete.left[i] = q[j]
    <3>1. i \in 1..Len(delete.left)
      BY <1>4
    <3>2. CASE i = 1
      BY <1>1, <1>4, <3>2
    <3>3. CASE i # 1
      <4>1. i - 1 \in 1..Len(q) /\ (i - 1) + 1 = i
        BY <1>4, <2>1, <3>1, <3>3
      <4>2. q[i - 1] = delete.left[i]
        BY <2>1, <4>1
      <4>3. i - 1 \in DOMAIN q
        BY <2>1, <4>1
      <4>. QED
        BY <4>2, <4>3
    <3>. QED
      BY <3>2, <3>3
  <2>. QED
    BY <2>1, <2>2
<1>7. /\ delete'.of = x /\ delete'.left = q
      /\ delete' \in [of : Creds!Owners \cup {None}, left : Seq(Creds!Slots)]
  BY <1>1, <1>2, <1>5, <1>6
<1>8. /\ Creds!Holds(x)' = Creds!Holds(x) \ {slot}
      /\ \A y : y # x => Creds!Holds(y)' = Creds!Holds(y)
  BY <1>2, HoldsDrop
<1>9. Left \subseteq Left' \cup {slot}
  BY <1>6, <1>7 DEF Left
<1>10. About(x)
  BY <1>1, <1>2, <1>7, <1>8 DEF About
<1>11. Creds!Refers(x)' = Creds!Refers(x)
  <2>1. CASE x \in Accounts
    BY <1>2, <2>1, NamedIs, NamedNext DEF Rowed, Creds!Live
  <2>2. CASE x \in Servers
    BY <1>2, <2>2, NamedIs, NamedNext DEF Rowed
  <2>. QED
    BY <1>4, <2>1, <2>2, OwnerIs
<1>12. /\ x \in Accounts => LoginOK(x)'
       /\ x \in Servers => BearerOK(x)'
       /\ MatchOK(x)'
  <2>1. x \in Accounts => LoginOK(x)'
    BY <1>2, <1>4 DEF LoginOK
  <2>2. x \in Servers => BearerOK(x)'
    BY <1>2, <1>4, <1>7, <1>8 DEF BearerOK
  <2>3. MatchOK(x)'
    BY <1>2, <1>4, <1>7, <1>8, <1>11 DEF MatchOK, Storing
  <2>. QED
    BY <2>1, <2>2, <2>3
<1>13. OwnersOK'
  BY <1>4, <1>10, <1>12, AboutIs
<1>14. AskInv'
  BY <1>2, AskSame DEF CredInv
<1>15. DeleteInv'
  <2>1. Creds!Present(x)'
    BY <1>2, <1>5 DEF Creds!Present, Creds!Live
  <2>2. x \notin leaky => Creds!Holds(x)' \subseteq Left'
    BY <1>4, <1>8, <1>9
  <2>. QED
    BY <1>2, <1>5, <1>7, <2>1, <2>2 DEF DeleteInv
<1>16. Creds!CredTypeOK'
  <2>1. keychain' \subseteq Creds!Owners \X Creds!Slots
    BY <1>2 DEF CredInv, Creds!CredTypeOK
  <2>. QED
    BY <1>2, <1>4, <1>6, <1>7, <2>1 DEF CredInv, Creds!CredTypeOK
<1>. QED
  BY <1>13, <1>14, <1>15, <1>16 DEF CredInv

\* Nobody deletes.
LEMMA FreeIs == ASSUME delete' = Creds!Free PROVE DeleteInv' /\ delete'.of = None /\ delete'.left = <<>>
  BY DEF DeleteInv, Creds!Free

\* The row goes, once its entries have.
LEMMA DeleteRowStep ==
    ASSUME CredInv, Creds!DeleteRow
    PROVE  CredInv'
<1>1. PICK x : x = delete.of
  OBVIOUS
<1>2. /\ delete # Creds!Free /\ delete.left = <<>> /\ delete' = Creds!Free
      /\ UNCHANGED <<frozen, keychain, login, asker, setter, leaky, hollow, faults>>
  BY DEF Creds!DeleteRow, Creds!Unlocked
<1>3. /\ x \in Creds!Owners /\ MatchOK(x)
      /\ x \in Accounts => /\ LoginOK(x) /\ acct[x].st = "live" /\ login[x] = "over" /\ x \notin Servers
      /\ x \in Servers => BearerOK(x) /\ srv[x].st = "live"
      /\ x \notin leaky => Creds!Holds(x) \subseteq Left
  BY <1>1, <1>2, DeletedIs
<1>4. Left = {}
  BY <1>2 DEF Left
<1>5. delete'.of = None /\ delete'.left = <<>> /\ DeleteInv'
  BY <1>2, FreeIs
<1>6. \A y : Creds!Holds(y)' = Creds!Holds(y)
  BY <1>2, HoldsSame
<1>7. /\ acct \in [Accounts -> Creds!AccountRows]
      /\ srv \in [Servers -> [st : {"live", "gone"}, ref : BOOLEAN]]
  BY DEF CredInv, Creds!CredTypeOK
<1>8. CASE x \in Servers
  <2>1. PICK r : r = [st |-> "gone", ref |-> FALSE]
    OBVIOUS
  <2>2. srv' = [srv EXCEPT ![x] = r] /\ acct' = acct
    BY <1>1, <1>8, <2>1 DEF Creds!DeleteRow
  <2>3. r \in [st : {"live", "gone"}, ref : BOOLEAN] /\ r.st = "gone" /\ r.ref = FALSE
    BY <2>1
  <2>4. /\ srv' \in [Servers -> [st : {"live", "gone"}, ref : BOOLEAN]]
        /\ srv'[x] = r /\ \A u \in Servers : u # x => srv'[u] = srv[u]
    BY <1>7, <1>8, <2>2, <2>3
  <2>5. About(x)
    BY <1>1, <1>2, <1>5, <1>6, <2>2, <2>4 DEF About
  <2>6. Creds!Refers(x)' = {}
    BY <1>8, <2>3, <2>4, NamedNext DEF Rowed
  <2>7. BearerOK(x)'
    BY <1>2, <1>3, <1>4, <1>6, <1>8, <2>3, <2>4 DEF BearerOK
  <2>8. MatchOK(x)'
    BY <1>2, <1>3, <1>4, <1>6, <2>6 DEF MatchOK
  <2>9. OwnersOK'
    BY <1>3, <1>8, <2>5, <2>7, <2>8, AboutIs, OwnerIs
  <2>10. AskInv'
    BY <1>2, <2>2, AskSame DEF CredInv
  <2>11. Creds!CredTypeOK'
    BY <1>2, <1>5, <2>2, <2>4 DEF CredInv, Creds!CredTypeOK
  <2>. QED
    BY <1>5, <2>9, <2>10, <2>11 DEF CredInv
<1>9. CASE x \in Accounts
  <2>1. PICK r : r = [Creds!NoAccount EXCEPT !.st = "gone"]
    OBVIOUS
  <2>2. acct' = [acct EXCEPT ![x] = r] /\ srv' = srv
    BY <1>1, <1>3, <1>9, <2>1 DEF Creds!DeleteRow
  <2>3. r \in Creds!AccountRows /\ r.st = "gone" /\ r.refresh = FALSE
    BY <2>1 DEF Creds!NoAccount, Creds!AccountRows
  <2>4. /\ acct' \in [Accounts -> Creds!AccountRows]
        /\ acct'[x] = r /\ \A u \in Accounts : u # x => acct'[u] = acct[u]
    BY <1>7, <1>9, <2>2, <2>3
  <2>5. About(x)
    BY <1>1, <1>2, <1>5, <1>6, <2>2, <2>4 DEF About
  <2>6. Creds!Refers(x)' = {}
    BY <1>9, <2>3, <2>4, NamedNext DEF Rowed, Creds!Live
  <2>7. LoginOK(x)'
    BY <1>2, <1>3, <1>9, <2>3, <2>4 DEF LoginOK
  <2>8. MatchOK(x)'
    BY <1>2, <1>3, <1>4, <1>6, <2>6 DEF MatchOK
  <2>9. OwnersOK'
    BY <1>3, <1>9, <2>5, <2>7, <2>8, AboutIs
  <2>10. AskInv'
    <3>1. ASSUME NEW t \in Askers, asker'[t].pc # "idle"
          PROVE  /\ asker'[t].on \in Accounts /\ acct'[asker'[t].on].st # "none"
                 /\ acct'[asker'[t].on].st = "live" => acct'[asker'[t].on].refresh
      <4>1. PICK a \in Accounts : /\ a = asker'[t].on /\ acct[a].st # "none"
                                  /\ acct[a].st = "live" => acct[a].refresh
        BY <1>2, <3>1 DEF CredInv, AskInv, Creds!Live
      <4>2. CASE a = x
        BY <2>3, <2>4, <4>1, <4>2
      <4>3. CASE a # x
        BY <2>4, <4>1, <4>3
      <4>. QED
        BY <4>2, <4>3
    <3>. QED
      BY <3>1 DEF AskInv, Creds!Live
  <2>11. Creds!CredTypeOK'
    BY <1>2, <1>5, <2>2, <2>4 DEF CredInv, Creds!CredTypeOK
  <2>. QED
    BY <1>5, <2>9, <2>10, <2>11 DEF CredInv
<1>. QED
  BY <1>3, <1>8, <1>9, OwnerIs

\* A delete is refused or cut short: its row may name an entry that is gone.
LEMMA DeleteCutStep ==
    ASSUME CredInv, Creds!DeleteRefused \/ Creds!DeleteFails
    PROVE  CredInv'
<1>1. PICK x : x = delete.of
  OBVIOUS
<1>2. /\ delete # Creds!Free /\ delete' = Creds!Free /\ hollow' = hollow \cup {x}
      /\ faults' = faults \/ (faults < MaxFaults /\ faults' = faults + 1)
      /\ UNCHANGED <<acct, srv, frozen, keychain, login, asker, setter, leaky>>
  BY <1>1 DEF Creds!DeleteRefused, Creds!DeleteFails, Creds!Unlocked
<1>3. x \in Creds!Owners
  BY <1>1, <1>2, DeletedIs
<1>4. delete'.of = None /\ delete'.left = <<>> /\ DeleteInv'
  BY <1>2, FreeIs
<1>5. \A y : Creds!Holds(y)' = Creds!Holds(y)
  BY <1>2, HoldsSame
<1>6. About(x)
  BY <1>1, <1>2, <1>4, <1>5 DEF About
<1>7. /\ x \in Accounts => LoginOK(x)'
      /\ x \in Servers => BearerOK(x)'
      /\ MatchOK(x)'
  <2>1. x \in Accounts => LoginOK(x)'
    BY <1>2, <1>5 DEF CredInv, OwnersOK, LoginOK
  <2>2. x \in Servers => BearerOK(x)'
    BY <1>2, <1>5 DEF CredInv, OwnersOK, BearerOK
  <2>3. Creds!Refers(x)' = Creds!Refers(x)
    <3>1. CASE x \in Accounts
      BY <1>2, <3>1, NamedIs, NamedNext DEF Rowed, Creds!Live
    <3>2. CASE x \in Servers
      BY <1>2, <3>2, NamedIs, NamedNext DEF Rowed
    <3>. QED
      BY <1>3, <3>1, <3>2, OwnerIs
  <2>4. MatchOK(x)'
    BY <1>2, <1>3, <1>5, <2>3 DEF CredInv, OwnersOK, MatchOK, Storing
  <2>. QED
    BY <2>1, <2>2, <2>4
<1>8. OwnersOK'
  BY <1>3, <1>6, <1>7, AboutIs
<1>9. AskInv'
  BY <1>2, AskSame DEF CredInv
<1>10. Creds!CredTypeOK'
  <2>1. hollow' \subseteq Creds!Owners /\ faults' \in 0..MaxFaults
    BY <1>2, <1>3, FaultsAssumption DEF CredInv, Creds!CredTypeOK
  <2>. QED
    BY <1>2, <1>4, <2>1 DEF CredInv, Creds!CredTypeOK
<1>. QED
  BY <1>4, <1>8, <1>9, <1>10 DEF CredInv

\* The daemon dies, and says of whom it leaves entries, and whose row it leaves hollow.
LEMMA CredCrashStep ==
    ASSUME CredInv, Creds!Crash
    PROVE  CredInv'
<1>1. /\ faults < MaxFaults /\ faults' = faults + 1
      /\ leaky' = leaky \cup {a \in Accounts : login[a] = "stored"}
                        \cup {s \in Servers : setter[s] = "stored"}
      /\ hollow' = IF delete = Creds!Free THEN hollow ELSE hollow \cup {delete.of}
      /\ login' = [a \in Accounts |-> IF login[a] = "new" THEN "new" ELSE "over"]
      /\ asker' = [t \in Askers |-> Creds!Idle] /\ setter' = [s \in Servers |-> "idle"]
      /\ delete' = Creds!Free
      /\ UNCHANGED <<acct, srv, frozen, keychain>>
  BY DEF Creds!Crash, Creds!Unlocked
<1>2. \A y : Creds!Holds(y)' = Creds!Holds(y)
  BY <1>1, HoldsSame
<1>3. delete'.of = None /\ delete'.left = <<>> /\ DeleteInv'
  BY <1>1, FreeIs
<1>4. /\ \A a \in Accounts : Creds!Refers(a)' = Creds!Refers(a)
      /\ \A s \in Servers : Creds!Refers(s)' = Creds!Refers(s)
  BY <1>1, NamedIs, NamedNext DEF Rowed, Creds!Live
<1>5. \A x \in Creds!Owners : x \notin hollow' => x \notin hollow /\ delete.of # x
  BY <1>1, OwnerIs DEF Creds!Free
<1>6. ASSUME NEW a \in Accounts PROVE LoginOK(a)'
  BY <1>1, <1>2 DEF CredInv, OwnersOK, LoginOK
<1>7. ASSUME NEW s \in Servers PROVE BearerOK(s)'
  BY <1>1, <1>2 DEF CredInv, OwnersOK, BearerOK
<1>8. ASSUME NEW x \in Creds!Owners PROVE MatchOK(x)'
  <2>1. x \notin leaky' => x \notin leaky /\ ~ Storing(x)
    BY <1>1, OwnerIs DEF Storing
  <2>2. Creds!Refers(x)' = Creds!Refers(x)
    BY <1>4, OwnerIs
  <2>. QED
    BY <1>2, <1>5, <2>1, <2>2 DEF CredInv, OwnersOK, MatchOK
<1>9. OwnersOK'
  BY <1>6, <1>7, <1>8 DEF OwnersOK
<1>10. PICK idle : idle = Creds!Idle
  OBVIOUS
<1>11. idle.pc = "idle" /\ idle \in Askings
  BY <1>10 DEF Creds!Idle, Askings
<1>12. asker' \in [Askers -> Askings] /\ \A t \in Askers : asker'[t] = idle
  BY <1>1, <1>10, <1>11
<1>13. AskInv'
  BY <1>11, <1>12 DEF AskInv
<1>14. Creds!CredTypeOK'
  <2>1. /\ leaky' \subseteq Creds!Owners /\ hollow' \subseteq Creds!Owners
        /\ faults' \in 0..MaxFaults
    <3>1. leaky' \subseteq Creds!Owners
      BY <1>1, OwnerIs DEF CredInv, Creds!CredTypeOK
    <3>2. hollow' \subseteq Creds!Owners
      BY <1>1, DeletedIs DEF CredInv, Creds!CredTypeOK
    <3>. QED
      BY <1>1, <3>1, <3>2, FaultsAssumption DEF CredInv, Creds!CredTypeOK
  <2>2. /\ login' \in [Accounts -> {"new", "begun", "exchanging", "stored", "over"}]
        /\ setter' \in [Servers -> {"idle", "checked", "stored"}]
    BY <1>1
  <2>. QED
    BY <1>1, <1>3, <1>12, <2>1, <2>2 DEF CredInv, Creds!CredTypeOK, Askings
<1>. QED
  BY <1>3, <1>9, <1>13, <1>14 DEF CredInv

----------------------------------------------------------------------------

\* Nothing is stored at the start, and no row names anything.
LEMMA CredStart == ASSUME Creds!CredInit PROVE CredInv
<1>1. /\ acct = [a \in Accounts |-> Creds!NoAccount]
      /\ srv = [s \in Servers |-> [st |-> "live", ref |-> FALSE]]
      /\ frozen \in SUBSET Servers /\ keychain = {}
      /\ login = [a \in Accounts |-> "new"]
      /\ asker = [t \in Askers |-> Creds!Idle] /\ setter = [s \in Servers |-> "idle"]
      /\ delete = Creds!Free /\ leaky = {} /\ hollow = {} /\ faults = 0
  BY DEF Creds!CredInit
<1>2. \A y : Creds!Holds(y) = {}
  BY <1>1 DEF Creds!Holds
<1>3. delete.of = None /\ delete.left = <<>> /\ DeleteInv
  BY <1>1 DEF DeleteInv, Creds!Free
<1>4. PICK r, idle, w : r = Creds!NoAccount /\ idle = Creds!Idle /\ w = [st |-> "live", ref |-> FALSE]
  OBVIOUS
<1>5. /\ r \in Creds!AccountRows /\ r.st = "none" /\ r.refresh = FALSE
      /\ idle \in Askings /\ idle.pc = "idle"
      /\ w \in [st : {"live", "gone"}, ref : BOOLEAN] /\ w.st = "live" /\ w.ref = FALSE
  BY <1>4 DEF Creds!NoAccount, Creds!Idle, Creds!AccountRows, Askings
<1>6. /\ acct \in [Accounts -> Creds!AccountRows] /\ \A a \in Accounts : acct[a] = r
      /\ srv \in [Servers -> [st : {"live", "gone"}, ref : BOOLEAN]] /\ \A s \in Servers : srv[s] = w
      /\ asker \in [Askers -> Askings] /\ \A t \in Askers : asker[t] = idle
  BY <1>1, <1>4, <1>5
<1>7. \A x \in Creds!Owners : Creds!Refers(x) = {}
  BY <1>5, <1>6, NamedIs, OwnerIs DEF Rowed, Creds!Live
<1>8. OwnersOK
  <2>1. \A a \in Accounts : LoginOK(a)
    BY <1>1, <1>2, <1>5, <1>6 DEF LoginOK
  <2>2. \A s \in Servers : BearerOK(s)
    BY <1>1, <1>2 DEF BearerOK
  <2>3. \A x \in Creds!Owners : MatchOK(x)
    BY <1>2, <1>7 DEF MatchOK
  <2>. QED
    BY <2>1, <2>2, <2>3 DEF OwnersOK
<1>9. AskInv
  BY <1>5, <1>6 DEF AskInv
<1>10. Creds!CredTypeOK
  <2>1. /\ login \in [Accounts -> {"new", "begun", "exchanging", "stored", "over"}]
        /\ setter \in [Servers -> {"idle", "checked", "stored"}]
        /\ faults \in 0..MaxFaults
    BY <1>1, FaultsAssumption
  <2>. QED
    BY <1>1, <1>3, <1>6, <2>1 DEF Creds!CredTypeOK, Askings
<1>. QED
  BY <1>3, <1>8, <1>9, <1>10 DEF CredInv

\* Every step keeps the invariant.
LEMMA CredStep == ASSUME CredInv, Creds!CredNext PROVE CredInv'
<1>1. ASSUME NEW a \in Accounts,
             \/ Creds!BeginOAuth(a) \/ Creds!CompleteOAuth(a) \/ Creds!ExchangeFails(a)
             \/ Creds!InsertAccount(a) \/ Creds!AddApiKey(a) \/ Creds!Expire(a)
      PROVE  CredInv'
  BY <1>1, LoginStep, InsertStep, RenewStep
<1>2. ASSUME NEW a \in Accounts, NEW slots \in {{"token"}, {"token", "refresh"}}, Creds!StoreTokens(a, slots)
      PROVE  CredInv'
  BY <1>2, TokensStep
<1>3. ASSUME NEW a \in Accounts, NEW slots \in {{}, {"token"}, {"token", "refresh"}, {"apikey"}},
             Creds!AddFails(a, slots)
      PROVE  CredInv'
  BY <1>3, AddFailsStep
<1>4. ASSUME NEW t \in Askers, NEW a \in Accounts, Creds!ReadAccount(t, a) PROVE CredInv'
  BY <1>4, ReadAccountStep
<1>5. ASSUME NEW t \in Askers,
             Creds!ReadRefresh(t) \/ Creds!RefreshFails(t) \/ Creds!StoreAccess(t) \/ Creds!UpdateTokens(t)
      PROVE  CredInv'
  BY <1>5, ReadStep, RefreshStep, RenewStep
<1>6. ASSUME NEW t \in Askers, NEW rotated \in BOOLEAN, Creds!StoreRefresh(t, rotated) PROVE CredInv'
  BY <1>6, RefreshStep
<1>7. ASSUME NEW s \in Servers,
             Creds!CheckServer(s) \/ Creds!StoreBearer(s) \/ Creds!RecordBearer(s) \/ Creds!Archive(s)
      PROVE  CredInv'
  BY <1>7, CheckStep, StoreBearerStep, RecordStep
<1>8. ASSUME NEW x \in Creds!Owners, Creds!DeleteBegin(x) PROVE CredInv'
  BY <1>8, DeleteBeginStep
<1>9. ASSUME Creds!DeleteEntry \/ Creds!DeleteRow \/ Creds!DeleteRefused \/ Creds!DeleteFails \/ Creds!Crash
      PROVE  CredInv'
  BY <1>9, DeleteEntryStep, DeleteRowStep, DeleteCutStep, CredCrashStep
<1>. QED
  BY <1>1, <1>2, <1>3, <1>4, <1>5, <1>6, <1>7, <1>8, <1>9 DEF Creds!CredNext

\* The Keychain and the rows agree on an owner nobody is at work on.
LEMMA CredMatch == ASSUME CredInv PROVE Creds!SecretsMatchRows
  BY DEF CredInv, OwnersOK, MatchOK, Storing, Creds!SecretsMatchRows, Creds!Settled

----------------------------------------------------------------------------
(* The gate *)

USE CallsAssumption, RowsAssumption, VerbsAssumption

\* A call past its queue holds the lock it queued for; only a tool or a
\* connector call queues, and only a research run is spawned.
Holders ==
    \A c \in Calls :
      /\ call[c].pc = "queued" => call[c].key \in Keys
      /\ call[c].pc = "spawned" => call[c].kind = "research" /\ call[c].key \notin Keys
      /\ call[c].pc \in {"queued", "gate", "dialing"} /\ call[c].key \in Keys =>
           /\ call[c].kind \in {"tool", "connector"}
           /\ call[c].pc # "queued" => lock[call[c].key] = c

\* Only a research run has a row in research_run, and one that is active is
\* being driven.
Driven ==
    \A c \in Calls :
      run[c] \in {"pending", "running"} => call[c].pc \in Busy /\ call[c].kind = "research"

\* The policy a call was judged by has the call in its scope.
Scoped == \A c \in Calls, k \in Keys : call[c].gov = k => InScope(k, c)

GateInv == GateTypeOK /\ LockServes /\ Holders /\ Driven /\ Scoped

----------------------------------------------------------------------------
(* Types *)

\* A policy has a key, if there is one.
LEMMA PolicyType ==
    ASSUME NEW x \in Servers \cup Accounts, NEW p \in Homes
    PROVE  Policy(x, p) \in Keys \cup {None}
BY DEF Policy, Keys, Homes

\* Each update of a call gives a call.
LEMMA AttemptType ==
    ASSUME GateTypeOK, NEW c \in Calls
    PROVE  /\ call[c] \in Attempts
           /\ \A pc \in Busy \cup {"new", "over"} :
                /\ [call EXCEPT ![c].pc = pc] \in [Calls -> Attempts]
                /\ \A gov \in Keys \cup {None} :
                     [call EXCEPT ![c].pc = pc, ![c].gov = gov] \in [Calls -> Attempts]
           /\ [call EXCEPT ![c].aged = TRUE] \in [Calls -> Attempts]
<1>1. call \in [Calls -> Attempts] BY DEF GateTypeOK
<1>2. \A a \in Attempts, pc \in Busy \cup {"new", "over"}, gov \in Keys \cup {None} :
        /\ [a EXCEPT !.pc = pc] \in Attempts /\ [a EXCEPT !.gov = gov] \in Attempts
        /\ [a EXCEPT !.aged = TRUE] \in Attempts
  BY DEF Attempts
<1>3. ASSUME NEW pc \in Busy \cup {"new", "over"}, NEW gov \in Keys \cup {None}
      PROVE  [call EXCEPT ![c].pc = pc, ![c].gov = gov] \in [Calls -> Attempts]
  <2>1. [call[c] EXCEPT !.pc = pc] \in Attempts BY <1>1, <1>2
  <2> DEFINE judged == [[call[c] EXCEPT !.pc = pc] EXCEPT !.gov = gov]
  <2>2. judged \in Attempts BY <1>2, <2>1
  <2>3. [call EXCEPT ![c].pc = pc, ![c].gov = gov] = [call EXCEPT ![c] = judged] BY <1>1
  <2> HIDE DEF judged
  <2> QED BY <1>1, <2>2, <2>3
<1> QED BY <1>1, <1>2, <1>3

\* A call that moves on.
LEMMA MoveType ==
    ASSUME GateTypeOK, NEW c \in Calls, NEW pc \in Busy \cup {"new", "over"}, Move(c, pc)
    PROVE  call' \in [Calls -> Attempts]
BY AttemptType DEF Move

\* A call that begins.
LEMMA BeginType ==
    ASSUME GateTypeOK, NEW c \in Calls, NEW pc \in {"queued", "gate", "spawned"},
           NEW kind \in {"tool", "connector", "connect", "research"},
           NEW x \in Servers \cup Accounts, NEW p \in Homes, NEW i \in Ideas \cup {None},
           NEW key \in Keys \cup {None}, Begin(c, pc, kind, x, p, i, key)
    PROVE  call' \in [Calls -> Attempts]
<1>1. [NoCall EXCEPT !.pc = pc, !.kind = kind, !.on = x, !.project = p, !.idea = i, !.key = key]
        \in Attempts
  BY DEF NoCall, Attempts, Busy, Homes
<1> QED BY <1>1 DEF Begin, GateTypeOK

\* Letting a lock go.
LEMMA ReleasedType ==
    ASSUME GateTypeOK, NEW c \in Calls
    PROVE  Released(c) \in [Keys -> Calls \cup {None}]
BY DEF GateTypeOK, Released

\* The calls of a daemon that died.
LEMMA LostType ==
    ASSUME GateTypeOK
    PROVE  [c \in Calls |-> Lost(c)] \in [Calls -> Attempts]
<1>1. ASSUME NEW c \in Calls PROVE Lost(c) \in Attempts
  <2>1. call[c] \in Attempts BY DEF GateTypeOK
  <2> QED BY <2>1 DEF Lost, Attempts
<1> QED BY <1>1

\* The owner's verbs.
LEMMA VerbTypes ==
    ASSUME GateTypeOK, OwnerVerb
    PROVE  GateTypeOK'
<1>1. ASSUME NEW s \in Servers, NEW new \in ServerRows, WriteServer(s, new) PROVE GateTypeOK'
  BY <1>1 DEF WriteServer, Verb, GateTypeOK
<1>2. ASSUME NEW s \in Servers, ServerVerb(s) PROVE GateTypeOK'
  <2>0. server[s] \in ServerRows BY DEF GateTypeOK
  <2>1. CASE SetServerEnabled(s)
    <3>1. [server[s] EXCEPT !.enabled = ~@] \in ServerRows BY <2>0 DEF ServerRows
    <3> QED BY <1>1, <2>1, <3>1 DEF SetServerEnabled
  <2>2. CASE SetToolEnabled(s)
    <3>1. [server[s] EXCEPT !.tool = IF @ = "on" THEN "off" ELSE "on"] \in ServerRows
      BY <2>0 DEF ServerRows
    <3> QED BY <1>1, <2>2, <3>1 DEF SetToolEnabled
  <2>3. CASE GrantConsent(s)
    <3>1. [server[s] EXCEPT !.consent = server[s].target] \in ServerRows BY <2>0 DEF ServerRows
    <3> QED BY <1>1, <2>3, <3>1 DEF GrantConsent
  <2>4. CASE RevokeConsent(s)
    <3>1. [server[s] EXCEPT !.consent = None] \in ServerRows BY <2>0 DEF ServerRows
    <3> QED BY <1>1, <2>4, <3>1 DEF RevokeConsent
  <2>5. CASE DeleteServer(s)
    <3>1. [NoServer EXCEPT !.st = "gone"] \in ServerRows BY DEF NoServer, ServerRows, Homes
    <3> QED BY <2>5, <3>1 DEF DeleteServer, Verb, GateTypeOK
  <2>6. ASSUME NEW t \in Targets, UpdateServer(s, t) \/ ReplaceBinary(s, t) PROVE GateTypeOK'
    <3>1. /\ [server[s] EXCEPT !.target = t, !.consent = None] \in ServerRows
          /\ [server[s] EXCEPT !.target = t] \in ServerRows
      BY <2>0 DEF ServerRows
    <3> QED BY <1>1, <2>6, <3>1 DEF UpdateServer, ReplaceBinary
  <2>7. ASSUME NEW t \in Targets, NEW p \in Homes, AddServer(s, p, t) PROVE GateTypeOK'
    <3>1. Added(p, t) \in ServerRows BY DEF Added, NoServer, ServerRows, Homes
    <3> QED BY <1>1, <2>7, <3>1 DEF AddServer
  <2> QED BY <1>2, <2>1, <2>2, <2>3, <2>4, <2>5, <2>6, <2>7 DEF ServerVerb
<1>3. ASSUME NEW a \in Accounts, AddAccount(a) \/ DeleteAccount(a) PROVE GateTypeOK'
  BY <1>3 DEF AddAccount, DeleteAccount, Verb, GateTypeOK
<1>4. ASSUME NEW k \in Keys, NEW r \in Rows, SetPolicy(k, r) PROVE GateTypeOK'
  BY <1>4 DEF SetPolicy, Verb, GateTypeOK
<1>5. ASSUME NEW i \in Ideas, DeleteIdea(i) PROVE GateTypeOK'
  BY <1>5 DEF DeleteIdea, Verb, GateTypeOK
<1>6. ASSUME NEW p \in Projects, SetArchived(p) PROVE GateTypeOK'
  BY <1>6 DEF SetArchived, Verb, GateTypeOK
<1> QED BY <1>2, <1>3, <1>4, <1>5, <1>6 DEF OwnerVerb

\* A step of an attempt.
LEMMA ArriveTypes ==
    ASSUME GateTypeOK, NEW c \in Calls, Arrive(c)
    PROVE  GateTypeOK'
<1>1. ASSUME NEW x \in Servers \cup Accounts, NEW p \in Homes, Attempt(c, x, p) PROVE GateTypeOK'
  <2> DEFINE pc == IF Policy(x, p) = None THEN "gate" ELSE "queued"
             kind == IF x \in Servers THEN "tool" ELSE "connector"
  <2>1. Begin(c, pc, kind, x, p, None, Policy(x, p)) /\ UNCHANGED <<idea, run>>
    BY <1>1 DEF Attempt
  <2>2. pc \in {"queued", "gate", "spawned"} /\ kind \in {"tool", "connector", "connect", "research"}
    OBVIOUS
  <2>3. call' \in [Calls -> Attempts]
    <3> HIDE DEF pc, kind
    <3> QED BY <2>1, <2>2, BeginType, PolicyType
  <2> QED BY <2>1, <2>3 DEF Begin, Store, GateTypeOK
<1>2. ASSUME NEW s \in Servers, Connect(c, s) PROVE GateTypeOK'
  <2>1. call' \in [Calls -> Attempts] BY <1>2, BeginType DEF Connect, Homes
  <2> QED BY <1>2, <2>1 DEF Connect, Begin, Store, GateTypeOK
<1>3. ASSUME NEW s \in Servers, NEW p \in Homes, NEW i \in Ideas, StartRun(c, s, p, i)
      PROVE  GateTypeOK'
  <2>1. call' \in [Calls -> Attempts] BY <1>3, BeginType DEF StartRun
  <2> QED BY <1>3, <2>1 DEF StartRun, Begin, Store, GateTypeOK
<1> QED BY <1>1, <1>2, <1>3 DEF Arrive

\* A call goes through the gate, dials and returns.
LEMMA CallTypes ==
    ASSUME GateTypeOK, NEW c \in Calls,
           SetRunning(c) \/ AcquireLock(c) \/ Gate(c) \/ Return(c) \/ Settle(c) \/ Age(c)
    PROVE  GateTypeOK'
<1> USE AttemptType, ReleasedType DEF Move, Store, Busy
<1>1. CASE SetRunning(c)
  <2>1. call' \in [Calls -> Attempts]
    <3>1. Move(c, "over") \/ Move(c, "gate") BY <1>1 DEF SetRunning
    <3> QED BY <3>1, MoveType
  <2>2. run' \in [Calls -> {"none", "pending", "running", "done", "failed"}]
    BY <1>1 DEF SetRunning, GateTypeOK
  <2> QED BY <1>1, <2>1, <2>2 DEF SetRunning, GateTypeOK
<1>2. CASE AcquireLock(c) BY <1>2 DEF AcquireLock, GateTypeOK
<1>3. CASE Admit(c)
  <2> DEFINE gov == IF call[c].kind = "connect" THEN None
                    ELSE Policy(call[c].on, call[c].project)
  <2>1. gov \in Keys \cup {None}
    <3>1. call[c].project \in Homes BY DEF Attempts
    <3>2. call[c].on \in Servers \cup Accounts \cup {None} BY DEF Attempts
    <3> QED BY <3>1, <3>2 DEF Policy, Keys, Homes
  <2>2. call' = [call EXCEPT ![c].pc = "dialing", ![c].gov = gov] BY <1>3 DEF Admit
  <2>3. call' \in [Calls -> Attempts]
    <3> HIDE DEF gov
    <3> QED BY <2>1, <2>2
  <2> QED BY <1>3, <2>3 DEF Admit, GateTypeOK
<1>4. CASE Refuse(c) BY <1>4 DEF Refuse, Ended, GateTypeOK
<1>5. CASE Settle(c) BY <1>5 DEF Settle, GateTypeOK
<1>6. CASE Age(c) BY <1>6 DEF Age, GateTypeOK
<1>7. ASSUME NEW outcome \in {"finishing", "failing"}, NEW cost \in {"free", "paid"},
             Record(c, outcome, cost)
      PROVE  GateTypeOK'
  BY <1>7 DEF Record, Ended, GateTypeOK
<1>8. ASSUME NEW listed \in BOOLEAN, CacheTools(c, listed) PROVE GateTypeOK'
  <2>1. server' \in [Servers -> ServerRows]
    <3> DEFINE s == call[c].on
               tool == IF ~listed THEN "none" ELSE IF server[s].tool = "none" THEN "on"
                       ELSE server[s].tool
    <3>1. CASE s \in Servers
      <4>1. server \in [Servers -> ServerRows] BY DEF GateTypeOK
      <4>2. server' = server \/ server' = [server EXCEPT ![s].tool = tool]
        BY <1>8 DEF CacheTools
      <4>3. tool \in {"none", "on", "off"} BY <3>1, <4>1 DEF ServerRows
      <4>4. [server[s] EXCEPT !.tool = tool] \in ServerRows
        <5> HIDE DEF s, tool
        <5>1. server[s] \in ServerRows BY <3>1, <4>1
        <5> QED BY <4>3, <5>1 DEF ServerRows
      <4> HIDE DEF s, tool
      <4> QED BY <3>1, <4>1, <4>2, <4>4
    <3>2. CASE s \notin Servers
      BY <1>8, <3>2 DEF CacheTools, GateTypeOK
    <3> QED BY <3>1, <3>2
  <2> QED BY <1>8, <2>1 DEF CacheTools, GateTypeOK
<1>9. CASE ConnectFails(c) BY <1>9 DEF ConnectFails, GateTypeOK
<1> QED BY <1>1, <1>2, <1>3, <1>4, <1>5, <1>6, <1>7, <1>8, <1>9 DEF Gate, Return

\* Every step keeps the types.
LEMMA GateTypesInductive == GateTypeOK /\ [GateNext]_gate_vars => GateTypeOK'
<1> SUFFICES ASSUME GateTypeOK, [GateNext]_gate_vars PROVE GateTypeOK' OBVIOUS
<1>1. CASE UNCHANGED gate_vars BY <1>1 DEF gate_vars, GateTypeOK
<1>2. CASE OwnerVerb BY <1>2, VerbTypes
<1>3. CASE Crash BY <1>3, LostType DEF Crash, Store, GateTypeOK
<1>4. ASSUME NEW c \in Calls,
             Arrive(c) \/ SetRunning(c) \/ AcquireLock(c) \/ Gate(c) \/ Return(c) \/ Settle(c)
               \/ Age(c)
      PROVE  GateTypeOK'
  BY <1>4, ArriveTypes, CallTypes
<1> QED BY <1>1, <1>2, <1>3, <1>4 DEF GateNext

\* The rows at the start are of their types.
LEMMA GateTypesInitially == GateInit => GateTypeOK
<1> SUFFICES ASSUME GateInit PROVE GateTypeOK OBVIOUS
<1>1. server \in [Servers -> ServerRows]
  <2>1. NoServer \in ServerRows BY DEF NoServer, ServerRows, Homes
  <2>2. \A p \in Homes, t \in Targets : Ready(p, t) \in ServerRows
    BY DEF Ready, Added, NoServer, ServerRows
  <2> QED BY <2>1, <2>2 DEF GateInit
<1>2. call \in [Calls -> Attempts]
  <2>1. NoCall \in Attempts BY DEF NoCall, Attempts, Homes
  <2> QED BY <2>1 DEF GateInit
<1> QED BY <1>1, <1>2 DEF GateInit, GateTypeOK

----------------------------------------------------------------------------
(* The lock of a policy, the drivers of the runs, the scope of a policy *)

\* What a step does to an attempt it is about, and to the rest.
LEMMA OwnerKeeps ==
    ASSUME GateInv, OwnerVerb
    PROVE  /\ UNCHANGED <<call, lock>>
           /\ \A c \in Calls : run'[c] \in {run[c], "none"}
<1> USE DEF Verb, WriteServer
<1>1. UNCHANGED <<call, lock>>
  BY DEF OwnerVerb, ServerVerb, SetServerEnabled, SetToolEnabled, GrantConsent, RevokeConsent,
         DeleteServer, UpdateServer, ReplaceBinary, AddServer, AddAccount, DeleteAccount, SetPolicy,
         DeleteIdea, SetArchived
<1>2. \/ UNCHANGED run
      \/ \E s \in Servers : run' = [c \in Calls |-> IF call[c].on = s THEN "none" ELSE run[c]]
      \/ \E i \in Ideas : run' = [c \in Calls |-> IF call[c].idea = i THEN "none" ELSE run[c]]
  BY DEF OwnerVerb, ServerVerb, SetServerEnabled, SetToolEnabled, GrantConsent, RevokeConsent,
         DeleteServer, UpdateServer, ReplaceBinary, AddServer, AddAccount, DeleteAccount, SetPolicy,
         DeleteIdea, SetArchived
<1> QED BY <1>1, <1>2

\* A call that begins holds no lock yet.
LEMMA ArriveKeeps ==
    ASSUME GateInv, NEW c \in Calls, Arrive(c)
    PROVE  LockServes' /\ Holders' /\ Driven' /\ Scoped'
<1> USE DEF GateInv, GateTypeOK, LockServes, Holders, Driven, Scoped, InScope
<1>1. PICK pc, kind, x, p, i, key : Begin(c, pc, kind, x, p, i, key)
                 /\ \/ /\ pc = "queued" /\ key \in Keys /\ kind \in {"tool", "connector"}
                       /\ UNCHANGED run
                    \/ pc = "gate" /\ key = None /\ UNCHANGED run
                    \/ /\ pc = "spawned" /\ key = None /\ kind = "research"
                       /\ run' = [run EXCEPT ![c] = "pending"]
  <2>1. ASSUME NEW x \in Servers \cup Accounts, NEW p \in Homes, Attempt(c, x, p)
        PROVE  \E kind \in {"tool", "connector"} :
                 /\ Begin(c, IF Policy(x, p) = None THEN "gate" ELSE "queued", kind, x, p, None,
                          Policy(x, p))
                 /\ UNCHANGED run /\ Policy(x, p) \in Keys \cup {None}
    BY <2>1, PolicyType DEF Attempt
  <2> QED BY <2>1 DEF Arrive, Connect, StartRun
<1>2. call[c].pc = "new" /\ UNCHANGED lock BY <1>1 DEF Begin
<1>3. /\ call'[c].pc = pc /\ call'[c].kind = kind /\ call'[c].key = key /\ call'[c].gov = None
      /\ \A d \in Calls : d # c => call'[d] = call[d]
  <2>1. call' = [call EXCEPT ![c] = [NoCall EXCEPT !.pc = pc, !.kind = kind, !.on = x,
                                                  !.project = p, !.idea = i, !.key = key]]
    BY <1>1 DEF Begin
  <2> QED BY <2>1 DEF NoCall
<1>4. LockServes' BY <1>2, <1>3
<1>5. Holders' BY <1>1, <1>2, <1>3
<1>6. Driven'
  <2>1. run[c] \notin {"pending", "running"} BY <1>2 DEF Busy
  <2> QED BY <1>1, <1>3, <2>1 DEF Busy
<1>7. Scoped' BY <1>3
<1> QED BY <1>4, <1>5, <1>6, <1>7

\* A step of an attempt under way changes how far it is, at most.
SameAttempt(c) ==
    /\ call'[c].kind = call[c].kind /\ call'[c].key = call[c].key
    /\ call'[c].on = call[c].on /\ call'[c].project = call[c].project
    /\ \A d \in Calls : d # c => call'[d] = call[d]

\* A call that moves on is the same call, judged by the same policy.
LEMMA MoveKeeps ==
    ASSUME GateTypeOK, NEW c \in Calls, NEW pc, Move(c, pc)
    PROVE  SameAttempt(c) /\ call'[c].pc = pc /\ call'[c].gov = call[c].gov
BY DEF Move, SameAttempt, GateTypeOK, Attempts

\* An admitted call is judged by the policy its row has now.
LEMMA AdmitKeeps ==
    ASSUME GateTypeOK, NEW c \in Calls, Admit(c)
    PROVE  /\ SameAttempt(c) /\ call'[c].pc = "dialing"
           /\ call'[c].gov = IF call[c].kind = "connect" THEN None
                             ELSE Policy(call[c].on, call[c].project)
<1> DEFINE gov == IF call[c].kind = "connect" THEN None
                  ELSE Policy(call[c].on, call[c].project)
<1>1. call' = [call EXCEPT ![c].pc = "dialing", ![c].gov = gov] BY DEF Admit
<1> HIDE DEF gov
<1>2. SameAttempt(c) /\ call'[c].pc = "dialing" /\ call'[c].gov = gov
  BY <1>1 DEF SameAttempt, GateTypeOK, Attempts
<1> QED BY <1>2 DEF gov

\* The lock is let go on every way out of the gate and of the dial.
LEMMA CallKeeps ==
    ASSUME GateInv, NEW c \in Calls,
           SetRunning(c) \/ AcquireLock(c) \/ Gate(c) \/ Return(c) \/ Settle(c) \/ Age(c)
    PROVE  LockServes' /\ Holders' /\ Driven' /\ Scoped'
<1> USE DEF GateInv, LockServes, Holders, Driven, Scoped, InScope, SameAttempt, Busy
<1>0. GateTypeOK /\ lock \in [Keys -> Calls \cup {None}] 
      /\ run \in [Calls -> {"none", "pending", "running", "done", "failed"}]
  BY DEF GateTypeOK
<1>1. CASE SetRunning(c)
  <2>1. /\ SameAttempt(c) /\ call'[c].gov = call[c].gov /\ UNCHANGED lock
        /\ call[c].pc = "spawned"
        /\ \/ run[c] = "none" /\ call'[c].pc = "over" /\ UNCHANGED run
           \/ run[c] # "none" /\ call'[c].pc = "gate" /\ run' = [run EXCEPT ![c] = "running"]
    <3>1. CASE run[c] = "none"
      <4>1. Move(c, "over") /\ UNCHANGED run BY <1>1, <3>1 DEF SetRunning
      <4> QED BY <1>0, <1>1, <3>1, <4>1, MoveKeeps DEF SetRunning
    <3>2. CASE run[c] # "none"
      <4>1. Move(c, "gate") /\ run' = [run EXCEPT ![c] = "running"] BY <1>1, <3>2 DEF SetRunning
      <4> QED BY <1>0, <1>1, <3>2, <4>1, MoveKeeps DEF SetRunning
    <3> QED BY <3>1, <3>2
  <2> QED BY <1>0, <2>1
<1>2. CASE AcquireLock(c)
  <2>1. /\ SameAttempt(c) /\ call'[c].gov = call[c].gov /\ UNCHANGED run
        /\ call[c].pc = "queued" /\ lock[call[c].key] = None /\ call'[c].pc = "gate"
        /\ lock' = [lock EXCEPT ![call[c].key] = c]
    BY <1>0, <1>2, MoveKeeps DEF AcquireLock
  <2> QED BY <1>0, <2>1
<1>3. CASE Admit(c)
  <2>1. /\ SameAttempt(c) /\ UNCHANGED <<run, lock>>
        /\ call[c].pc = "gate" /\ call'[c].pc = "dialing"
    BY <1>0, <1>3, AdmitKeeps DEF Admit
  <2>2. LockServes' /\ Holders' /\ Driven' BY <1>0, <2>1
  <2>3. \A k \in Keys : call'[c].gov = k => InScope(k, c)'
    <3>1. LET x == call[c].on  p == call[c].project
          IN  Policy(x, p) \in {<<"server", x>>, <<"project", p>>, Global, None}
      BY DEF Policy
    <3>2. call'[c].gov \in {Policy(call[c].on, call[c].project), None}
      BY <1>0, <1>3, AdmitKeeps
    <3>3. call'[c].on = call[c].on /\ call'[c].project = call[c].project
      BY <2>1
    <3> QED BY <3>1, <3>2, <3>3
  <2> QED BY <2>1, <2>2, <2>3
<1>4. ASSUME SameAttempt(c), call'[c].gov = call[c].gov, UNCHANGED run,
             call[c].pc \in {"gate", "dialing"}, lock' = Released(c),
             call'[c].pc \in {"over", "finishing", "failing"},
             call'[c].pc = "over" => call[c].kind # "research"
      PROVE  LockServes' /\ Holders' /\ Driven' /\ Scoped'
  BY <1>0, <1>4 DEF Released
<1>5. CASE Refuse(c)
  BY <1>0, <1>4, <1>5, MoveKeeps DEF Refuse, Ended
<1>6. ASSUME NEW outcome \in {"finishing", "failing"}, NEW cost \in {"free", "paid"},
             Record(c, outcome, cost)
      PROVE  LockServes' /\ Holders' /\ Driven' /\ Scoped'
  BY <1>0, <1>4, <1>6, MoveKeeps DEF Record, Ended
<1>7. ASSUME SameAttempt(c), call'[c].gov = call[c].gov, UNCHANGED <<run, lock>>,
             call[c].pc = "dialing", call[c].kind = "connect", call'[c].pc = "over"
      PROVE  LockServes' /\ Holders' /\ Driven' /\ Scoped'
  BY <1>0, <1>7
<1>8. CASE ConnectFails(c) \/ \E listed \in BOOLEAN : CacheTools(c, listed)
  <2>1. /\ Move(c, "over") /\ UNCHANGED <<run, lock>>
        /\ call[c].pc = "dialing" /\ call[c].kind = "connect"
    BY <1>8 DEF ConnectFails, CacheTools
  <2> QED BY <1>0, <1>7, <2>1, MoveKeeps
<1>9. CASE Settle(c)
  <2>1. /\ SameAttempt(c) /\ call'[c].gov = call[c].gov /\ UNCHANGED lock
        /\ call[c].pc \in {"finishing", "failing"} /\ call'[c].pc = "over"
        /\ run'[c] \notin {"pending", "running"}
        /\ \A d \in Calls : d # c => run'[d] = run[d]
    BY <1>0, <1>9, MoveKeeps DEF Settle
  <2> QED BY <1>0, <2>1
<1>10. CASE Age(c)
  <2>1. /\ SameAttempt(c) /\ call'[c].gov = call[c].gov /\ call'[c].pc = call[c].pc
        /\ UNCHANGED <<lock, run>>
    BY <1>0, <1>10 DEF Age, GateTypeOK, Attempts
  <2> QED BY <1>0, <2>1
<1> QED BY <1>1, <1>2, <1>3, <1>5, <1>6, <1>8, <1>9, <1>10 DEF Gate, Return

\* Nothing is held or driven after a crash.
LEMMA CrashKeeps ==
    ASSUME GateInv, Crash
    PROVE  LockServes' /\ Holders' /\ Driven' /\ Scoped'
<1> USE DEF GateInv, Crash
<1>1. \A c \in Calls : call'[c] = call[c] \/ call'[c] = [call[c] EXCEPT !.pc = "over"]
  BY DEF Lost
<1>2. \A c \in Calls : call[c] \in Attempts BY DEF GateTypeOK
<1>3. \A c \in Calls : /\ call'[c].pc \in {"new", "over"} /\ call'[c].gov = call[c].gov
                       /\ call'[c].on = call[c].on /\ call'[c].project = call[c].project
  BY <1>1, <1>2 DEF Lost, Attempts
<1>4. \A c \in Calls : run'[c] \notin {"pending", "running"} OBVIOUS
<1>5. LockServes' BY DEF LockServes
<1> QED BY <1>3, <1>4, <1>5 DEF LockServes, Holders, Driven, Scoped, InScope

\* Every step keeps the invariant of the gate.
LEMMA GateInductive == GateInv /\ [GateNext]_gate_vars => GateInv'
<1> SUFFICES ASSUME GateInv, [GateNext]_gate_vars PROVE GateInv' OBVIOUS
<1>0. GateTypeOK' BY GateTypesInductive DEF GateInv
<1>1. CASE UNCHANGED gate_vars
  BY <1>0, <1>1 DEF gate_vars, GateInv, LockServes, Holders, Driven, Scoped, InScope
<1>2. CASE OwnerVerb
  BY <1>0, <1>2, OwnerKeeps DEF GateInv, LockServes, Holders, Driven, Scoped, InScope
<1>3. CASE Crash BY <1>0, <1>3, CrashKeeps DEF GateInv
<1>4. ASSUME NEW c \in Calls,
             Arrive(c) \/ SetRunning(c) \/ AcquireLock(c) \/ Gate(c) \/ Return(c) \/ Settle(c)
               \/ Age(c)
      PROVE  GateInv'
  BY <1>0, <1>4, ArriveKeeps, CallKeeps DEF GateInv
<1> QED BY <1>1, <1>2, <1>3, <1>4 DEF GateNext

\* Nobody calls at the start.
LEMMA GateInitially == GateInit => GateInv
BY GateTypesInitially
   DEF GateInit, GateInv, LockServes, Holders, Driven, Scoped, InScope, NoCall, Busy

----------------------------------------------------------------------------
(* The caps *)

\* The calls that have started under the policy c queued for, when c passes its
\* gate, are among those the gate counts: c holds the lock, so none of them is
\* in flight, and what is recorded is in the policy's scope.
LEMMA StartedCounted ==
    ASSUME GateInv, NEW c \in Calls, NEW k \in Keys, call[c].pc = "gate", call[c].key = k
    PROVE  \A d \in Calls : Started(k, d) /\ call[d].key = k => d \in Counted(k)
BY DEF GateInv, GateTypeOK, Holders, Scoped, Started, Counted

\* The calls that queued for the policy are counted by the check that admits one more.
LEMMA AdmitUnderCap ==
    ASSUME GateInv, NEW c \in Calls, NEW k \in Keys, Admit(c), call[c].key = k, call'[c].gov = k
    PROVE  UnderCap(k, {d \in Calls : Started(k, d) /\ call[d].key = k})
<1> DEFINE others == {d \in Calls : Started(k, d) /\ call[d].key = k}
           paid == {d \in Counted(k) : row[d] = "paid"}
<1>1. k # None /\ k = Policy(call[c].on, call[c].project) /\ call[c].kind # "connect"
  BY AdmitKeeps DEF GateInv
<1>2. policy[k] \in [rate : Nat, spend : Nat]
  <2>1. policy[k] # None BY <1>1 DEF Policy
  <2> QED BY <2>1 DEF GateInv, GateTypeOK
<1>3. ~Breached(k) BY <1>1 DEF Admit, Admissible
<1>4. others \subseteq Counted(k)
  BY StartedCounted DEF Admit
<1>5. {d \in others : row[d] # "free"} \subseteq paid
  BY <1>4 DEF Counted, GateInv, GateTypeOK
<1>6. IsFiniteSet(Counted(k)) /\ IsFiniteSet(paid)
  BY FS_Subset DEF Counted
<1>7. Cardinality(others) <= Cardinality(Counted(k))
  BY <1>4, <1>6, FS_Subset
<1>8. Cardinality({d \in others : row[d] # "free"}) <= Cardinality(paid)
  BY <1>5, <1>6, FS_Subset
<1>9. /\ Cardinality(others) \in Nat /\ Cardinality({d \in others : row[d] # "free"}) \in Nat
      /\ Cardinality(Counted(k)) \in Nat /\ Cardinality(paid) \in Nat
  BY <1>4, <1>5, <1>6, FS_Subset, FS_CardinalityType
<1>10. Cardinality(Counted(k)) < policy[k].rate /\ Cardinality(paid) < policy[k].spend
  BY <1>1, <1>2, <1>3, <1>9 DEF Breached
<1> HIDE DEF others, paid
<1>11. Cardinality(others) < policy[k].rate
  BY <1>2, <1>7, <1>9, <1>10
<1>12. Cardinality({d \in others : row[d] # "free"}) < policy[k].spend
  BY <1>2, <1>8, <1>9, <1>10
<1> QED BY <1>11, <1>12 DEF UnderCap, others

\* Admit is the only step from the gate to the dial.
LEMMA OnlyAdmit ==
    ASSUME GateInv, [GateNext]_gate_vars, NEW c \in Calls, Admitted(c)
    PROVE  Admit(c)
<1>1. CASE UNCHANGED gate_vars BY <1>1 DEF gate_vars, Admitted
<1>2. CASE OwnerVerb BY <1>2, OwnerKeeps DEF Admitted
<1>3. CASE Crash
  <2>1. call'[c] = [call[c] EXCEPT !.pc = "over"] BY <1>3 DEF Crash, Lost, Admitted
  <2>2. call[c] \in Attempts BY DEF GateInv, GateTypeOK
  <2> QED BY <2>1, <2>2 DEF Admitted, Attempts
<1>4. ASSUME NEW d \in Calls, Arrive(d) PROVE Admit(c)
  <2>1. PICK pc, kind, x, p, i, key : Begin(d, pc, kind, x, p, i, key)
    BY <1>4 DEF Arrive, Attempt, Connect, StartRun
  <2>2. call[d].pc = "new" /\ \A b \in Calls : b # d => call'[b] = call[b]
    BY <2>1 DEF Begin, GateInv, GateTypeOK
  <2> QED BY <2>2 DEF Admitted
<1>5. ASSUME NEW d \in Calls,
             SetRunning(d) \/ AcquireLock(d) \/ Gate(d) \/ Return(d) \/ Settle(d) \/ Age(d)
      PROVE  Admit(c)
  <2> USE MoveKeeps, AdmitKeeps DEF GateInv, SameAttempt, Admitted
  <2>1. CASE Admit(d) BY <2>1
  <2>2. CASE Age(d)
    <3>1. call' = [call EXCEPT ![d].aged = TRUE] BY <2>2 DEF Age
    <3>2. call'[c].pc = call[c].pc BY <3>1 DEF GateTypeOK, Attempts
    <3> QED BY <3>2
  <2>3. CASE ~Admit(d) /\ ~Age(d)
    <3>1. PICK pc : Move(d, pc) /\ (call[d].pc = "gate" => pc # "dialing")
      <4>1. CASE SetRunning(d) BY <4>1 DEF SetRunning
      <4>2. CASE AcquireLock(d) BY <4>2 DEF AcquireLock
      <4>3. CASE Refuse(d) BY <4>3 DEF Refuse, Ended
      <4>4. CASE \E outcome \in {"finishing", "failing"}, cost \in {"free", "paid"} :
                   Record(d, outcome, cost)
        BY <4>4 DEF Record
      <4>5. CASE ConnectFails(d) \/ \E listed \in BOOLEAN : CacheTools(d, listed)
        BY <4>5 DEF ConnectFails, CacheTools
      <4>6. CASE Settle(d) BY <4>6 DEF Settle
      <4> QED BY <1>5, <2>3, <4>1, <4>2, <4>3, <4>4, <4>5, <4>6 DEF Gate, Return
    <3> QED BY <3>1
  <2> QED BY <2>1, <2>2, <2>3
<1> QED BY <1>1, <1>2, <1>3, <1>4, <1>5 DEF GateNext

----------------------------------------------------------------------------
\* Every reachable state is type correct.
THEOREM GateTypeCorrect == GateSpec => []GateTypeOK
BY GateTypesInitially, GateTypesInductive, PTL DEF GateSpec

\* LockServes for any number of calls and policies: every way out of the gate
\* and of the dial lets the lock go, and a crash lets them all go.
THEOREM LockTheorem == GateSpec => []LockServes
<1>1. GateInv => LockServes BY DEF GateInv
<1> QED BY <1>1, GateInitially, GateInductive, PTL DEF GateSpec

\* RunHasDriver for any number of runs: a run is pending or running only while
\* its task is on the way to the step that settles it.
THEOREM DriverTheorem == GateSpec => []RunHasDriver
<1>1. GateInv => RunHasDriver BY DEF GateInv, Driven, RunHasDriver
<1> QED BY <1>1, GateInitially, GateInductive, PTL DEF GateSpec

\* CapHolds for any number of calls, any caps and any verbs of the owner: the
\* lock is held from the check to the row, so the check misses no call that
\* queued for the same policy.
THEOREM CapTheorem == GateSpec => CapHolds
<1>1. GateInv /\ [GateNext]_gate_vars =>
        [\A c \in Calls, k \in Keys :
           Admitted(c) /\ call[c].key = k /\ call'[c].gov = k =>
             UnderCap(k, {d \in Calls : Started(k, d) /\ call[d].key = k})]_gate_vars
  BY OnlyAdmit, AdmitUnderCap
<1> QED BY <1>1, GateInitially, GateInductive, PTL DEF GateSpec, CapHolds

----------------------------------------------------------------------------
(* The three parts together *)

OrchdInv == GateInv /\ FilesInv /\ CredInv

\* While the secrets take no step they keep their invariant.
LEMMA CredStutter == ASSUME CredInv, UNCHANGED cred_vars PROVE CredInv'
<1>1. UNCHANGED <<acct, srv, frozen, keychain, login, asker, setter, delete, leaky, hollow, faults>>
  BY DEF cred_vars
<1>2. \A y : Creds!Holds(y)' = Creds!Holds(y)
  BY <1>1, HoldsSame
<1>3. About(None)
  BY <1>1, <1>2 DEF About
<1>4. OwnersOK'
  BY <1>3, AboutIs, OwnersAssumption
<1>5. AskInv' /\ DeleteInv'
  BY <1>1, <1>2, AskSame, DeleteSame DEF CredInv
<1>6. Creds!CredTypeOK'
  BY <1>1 DEF CredInv, Creds!CredTypeOK
<1>. QED
  BY <1>4, <1>5, <1>6 DEF CredInv

\* Each part starts as its own invariant has it.
LEMMA OrchdStart == OrchdInit => OrchdInv
  BY GateInitially, FilesStart, CredStart DEF OrchdInit, OrchdInv

\* A step is of one part.
LEMMA OrchdInductive ==
    OrchdInv /\ [OrchdNext]_<<gate_vars, files_vars, cred_vars, part>> => OrchdInv'
<1>1. ASSUME OrchdInv, OrchdNext PROVE OrchdInv'
  <2>1. GateInv'
    <3>1. [GateNext]_gate_vars
      BY <1>1 DEF OrchdNext
    <3>. QED
      BY <1>1, <3>1, GateInductive DEF OrchdInv
  <2>2. FilesInv'
    BY <1>1, FilesStep DEF OrchdNext, OrchdInv
  <2>3. CredInv'
    BY <1>1, CredStep, CredStutter DEF OrchdNext, OrchdInv
  <2>. QED
    BY <2>1, <2>2, <2>3 DEF OrchdInv
<1>2. ASSUME OrchdInv, UNCHANGED <<gate_vars, files_vars, cred_vars, part>> PROVE OrchdInv'
  <2>1. GateInv'
    BY <1>2, GateInductive DEF OrchdInv
  <2>2. FilesInv' /\ CredInv'
    BY <1>2, FilesStep, CredStutter DEF OrchdInv
  <2>. QED
    BY <2>1, <2>2 DEF OrchdInv
<1>. QED
  BY <1>1, <1>2

\* The part that runs, which no step changes.
OnePart == part \in {"gate", "files", "secrets"}

\* And it stays.
LEMMA PartStays ==
    OnePart /\ [OrchdNext]_<<gate_vars, files_vars, cred_vars, part>> => OnePart'
  BY DEF OrchdNext, OnePart

\* OrchdTypeOK for any calls, files and owners.
THEOREM OrchdTypeCorrect == OrchdSpec => []OrchdTypeOK
<1>1. OrchdInit => OnePart
  BY DEF OrchdInit, OnePart
<1>2. OrchdInv /\ OnePart => OrchdTypeOK
  BY DEF OrchdInv, GateInv, FilesInv, CredInv, OrchdTypeOK, OnePart
<1>. QED
  BY <1>1, <1>2, OrchdStart, OrchdInductive, PartStays, PTL DEF OrchdSpec

\* NothingLost for any entries, contents and edits, wherever a verb fails and whenever orchd
\* dies: no file is cleared before the row of its entry names another, written one.
THEOREM NothingLostTheorem == OrchdSpec => []NothingLost
<1>1. OrchdInv => NothingLost
  BY DEF OrchdInv, FilesInv, NothingLost
<1>. QED
  BY <1>1, OrchdStart, OrchdInductive, PTL DEF OrchdSpec

\* SecretsMatchRows for any accounts, servers, calls of token_for and faults: what is written to
\* the Keychain outside the mutex agrees with the row, but for the owners named as left behind.
THEOREM SecretsTheorem == OrchdSpec => []SecretsMatchRows
<1>1. OrchdInv => SecretsMatchRows
  BY CredMatch DEF OrchdInv, SecretsMatchRows
<1>. QED
  BY <1>1, OrchdStart, OrchdInductive, PTL DEF OrchdSpec

\* ArchivedFilesKept for any projects and entries: a verb that was let in before the project was
\* archived holds the mutex, so that it has ended.
THEOREM FilesKeptTheorem == OrchdSpec => ArchivedFilesKept
<1>1. ASSUME OrchdInv, [OrchdNext]_<<gate_vars, files_vars, cred_vars, part>>
      PROVE  [\A e \in Files!Entries :
                Files!Live(e) /\ entry[e].scope \in shelved \cap shelved' /\ edits' = edits =>
                  \/ entry'[e] = entry[e] /\ disk'[Files!FileOf(e)] = disk[Files!FileOf(e)]
                  \/ verb # Files!Idle /\ verb.e = e /\ e[1] = "workflow"]_files_vars
  <2>1. Files!FilesNext \/ UNCHANGED files_vars
    BY <1>1 DEF OrchdNext
  <2>. QED
    BY <1>1, <2>1, KeptStep DEF OrchdInv, Kept
<1>. QED
  BY <1>1, OrchdStart, OrchdInductive, PTL
  DEF OrchdSpec, ArchivedFilesKept, Files!ArchivedFilesKept, files_vars, Files!files_vars
=============================================================================
