-------------------------- MODULE SessionHost_proofs --------------------------
(***************************************************************************)
(* What holds of SessionHost for any number of sessions, workspaces,       *)
(* closes, sweeps and restarts.  NoResurrection is not inductive: a row    *)
(* stays deleted only because nobody who could write it is in flight, and  *)
(* that rests on what a replay-only entry, a wait thread and a process     *)
(* that is gone can still do.  Nor is what a kill, a removal or a shutdown *)
(* promises when it ends: the second half is what they know on the way.    *)
(***************************************************************************)
EXTENDS SessionHost, TLAPS

\* The tick holds a session between two database locks.
Sweeping == sweep.pc \in {"upsert", "snapshot", "append"}

\* Nothing of the session is left in this process but its entry and its row, and nothing will be.
Quiet(s) ==
  /\ create[s].pc = "done" /\ child[s] # "alive" /\ wait[s] = "none" /\ ~active[s]
  /\ fin[s].pc = "none"
  /\ Sweeping => sweep.sess # s

\* No process, no thread and no task.
PoweredOff ==
  ~Up => /\ \A s \in Sessions :
              /\ create[s].pc \in {"new", "done"} /\ child[s] # "alive" /\ wait[s] = "none"
              /\ ~active[s] /\ fin[s].pc = "none"
         /\ sweep.pc = "idle" /\ remove.pc = "idle"
         /\ \A k \in Closers : close[k].pc = "idle"

\* Before it is spawned a session has no thread, no entry, no row and nobody who writes one.
Unborn ==
  \A s \in Sessions :
    /\ create[s].pc \in {"new", "exists", "spawn"} =>
         /\ wait[s] = "none" /\ ~active[s] /\ map[s] = "no" /\ fin[s].pc = "none"
         /\ child[s] # "alive"
    /\ create[s].pc = "new" => row[s] = NoRow
    /\ create[s].pc \in {"new", "exists", "spawn"} /\ Sweeping => sweep.sess # s

\* A wait thread that has returned has seen its child die.
Reaped == \A s \in Sessions : wait[s] \in {"callback", "done"} => child[s] # "alive"

\* What is being shown or closed without a PTY is quiet.
Replayed ==
  /\ \A s \in Sessions : map[s] = "replay" => Quiet(s)
  /\ \A k \in Closers : close[k].pc \in {"honest", "delete"} => Quiet(close[k].sess)

\* A session whose row was deleted has none, and nobody who could write one: the foreign key
\* refuses it, or nothing of the session is in flight.
Deleted == \A s \in gone : row[s] = NoRow /\ (WsOf[s] \notin ws \/ Quiet(s))

\* What a close, a sweep or a removal in progress is about.
Named ==
  /\ \A k \in Closers : close[k].pc # "idle" => close[k].sess \in Sessions
  /\ Sweeping => sweep.sess \in Sessions
  /\ remove.pc # "idle" => remove.ws \in Workspaces

HostInv == PoweredOff /\ Unborn /\ Reaped /\ Replayed /\ Deleted /\ Named /\ LiveIsTracked

-----------------------------------------------------------------------------
\* The record of a create after a step of it.
LEMMA CreatePc ==
  ASSUME NEW f \in [Sessions -> Creates], NEW s \in Sessions,
         NEW p \in {"new", "exists", "spawn", "insert", "meta", "persist", "done", "failed"}
  PROVE  [f EXCEPT ![s].pc = p] \in [Sessions -> Creates]
<1>1. f[s] \in Creates
  OBVIOUS
<1>2. [f[s] EXCEPT !.pc = p] = [pc |-> p, life |-> f[s].life]
  BY <1>1 DEF Creates
<1>3. [pc |-> p, life |-> f[s].life] \in Creates
  BY <1>1 DEF Creates
<1>4. [f EXCEPT ![s].pc = p] = [f EXCEPT ![s] = [f[s] EXCEPT !.pc = p]]
  OBVIOUS
<1>. QED
  BY <1>2, <1>3, <1>4

\* The record of a final flush after a step of it.
LEMMA FlushPc ==
  ASSUME NEW f \in [Sessions -> Flushes], NEW s \in Sessions,
         NEW p \in {"none", "missed", "meta", "scroll", "done"}
  PROVE  [f EXCEPT ![s].pc = p] \in [Sessions -> Flushes]
<1>1. f[s] \in Flushes
  OBVIOUS
<1>2. [f[s] EXCEPT !.pc = p] = [pc |-> p, life |-> f[s].life, ring |-> f[s].ring]
  BY <1>1 DEF Flushes
<1>3. [pc |-> p, life |-> f[s].life, ring |-> f[s].ring] \in Flushes
  BY <1>1 DEF Flushes
<1>4. [f EXCEPT ![s].pc = p] = [f EXCEPT ![s] = [f[s] EXCEPT !.pc = p]]
  OBVIOUS
<1>. QED
  BY <1>2, <1>3, <1>4

\* What an upsert leaves in the table is a row or none.
LEMMA UpsertRow ==
  ASSUME TypeOK, NEW s \in Sessions, NEW l \in Lives, Upsert(s, l)
  PROVE  row' \in [Sessions -> Rows \cup {NoRow}]
BY HostAssumption DEF TypeOK, Rows, Upsert

\* What a write of scrollback leaves in the table is a row or none.
LEMMA AppendRow ==
  ASSUME TypeOK, NEW s \in Sessions, NEW r \in 0..MaxOut, Append(s, r)
  PROVE  row' \in [Sessions -> Rows \cup {NoRow}]
<1>1. CASE row[s] = NoRow
  BY <1>1 DEF Append, TypeOK
<1>2. CASE row[s] # NoRow
  <2>1. row[s] \in Rows
    BY <1>2 DEF TypeOK
  <2>2. [row[s] EXCEPT !.ring = r] \in Rows
    BY <2>1 DEF Rows
  <2>3. row' = [row EXCEPT ![s] = [row[s] EXCEPT !.ring = r]]
    BY <1>2 DEF Append
  <2>. QED
    BY <1>2, <2>2, <2>3 DEF TypeOK
<1>. QED
  BY <1>1, <1>2

\* The record of a close after a step of it.
LEMMA ClosePc ==
  ASSUME NEW f \in [Closers -> Closes], NEW k \in Closers,
         NEW p \in {"idle", "signal", "reap", "honest", "delete"}
  PROVE  [f EXCEPT ![k].pc = p] \in [Closers -> Closes]
<1>1. f[k] \in Closes
  OBVIOUS
<1>2. [f[k] EXCEPT !.pc = p] = [pc |-> p, sess |-> f[k].sess]
  BY <1>1 DEF Closes
<1>3. [pc |-> p, sess |-> f[k].sess] \in Closes
  BY <1>1 DEF Closes
<1>4. [f EXCEPT ![k].pc = p] = [f EXCEPT ![k] = [f[k] EXCEPT !.pc = p]]
  OBVIOUS
<1>. QED
  BY <1>2, <1>3, <1>4

(* What five of the actions do, element by element.                        *)
Gated(s) ==
  /\ Up /\ create[s].pc = "new" /\ create'[s].pc \in {"done", "exists"}
  /\ \A t \in Sessions \ {s} : create'[t] = create[t]
  /\ UNCHANGED <<procVars, map, fin, hostVars, close, remove, sweep, boot, down, dbVars,
                 countVars>>

Failed(s) ==
  /\ Up /\ create[s].pc = "spawn" /\ create'[s].pc = "failed"
  /\ \A t \in Sessions \ {s} :
       create'[t] = create[t] /\ child'[t] = child[t] /\ wait'[t] = wait[t] /\ active'[t] = active[t]
  /\ wait'[s] \in {wait[s], "wait"}
  /\ UNCHANGED <<life, ring, map, fin, hostVars, close, remove, sweep, boot, down, dbVars, countVars>>

Answered(s) ==
  /\ Up /\ create[s].pc = "meta" /\ create'[s].pc \in {"done", "persist"}
  /\ \A t \in Sessions \ {s} : create'[t] = create[t]
  /\ map[s] # "no" => create'[s].pc = "persist"
  /\ UNCHANGED <<procVars, map, fin, closing, pend, close, remove, sweep, boot, down, dbVars,
                 countVars>>

Exited(s) ==
  /\ Up /\ wait[s] = "callback" /\ wait' = [wait EXCEPT ![s] = "done"]
  /\ \A t \in Sessions \ {s} : fin'[t] = fin[t]
  /\ UNCHANGED <<child, reading, active, life, ring, map, create, live, closing, close,
                 remove, sweep, boot, down, dbVars, countVars>>

ClosedHonest(k) ==
  /\ Up /\ close[k].pc = "honest"
  /\ \A j \in Closers \ {k} : close'[j] = close[j]
  /\ \/ close'[k].pc = "idle" /\ map' = map
     \/ /\ close'[k].pc = "delete" /\ close'[k].sess = close[k].sess
        /\ map' = [map EXCEPT ![close[k].sess] = "no"]
  /\ UNCHANGED <<procVars, fin, create, closing, pend, remove, sweep, boot, down, dbVars,
                 countVars>>

\* The gate moves one create on and leaves the others alone.
LEMMA CreateGateEffect ==
  ASSUME TypeOK, NEW s \in Sessions, CreateGate(s)
  PROVE  Gated(s)
<1>1. PICK p \in {"done", "exists"} : create' = [create EXCEPT ![s].pc = p]
  BY DEF CreateGate, CreateStep
<1>2. create \in [Sessions -> Creates]
  BY DEF TypeOK
<1>3. create'[s].pc = p /\ \A t \in Sessions \ {s} : create'[t] = create[t]
  BY <1>1, <1>2 DEF Creates
<1>4. Up /\ create[s].pc = "new"
  BY DEF CreateGate, CreateStep
<1>. QED
  BY <1>3, <1>4 DEF Gated, CreateGate

\* A create that fails touches its own child and threads only.
LEMMA CreateFailsEffect ==
  ASSUME TypeOK, NEW s \in Sessions, CreateFails(s)
  PROVE  Failed(s)
<1>1. Up /\ create[s].pc = "spawn" /\ create' = [create EXCEPT ![s].pc = "failed"]
  BY DEF CreateFails, CreateStep
<1>2. create'[s].pc = "failed" /\ \A t \in Sessions \ {s} : create'[t] = create[t]
  BY <1>1 DEF TypeOK, Creates
<1>3. /\ \A t \in Sessions \ {s} : child'[t] = child[t] /\ wait'[t] = wait[t] /\ active'[t] = active[t]
      /\ wait'[s] \in {wait[s], "wait"}
  BY DEF CreateFails, TypeOK
<1>. QED
  BY <1>1, <1>2, <1>3 DEF CreateFails, Failed

\* A create that finds its session tracked goes on to persist it.
LEMMA CreateMetaEffect ==
  ASSUME TypeOK, NEW s \in Sessions, CreateMeta(s)
  PROVE  Answered(s)
<1>1. CASE map[s] = "no"
  <2>1. create' = [create EXCEPT ![s].pc = "done"] /\ create[s].pc = "meta" /\ Up
    BY <1>1 DEF CreateMeta, CreateStep
  <2>2. create \in [Sessions -> Creates]
    BY DEF TypeOK
  <2>3. create'[s].pc = "done" /\ \A t \in Sessions \ {s} : create'[t] = create[t]
    BY <2>1, <2>2 DEF Creates
  <2>. QED
    BY <1>1, <2>1, <2>3 DEF CreateMeta, Answered
<1>2. CASE map[s] # "no"
  <2>1. create' = [create EXCEPT ![s] = [pc |-> "persist", life |-> life[s]]]
    BY <1>2 DEF CreateMeta
  <2>2. create[s].pc = "meta" /\ Up
    BY <1>2 DEF CreateMeta
  <2>3. create'[s].pc = "persist" /\ \A t \in Sessions \ {s} : create'[t] = create[t]
    BY <2>1 DEF TypeOK
  <2>. QED
    BY <2>2, <2>3 DEF CreateMeta, Answered
<1>. QED
  BY <1>1, <1>2

\* on_exited starts the final flush of its own session only.
LEMMA OnExitedEffect ==
  ASSUME TypeOK, NEW s \in Sessions, OnExited(s)
  PROVE  Exited(s)
<1>1. \A t \in Sessions \ {s} : fin'[t] = fin[t]
  <2>1. CASE map[s] = "no"
    <3>1. fin' = [fin EXCEPT ![s].pc = "missed"]
      BY <2>1 DEF OnExited
    <3>. QED
      BY <3>1 DEF TypeOK
  <2>2. CASE map[s] # "no"
    BY <2>2 DEF OnExited, TypeOK
  <2>. QED
    BY <2>1, <2>2
<1>. QED
  BY <1>1 DEF OnExited, Exited

\* An honest close goes on to the row of the session it named.
LEMMA CloseHonestEffect ==
  ASSUME TypeOK, NEW k \in Closers, CloseHonest(k)
  PROVE  ClosedHonest(k)
<1>1. CASE map[close[k].sess] = "no"
  <2>1. close' = [close EXCEPT ![k] = NoClose] /\ map' = map
    BY <1>1 DEF CloseHonest
  <2>2. close'[k].pc = "idle" /\ \A j \in Closers \ {k} : close'[j] = close[j]
    BY <2>1 DEF TypeOK, NoClose
  <2>. QED
    BY <2>1, <2>2 DEF CloseHonest, ClosedHonest
<1>2. CASE map[close[k].sess] # "no"
  <2>1. /\ close' = [close EXCEPT ![k].pc = "delete"]
        /\ map' = [map EXCEPT ![close[k].sess] = "no"]
    BY <1>2 DEF CloseHonest
  <2>2. close \in [Closers -> Closes]
    BY DEF TypeOK
  <2>3. /\ close'[k].pc = "delete" /\ close'[k].sess = close[k].sess
        /\ \A j \in Closers \ {k} : close'[j] = close[j]
    BY <2>1, <2>2 DEF Closes
  <2>. QED
    BY <2>1, <2>3 DEF CloseHonest, ClosedHonest
<1>. QED
  BY <1>1, <1>2

-----------------------------------------------------------------------------
\* Every action keeps every variable in its type; only the sweep, which reads the scrollback of
\* the session it holds, and the closing mark rely on Named.
LEMMA TypeStep ==
  ASSUME TypeOK, HostInv, [Next]_vars
  PROVE  TypeOK'
<1> USE HostAssumption DEF Closers, Lives
<1>1. ASSUME NEW s \in Sessions, ReaderChunk(s) PROVE TypeOK'
  BY <1>1 DEF TypeOK, ReaderChunk, Up, hostVars, dbVars, countVars
<1>2. ASSUME NEW s \in Sessions, ReaderEof(s) PROVE TypeOK'
  BY <1>2 DEF TypeOK, ReaderEof, Up, hostVars, dbVars, countVars
<1>3. ASSUME NEW s \in Sessions, ChildExit(s) PROVE TypeOK'
  BY <1>3 DEF TypeOK, ChildExit, Up, hostVars, dbVars, countVars
<1>4. ASSUME NEW s \in Sessions, WaitReturns(s) PROVE TypeOK'
  BY <1>4 DEF TypeOK, WaitReturns, Up, hostVars, dbVars, countVars
<1>5. ASSUME NEW s \in Sessions, OnExited(s) PROVE TypeOK'
  <2>1. CASE map[s] = "no"
    <3>1. fin' = [fin EXCEPT ![s].pc = "missed"] /\ pend' = pend
      BY <1>5, <2>1 DEF OnExited
    <3>2. fin' \in [Sessions -> Flushes]
      BY <3>1, FlushPc DEF TypeOK
    <3>. QED
      BY <1>5, <3>1, <3>2 DEF TypeOK, OnExited, Up, Track, dbVars, countVars
  <2>2. CASE map[s] # "no"
    <3>1. fin' = [fin EXCEPT ![s] = [pc |-> "meta", life |-> life[s], ring |-> ring[s]]]
      BY <1>5, <2>2 DEF OnExited
    <3>2. fin' \in [Sessions -> Flushes]
      BY <3>1 DEF TypeOK, Flushes
    <3>3. pend' \subseteq Sessions
      BY <1>5, <2>2 DEF TypeOK, OnExited, Track
    <3>. QED
      BY <1>5, <3>2, <3>3 DEF TypeOK, OnExited, Up, Track, dbVars, countVars
  <2>. QED
    BY <2>1, <2>2
<1>6. ASSUME NEW s \in Sessions, FinalMeta(s) PROVE TypeOK'
  <2>1. fin[s].life \in Lives /\ fin[s].ring \in 0..MaxOut
    <3>1. fin[s] \in Flushes
      BY DEF TypeOK
    <3>. QED
      BY <3>1 DEF Flushes
  <2>2. row' \in [Sessions -> Rows \cup {NoRow}]
    BY <1>6, <2>1, UpsertRow DEF FinalMeta
  <2>3. fin' \in [Sessions -> Flushes]
    BY <1>6, FlushPc DEF TypeOK, FinalMeta
  <2>. QED
    BY <1>6, <2>2, <2>3 DEF TypeOK, FinalMeta, Up, Upsert, procVars, hostVars, countVars,
       HasWorkspace
<1>7. ASSUME NEW s \in Sessions, FinalScrollback(s) PROVE TypeOK'
  <2>1. fin[s].life \in Lives /\ fin[s].ring \in 0..MaxOut
    <3>1. fin[s] \in Flushes
      BY DEF TypeOK
    <3>. QED
      BY <3>1 DEF Flushes
  <2>2. row' \in [Sessions -> Rows \cup {NoRow}]
    BY <1>7, <2>1, AppendRow DEF FinalScrollback
  <2>3. fin' \in [Sessions -> Flushes]
    BY <1>7, FlushPc DEF TypeOK, FinalScrollback
  <2>. QED
    BY <1>7, <2>2, <2>3 DEF TypeOK, FinalScrollback, Up, Append, procVars, hostVars, countVars
<1>8. ASSUME NEW s \in Sessions, CreateGate(s) PROVE TypeOK'
  <2>1. create' \in [Sessions -> Creates]
    <3>1. \/ create' = [create EXCEPT ![s].pc = "done"]
          \/ create' = [create EXCEPT ![s].pc = "exists"]
      BY <1>8 DEF CreateGate, CreateStep
    <3>2. /\ [create EXCEPT ![s].pc = "done"] \in [Sessions -> Creates]
          /\ [create EXCEPT ![s].pc = "exists"] \in [Sessions -> Creates]
      BY CreatePc DEF TypeOK
    <3>. QED
      BY <3>1, <3>2 DEF TypeOK
  <2>. QED
    BY <1>8, <2>1 DEF TypeOK, CreateGate, CreateStep, procVars, hostVars, dbVars, countVars, Up
<1>9. ASSUME NEW s \in Sessions, CreateExists(s) PROVE TypeOK'
  <2>1. create' \in [Sessions -> Creates]
    <3>1. \/ create' = [create EXCEPT ![s].pc = "done"]
          \/ create' = [create EXCEPT ![s].pc = "spawn"]
      BY <1>9 DEF CreateExists, CreateStep
    <3>2. /\ [create EXCEPT ![s].pc = "done"] \in [Sessions -> Creates]
          /\ [create EXCEPT ![s].pc = "spawn"] \in [Sessions -> Creates]
      BY CreatePc DEF TypeOK
    <3>. QED
      BY <3>1, <3>2 DEF TypeOK
  <2>. QED
    BY <1>9, <2>1 DEF TypeOK, CreateExists, CreateStep, HasWorkspace, procVars, hostVars,
       dbVars, countVars, Up
<1>10. ASSUME NEW s \in Sessions, CreateSpawn(s) PROVE TypeOK'
  <2>1. create' \in [Sessions -> Creates]
    BY <1>10, CreatePc DEF TypeOK, CreateSpawn, CreateStep
  <2>. QED
    BY <1>10, <2>1 DEF TypeOK, CreateSpawn, CreateStep, hostVars, dbVars, countVars, Up
<1>11. ASSUME NEW s \in Sessions, CreateInsert(s) PROVE TypeOK'
  <2>1. create' \in [Sessions -> Creates]
    BY <1>11, CreatePc DEF TypeOK, CreateInsert, CreateStep
  <2>. QED
    BY <1>11, <2>1 DEF TypeOK, CreateInsert, CreateStep, procVars, hostVars, dbVars, countVars, Up
<1>12. ASSUME NEW s \in Sessions, CreateMeta(s) PROVE TypeOK'
  <2>1. live' \subseteq Sessions
    BY <1>12 DEF TypeOK, CreateMeta, ListedLive
  <2>2. create' \in [Sessions -> Creates]
    <3>1. \/ create' = [create EXCEPT ![s].pc = "done"]
          \/ create' = [create EXCEPT ![s] = [pc |-> "persist", life |-> life[s]]]
      BY <1>12 DEF CreateMeta, CreateStep
    <3>2. [pc |-> "persist", life |-> life[s]] \in Creates
      BY DEF TypeOK, Creates
    <3>3. [create EXCEPT ![s].pc = "done"] \in [Sessions -> Creates]
      BY CreatePc DEF TypeOK
    <3>. QED
      BY <3>1, <3>2, <3>3 DEF TypeOK
  <2>. QED
    BY <1>12, <2>1, <2>2 DEF TypeOK, CreateMeta, CreateStep, Up, ListedLive, procVars, dbVars,
       countVars
<1>13. ASSUME NEW s \in Sessions, CreatePersist(s) PROVE TypeOK'
  <2>1. create' \in [Sessions -> Creates]
    BY <1>13, CreatePc DEF TypeOK, CreatePersist, CreateStep
  <2>2. create[s] \in Creates
    BY DEF TypeOK
  <2>3. row' \in [Sessions -> Rows \cup {NoRow}]
    BY <1>13, <2>2, UpsertRow DEF CreatePersist, Creates
  <2>. QED
    BY <1>13, <2>1, <2>3 DEF TypeOK, CreatePersist, CreateStep, Upsert, procVars, hostVars,
       countVars, Up, HasWorkspace
<1>14. ASSUME NEW s \in Sessions, Kill(s) PROVE TypeOK'
  BY <1>14 DEF TypeOK, Rows, Flushes, Creates, Closes, Removals, Sweeps, Drains, Kill, Up,
     NoClose, CloseOf, procVars, hostVars, dbVars, WithoutPty
<1>15. ASSUME NEW k \in Closers, CloseSignal(k) PROVE TypeOK'
  <2>1. close' \in [Closers -> Closes]
    BY <1>15, ClosePc DEF TypeOK, CloseSignal
  <2>. QED
    BY <1>15, <2>1 DEF TypeOK, CloseSignal, Up, hostVars, dbVars, countVars
<1>16. ASSUME NEW k \in Closers, CloseReap(k) PROVE TypeOK'
  <2>1. close' \in [Closers -> Closes]
    BY <1>16 DEF TypeOK, CloseReap, NoClose, Closes
  <2>2. live' \in SUBSET Sessions
    BY <1>16 DEF TypeOK, CloseReap, Unlisted
  <2>. QED
    BY <1>16, <2>1, <2>2 DEF TypeOK, CloseReap, Up, Joined, Unlisted, NoClose, procVars,
       dbVars, countVars
<1>17. ASSUME NEW k \in Closers, CloseHonest(k) PROVE TypeOK'
  <2>1. live' \subseteq Sessions /\ map' \in [Sessions -> {"no", "pty", "replay"}]
    BY <1>17 DEF TypeOK, CloseHonest, Unlisted
  <2>2. close' \in [Closers -> Closes]
    <3>1. \/ close' = [close EXCEPT ![k] = NoClose]
          \/ close' = [close EXCEPT ![k].pc = "delete"]
      BY <1>17 DEF CloseHonest
    <3>2. NoClose \in Closes
      BY DEF NoClose, Closes
    <3>3. [close EXCEPT ![k].pc = "delete"] \in [Closers -> Closes]
      BY ClosePc DEF TypeOK
    <3>. QED
      BY <3>1, <3>2, <3>3 DEF TypeOK
  <2>. QED
    BY <1>17, <2>1, <2>2 DEF TypeOK, CloseHonest, Up, NoClose, Unlisted, procVars, dbVars,
       countVars
<1>18. ASSUME NEW k \in Closers, CloseDelete(k) PROVE TypeOK'
  <2>1. close' \in [Closers -> Closes]
    BY <1>18 DEF TypeOK, CloseDelete, NoClose, Closes
  <2>2. row' \in [Sessions -> Rows \cup {NoRow}]
    BY <1>18 DEF TypeOK, CloseDelete, Closes
  <2>. QED
    BY <1>18, <2>1, <2>2 DEF TypeOK, CloseDelete, Up, NoClose, procVars, hostVars, countVars
<1>19. ASSUME NEW w \in Workspaces, RemoveBegin(w) PROVE TypeOK'
  <2>. DEFINE K == {}
  <2>. DEFINE T == {s \in Sessions : WsOf[s] = w /\ row[s] # NoRow}
  <2>1. K \in SUBSET Sessions /\ T \in SUBSET Sessions
    BY DEF TypeOK, Removals, TrackedIn
  <2>2. remove' = [NoRemove EXCEPT !.pc = "mark", !.ws = w, !.todo = T]
    BY <1>19 DEF RemoveBegin
  <2>3. remove \in Removals
    BY DEF TypeOK
  <2>4. remove' \in Removals
    <3>. HIDE DEF T, K
    <3>. QED
      BY <2>1, <2>2, <2>3 DEF NoRemove, Removals
  <2>. QED
    BY <1>19, <2>4 DEF TypeOK, RemoveBegin, procVars, hostVars, dbVars, countVars
<1>20. ASSUME RemoveMark PROVE TypeOK'
  <2>. DEFINE K == {s \in Sessions : WsOf[s] = remove.ws /\ create[s].pc = "done"}
  <2>. DEFINE T == remove.todo \cup TrackedIn(remove.ws)
  <2>1. K \in SUBSET Sessions /\ T \in SUBSET Sessions
    BY DEF TypeOK, Removals, TrackedIn
  <2>2. remove' = [remove EXCEPT !.pc = "sweep", !.todo = T, !.known = K]
    BY <1>20 DEF RemoveMark
  <2>3. remove \in Removals
    BY DEF TypeOK
  <2>4. remove' \in Removals
    <3>. HIDE DEF T, K
    <3>. QED
      BY <2>1, <2>2, <2>3 DEF NoRemove, Removals
  <2>5. closing' \subseteq Workspaces
    BY <1>20, <2>3 DEF TypeOK, HostInv, Named, RemoveMark
  <2>. QED
    BY <1>20, <2>4, <2>5 DEF TypeOK, RemoveMark, procVars, dbVars, countVars
<1>21. ASSUME RemoveTake PROVE TypeOK'
  BY <1>21 DEF TypeOK, Rows, Flushes, Creates, Closes, Removals, Sweeps, Drains, RemoveTake,
     Up, NoClose, procVars, dbVars, countVars
<1>22. ASSUME RemoveAwait PROVE TypeOK'
  <2>1. remove' \in Removals
    <3>1. CASE remove.phase = 1
      <4>1. remove' = [remove EXCEPT !.pc = "delete", !.took = {}]
        BY <1>22, <3>1 DEF RemoveAwait
      <4>. QED
        BY <4>1 DEF TypeOK, Removals
    <3>2. CASE remove.phase # 1
      <4>1. remove' = NoRemove
        BY <1>22, <3>2 DEF RemoveAwait
      <4>. QED
        BY <4>1 DEF NoRemove, Removals
    <3>. QED
      BY <3>1, <3>2
  <2>2. closing' \subseteq Workspaces
    BY <1>22 DEF TypeOK, RemoveAwait
  <2>. QED
    BY <1>22, <2>1, <2>2 DEF TypeOK, RemoveAwait, procVars, dbVars, countVars
<1>23. ASSUME RemoveDelete PROVE TypeOK'
  BY <1>23 DEF TypeOK, Rows, Flushes, Creates, Closes, Removals, Sweeps, Drains, RemoveDelete,
     Up, procVars, hostVars, countVars
<1>24. ASSUME RemoveStrays PROVE TypeOK'
  <2>. DEFINE K == remove.known \cup TrackedIn(remove.ws)
  <2>. DEFINE T == TrackedIn(remove.ws)
  <2>1. K \in SUBSET Sessions /\ T \in SUBSET Sessions
    BY DEF TypeOK, Removals, TrackedIn
  <2>2. remove' = [remove EXCEPT !.pc = "sweep", !.phase = 2, !.todo = T, !.known = K]
    BY <1>24 DEF RemoveStrays, Strays
  <2>3. remove \in Removals
    BY DEF TypeOK
  <2>4. remove' \in Removals
    <3>. HIDE DEF T, K
    <3>. QED
      BY <2>1, <2>2, <2>3 DEF NoRemove, Removals
  <2>. QED
    BY <1>24, <2>4 DEF TypeOK, RemoveStrays, procVars, hostVars, dbVars, countVars
<1>25. ASSUME NEW s \in Sessions, RemoveNext(s) PROVE TypeOK'
  BY <1>25 DEF TypeOK, Rows, Flushes, Creates, Closes, Removals, Sweeps, Drains, RemoveNext,
     Up, NoClose, CloseOf, procVars, dbVars, countVars, WithoutPty
<1>26. ASSUME SweepBegin PROVE TypeOK'
  <2>. DEFINE T == {s \in Sessions : row[s] # NoRow}
  <2>1. sweep' = [NoSweep EXCEPT !.pc = "next", !.todo = T]
    BY <1>26 DEF SweepBegin
  <2>2. 0 \in 0..MaxOut /\ T \in SUBSET Sessions
    OBVIOUS
  <2>3. sweep' \in Sweeps
    <3>. HIDE DEF T
    <3>. QED
      BY <2>1, <2>2 DEF NoSweep, Sweeps
  <2>. QED
    BY <1>26, <2>3 DEF TypeOK, SweepBegin, procVars, hostVars, dbVars
<1>27. ASSUME SweepUpsert PROVE TypeOK'
  <2>1. sweep \in Sweeps /\ sweep.sess \in Sessions
    BY <1>27 DEF TypeOK, HostInv, Named, Sweeping, SweepUpsert
  <2>2. row' \in [Sessions -> Rows \cup {NoRow}]
    BY <1>27, <2>1, UpsertRow DEF SweepUpsert, Sweeps
  <2>3. sweep' \in Sweeps
    BY <1>27, <2>1 DEF SweepUpsert, Sweeps
  <2>. QED
    BY <1>27, <2>2, <2>3 DEF TypeOK, SweepUpsert, procVars, hostVars, countVars
<1>28. ASSUME SweepSnapshot PROVE TypeOK'
  <2>1. sweep \in Sweeps /\ ring[sweep.sess] \in 0..MaxOut
    BY <1>28 DEF TypeOK, HostInv, Named, Sweeping, SweepSnapshot
  <2>2. CASE map[sweep.sess] # "no"
    <3>1. sweep' = [sweep EXCEPT !.pc = "append", !.ring = ring[sweep.sess]]
      BY <1>28, <2>2 DEF SweepSnapshot
    <3>2. sweep' \in Sweeps
      BY <2>1, <3>1 DEF Sweeps
    <3>. QED
      BY <1>28, <3>2 DEF TypeOK, SweepSnapshot, procVars, hostVars, dbVars, countVars
  <2>3. CASE map[sweep.sess] = "no"
    <3>1. sweep' = [sweep EXCEPT !.pc = "next"]
      BY <1>28, <2>3 DEF SweepSnapshot
    <3>2. sweep' \in Sweeps
      BY <2>1, <3>1 DEF Sweeps
    <3>. QED
      BY <1>28, <3>2 DEF TypeOK, SweepSnapshot, procVars, hostVars, dbVars, countVars
  <2>. QED
    BY <2>2, <2>3
<1>29. ASSUME SweepAppend PROVE TypeOK'
  <2>1. sweep \in Sweeps /\ sweep.sess \in Sessions
    BY <1>29 DEF TypeOK, HostInv, Named, Sweeping, SweepAppend
  <2>2. row' \in [Sessions -> Rows \cup {NoRow}]
    BY <1>29, <2>1, AppendRow DEF SweepAppend, Sweeps
  <2>3. sweep' \in Sweeps
    BY <1>29, <2>1 DEF SweepAppend, Sweeps
  <2>. QED
    BY <1>29, <2>2, <2>3 DEF TypeOK, SweepAppend, procVars, hostVars, countVars
<1>30. ASSUME SweepEnd PROVE TypeOK'
  BY <1>30 DEF TypeOK, Rows, Flushes, Creates, Closes, Removals, Sweeps, Drains, SweepEnd, Up,
     NoSweep, procVars, hostVars, dbVars, countVars
<1>31. ASSUME NEW s \in Sessions, SweepMeta(s) PROVE TypeOK'
  BY <1>31 DEF TypeOK, Rows, Flushes, Creates, Closes, Removals, Sweeps, Drains, SweepMeta, Up,
     procVars, hostVars, dbVars, countVars
<1>32. ASSUME Shutdown PROVE TypeOK'
  BY <1>32 DEF TypeOK, Rows, Flushes, Creates, Closes, Removals, Sweeps, Drains, Shutdown,
     NoSweep, procVars, hostVars, dbVars, countVars
<1>33. ASSUME ShutdownTake PROVE TypeOK'
  <2>1. down' \in Drains
    BY <1>33 DEF TypeOK, ShutdownTake, Drains
  <2>. QED
    BY <1>33, <2>1 DEF TypeOK, ShutdownTake, NoClose, procVars, dbVars, countVars
<1>34. ASSUME Exit PROVE TypeOK'
  BY <1>34 DEF TypeOK, Rows, Flushes, Creates, Closes, Removals, Sweeps, Drains, Exit, Flushed,
     PowerOff, NoFlush, NoClose, NoRemove, NoSweep, NotDown, dbVars, countVars
<1>35. ASSUME NEW s \in Sessions, ShutdownNext(s) PROVE TypeOK'
  <2>1. down' \in Drains
    BY <1>35 DEF TypeOK, ShutdownNext, Drains
  <2>2. close' \in [Closers -> Closes]
    BY <1>35 DEF TypeOK, ShutdownNext, CloseOf, NoClose, Closes, WithoutPty
  <2>. QED
    BY <1>35, <2>1, <2>2 DEF TypeOK, ShutdownNext, NoClose, CloseOf, procVars, hostVars,
       dbVars, countVars, WithoutPty
<1>36. ASSUME Crash PROVE TypeOK'
  BY <1>36 DEF TypeOK, Rows, Flushes, Creates, Closes, Removals, Sweeps, Drains, Crash, Up,
     PowerOff, NoFlush, NoClose, NoRemove, NoSweep, NotDown, dbVars, countVars
<1>37. ASSUME Restart PROVE TypeOK'
  BY <1>37 DEF TypeOK, Rows, Flushes, Creates, Closes, Removals, Sweeps, Drains, Restart, Up,
     hostVars, dbVars
<1>38. CASE UNCHANGED vars
  BY <1>38 DEF TypeOK, vars, Up
<1>39. ASSUME NEW s \in Sessions, CreateFails(s) PROVE TypeOK'
  <2>1. create' \in [Sessions -> Creates]
    BY <1>39, CreatePc DEF TypeOK, CreateFails, CreateStep
  <2>2. /\ child' \in [Sessions -> {"none", "alive", "dead"}] /\ reading' \in [Sessions -> BOOLEAN]
        /\ wait' \in [Sessions -> {"none", "wait", "callback", "done"}]
        /\ active' \in [Sessions -> BOOLEAN]
    BY <1>39 DEF TypeOK, CreateFails
  <2>. QED
    BY <1>39, <2>1, <2>2 DEF TypeOK, CreateFails, CreateStep, hostVars, dbVars, countVars, Up
<1>. QED
  BY <1>1, <1>2, <1>3, <1>4, <1>5, <1>6, <1>7, <1>8, <1>9, <1>10, <1>11, <1>12, <1>13, <1>14,
     <1>15, <1>16, <1>17, <1>18, <1>19, <1>20, <1>21, <1>22, <1>23, <1>24, <1>25, <1>26, <1>27,
     <1>28, <1>29, <1>30, <1>31, <1>32, <1>33, <1>34, <1>35, <1>36, <1>37, <1>38, <1>39 DEF Next, Thread,
     Create, CloseStep, RemoveStep, Sweep, ShutdownStep

\* A process that is gone has nothing in flight, and nothing starts until the next one does.
LEMMA PoweredOffStep ==
  ASSUME TypeOK, HostInv, [Next]_vars
  PROVE  PoweredOff'
<1> USE HostAssumption DEF Closers, Lives
<1>1. CASE Up /\ boot' = boot
  BY <1>1 DEF HostInv, Up, PoweredOff
<1>2. ASSUME NEW s \in Sessions,
             ReaderChunk(s) \/ ReaderEof(s) \/ ChildExit(s) \/ WaitReturns(s) \/ OnExited(s) \/
             FinalMeta(s) \/ FinalScrollback(s) \/ CreateGate(s) \/ CreateExists(s) \/
             CreateSpawn(s) \/ CreateFails(s) \/ CreateInsert(s) \/ CreateMeta(s) \/
             CreatePersist(s) \/ Kill(s) \/ RemoveNext(s) \/ SweepMeta(s) \/ ShutdownNext(s)
      PROVE  PoweredOff'
  BY <1>1, <1>2 DEF ReaderChunk, hostVars, dbVars, countVars, ReaderEof, ChildExit,
     WaitReturns, OnExited, FinalMeta, procVars, FinalScrollback, CreateGate, CreateStep,
     CreateExists, CreateSpawn, CreateFails, CreateInsert, CreateMeta, CreatePersist, Kill, RemoveNext,
     SweepMeta, ShutdownNext, Up
<1>3. ASSUME NEW k \in Closers,
             CloseSignal(k) \/ CloseReap(k) \/ CloseHonest(k) \/ CloseDelete(k)
      PROVE  PoweredOff'
  BY <1>1, <1>3 DEF CloseSignal, hostVars, dbVars, countVars, CloseReap, procVars, CloseHonest,
     CloseDelete, Up
<1>4. ASSUME NEW w \in Workspaces,
             RemoveBegin(w)
      PROVE  PoweredOff'
  BY <1>1, <1>4 DEF RemoveBegin, procVars, hostVars, dbVars, countVars, Up
<1>5. ASSUME RemoveMark \/ RemoveTake \/ RemoveAwait \/ RemoveDelete \/ RemoveStrays \/
             SweepBegin \/ SweepUpsert \/ SweepSnapshot \/ SweepAppend \/ SweepEnd
      PROVE  PoweredOff'
  BY <1>1, <1>5 DEF RemoveMark, procVars, dbVars, countVars, RemoveTake, RemoveAwait,
     RemoveDelete, hostVars, RemoveStrays, SweepBegin, SweepUpsert, SweepSnapshot, SweepAppend,
     SweepEnd, Up
<1>6. ASSUME Shutdown PROVE PoweredOff'
  BY <1>6 DEF HostInv, Up, PoweredOff, Shutdown, NoSweep, procVars, hostVars, dbVars, countVars
<1>7. ASSUME ShutdownTake PROVE PoweredOff'
  BY <1>7 DEF HostInv, Up, PoweredOff, ShutdownTake, NoClose, procVars, dbVars, countVars
<1>8. ASSUME Exit PROVE PoweredOff'
  BY <1>8 DEF HostInv, Up, PoweredOff, Exit, Flushed, PowerOff, NoFlush, NoClose, NoRemove,
     NoSweep, NotDown, dbVars, countVars
<1>9. ASSUME Crash PROVE PoweredOff'
  BY <1>9 DEF HostInv, Up, PoweredOff, Crash, PowerOff, NoFlush, NoClose, NoRemove, NoSweep,
     NotDown, dbVars, countVars
<1>10. ASSUME Restart PROVE PoweredOff'
  BY <1>10 DEF HostInv, Up, PoweredOff, Restart, hostVars, dbVars
<1>11. CASE UNCHANGED vars
  BY <1>11 DEF HostInv, Up, PoweredOff, vars, Quiet, Sweeping
<1>. QED
  BY <1>1, <1>2, <1>3, <1>4, <1>5, <1>6, <1>7, <1>8, <1>9, <1>10, <1>11 DEF Next, Thread,
     Create, CloseStep, RemoveStep, Sweep, ShutdownStep

\* Nothing exists of a session before its create spawns it, so nothing is stored of it either.
LEMMA UnbornStep ==
  ASSUME TypeOK, HostInv, [Next]_vars
  PROVE  Unborn'
<1> USE HostAssumption DEF Closers, Lives
<1>1. CASE UNCHANGED <<create, wait, active, map, fin, child, row, sweep>>
  BY <1>1 DEF HostInv, Sweeping, Unborn
<1>2. ASSUME NEW s \in Sessions,
             ReaderChunk(s) \/ Kill(s) \/ RemoveNext(s) \/ ShutdownNext(s)
      PROVE  Unborn'
  BY <1>1, <1>2 DEF ReaderChunk, hostVars, dbVars, countVars, Kill, procVars, RemoveNext,
     ShutdownNext
<1>3. ASSUME NEW w \in Workspaces,
             RemoveBegin(w)
      PROVE  Unborn'
  BY <1>1, <1>3 DEF RemoveBegin, procVars, hostVars, dbVars, countVars
<1>4. ASSUME RemoveMark \/ RemoveTake \/ RemoveAwait \/ RemoveStrays \/ ShutdownTake
      PROVE  Unborn'
  BY <1>1, <1>4 DEF RemoveMark, procVars, dbVars, countVars, RemoveTake, RemoveAwait,
     RemoveStrays, hostVars, ShutdownTake
<1>5. ASSUME NEW s \in Sessions, ReaderEof(s) PROVE Unborn'
  BY <1>5 DEF HostInv, Sweeping, Unborn, ReaderEof, Up, hostVars, dbVars, countVars
<1>6. ASSUME NEW s \in Sessions, ChildExit(s) PROVE Unborn'
  BY <1>6 DEF HostInv, Sweeping, Unborn, ChildExit, Up, hostVars, dbVars, countVars
<1>7. ASSUME NEW s \in Sessions, WaitReturns(s) PROVE Unborn'
  BY <1>7 DEF HostInv, Sweeping, Unborn, WaitReturns, Up, hostVars, dbVars, countVars
<1>8. ASSUME NEW s \in Sessions, OnExited(s) PROVE Unborn'
  <2>1. Exited(s)
    BY <1>8, OnExitedEffect
  <2>. QED
    BY <2>1 DEF Exited, TypeOK, Rows, Flushes, Creates, Closes, Sweeps, HostInv, PoweredOff,
       Up, Replayed, Quiet, Sweeping, Unborn, procVars, hostVars, dbVars, countVars
<1>9. ASSUME NEW s \in Sessions, FinalMeta(s) PROVE Unborn'
  BY <1>9 DEF HostInv, Sweeping, Unborn, FinalMeta, Up, Upsert, procVars, hostVars, countVars,
     HasWorkspace
<1>10. ASSUME NEW s \in Sessions, FinalScrollback(s) PROVE Unborn'
  BY <1>10 DEF HostInv, Sweeping, Unborn, FinalScrollback, Up, Append, procVars, hostVars,
     countVars
<1>11. ASSUME NEW s \in Sessions, CreateGate(s) PROVE Unborn'
  <2>1. Gated(s)
    BY <1>11, CreateGateEffect
  <2>. QED
    BY <2>1 DEF Gated, TypeOK, Rows, Flushes, Creates, Closes, Sweeps, HostInv, PoweredOff, Up,
       Replayed, Quiet, Sweeping, Unborn, procVars, hostVars, dbVars, countVars
<1>12. ASSUME NEW s \in Sessions, CreateExists(s) PROVE Unborn'
  BY <1>12 DEF HostInv, Sweeping, Unborn, CreateExists, CreateStep, HasWorkspace, procVars,
     hostVars, dbVars, countVars, Up
<1>13. ASSUME NEW s \in Sessions, CreateSpawn(s) PROVE Unborn'
  BY <1>13 DEF TypeOK, HostInv, Sweeping, Unborn, CreateSpawn, CreateStep, hostVars, dbVars,
     countVars, Up
<1>14. ASSUME NEW s \in Sessions, CreateInsert(s) PROVE Unborn'
  BY <1>14 DEF HostInv, Sweeping, Unborn, CreateInsert, CreateStep, procVars, hostVars, dbVars,
     countVars, Up
<1>15. ASSUME NEW s \in Sessions, CreateMeta(s) PROVE Unborn'
  <2>1. Answered(s)
    BY <1>15, CreateMetaEffect
  <2>. QED
    BY <2>1 DEF Answered, HostInv, Sweeping, Unborn, procVars, dbVars
<1>16. ASSUME NEW s \in Sessions, CreatePersist(s) PROVE Unborn'
  BY <1>16 DEF HostInv, Sweeping, Unborn, CreatePersist, CreateStep, Upsert, procVars,
     hostVars, countVars, Up, HasWorkspace
<1>17. ASSUME NEW k \in Closers, CloseSignal(k) PROVE Unborn'
  BY <1>17 DEF HostInv, Sweeping, Unborn, CloseSignal, Up, hostVars, dbVars, countVars
<1>18. ASSUME NEW k \in Closers, CloseReap(k) PROVE Unborn'
  BY <1>18 DEF HostInv, Sweeping, Unborn, CloseReap, Up, Joined, Unlisted, NoClose, procVars,
     dbVars, countVars
<1>19. ASSUME NEW k \in Closers, CloseHonest(k) PROVE Unborn'
  <2>1. ClosedHonest(k)
    BY <1>19, CloseHonestEffect
  <2>. QED
    BY <2>1 DEF ClosedHonest, TypeOK, Rows, Flushes, Creates, Closes, Sweeps, HostInv,
       PoweredOff, Up, Replayed, Quiet, Sweeping, Unborn, procVars, hostVars, dbVars, countVars,
       NoClose
<1>20. ASSUME NEW k \in Closers, CloseDelete(k) PROVE Unborn'
  BY <1>20 DEF HostInv, Sweeping, Unborn, CloseDelete, Up, NoClose, procVars, hostVars,
     countVars
<1>21. ASSUME RemoveDelete PROVE Unborn'
  BY <1>21 DEF HostInv, Sweeping, Unborn, RemoveDelete, Up, procVars, hostVars, countVars
<1>22. ASSUME SweepBegin PROVE Unborn'
  BY <1>22 DEF HostInv, Sweeping, Unborn, SweepBegin, NoSweep, procVars, hostVars, dbVars
<1>23. ASSUME SweepUpsert PROVE Unborn'
  BY <1>23 DEF HostInv, Sweeping, Unborn, SweepUpsert, Up, Upsert, procVars, hostVars,
     countVars, HasWorkspace
<1>24. ASSUME SweepSnapshot PROVE Unborn'
  BY <1>24 DEF HostInv, Sweeping, Unborn, SweepSnapshot, Up, procVars, hostVars, dbVars,
     countVars
<1>25. ASSUME SweepAppend PROVE Unborn'
  BY <1>25 DEF HostInv, Sweeping, Unborn, SweepAppend, Up, Append, procVars, hostVars,
     countVars
<1>26. ASSUME SweepEnd PROVE Unborn'
  BY <1>26 DEF HostInv, Sweeping, Unborn, SweepEnd, Up, NoSweep, procVars, hostVars, dbVars,
     countVars
<1>27. ASSUME NEW s \in Sessions, SweepMeta(s) PROVE Unborn'
  BY <1>27 DEF HostInv, Sweeping, Unborn, SweepMeta, Up, procVars, hostVars, dbVars, countVars
<1>28. ASSUME Shutdown PROVE Unborn'
  BY <1>28 DEF HostInv, Sweeping, Unborn, Shutdown, NoSweep, procVars, hostVars, dbVars,
     countVars
<1>29. ASSUME Exit PROVE Unborn'
  BY <1>29 DEF HostInv, Sweeping, Unborn, Exit, Flushed, PowerOff, NoFlush, NoClose, NoRemove,
     NoSweep, NotDown, dbVars, countVars
<1>30. ASSUME Crash PROVE Unborn'
  BY <1>30 DEF HostInv, Sweeping, Unborn, Crash, Up, PowerOff, NoFlush, NoClose, NoRemove,
     NoSweep, NotDown, dbVars, countVars
<1>31. ASSUME Restart PROVE Unborn'
  BY <1>31 DEF HostInv, PoweredOff, Up, Replayed, Quiet, Sweeping, Unborn, Restart, hostVars,
     dbVars
<1>32. CASE UNCHANGED vars
  BY <1>32 DEF HostInv, Sweeping, Unborn, vars, Up
<1>33. ASSUME NEW s \in Sessions, CreateFails(s) PROVE Unborn'
  <2>1. Failed(s)
    BY <1>33, CreateFailsEffect
  <2>. QED
    BY <2>1 DEF Failed, HostInv, Sweeping, Unborn, dbVars
<1>. QED
  BY <1>1, <1>2, <1>3, <1>4, <1>5, <1>6, <1>7, <1>8, <1>9, <1>10, <1>11, <1>12, <1>13, <1>14,
     <1>15, <1>16, <1>17, <1>18, <1>19, <1>20, <1>21, <1>22, <1>23, <1>24, <1>25, <1>26, <1>27,
     <1>28, <1>29, <1>30, <1>31, <1>32, <1>33 DEF Next, Thread, Create, CloseStep, RemoveStep, Sweep,
     ShutdownStep

\* A wait thread leaves its wait only after the child has died, and no child comes back.
LEMMA ReapedStep ==
  ASSUME TypeOK, HostInv, [Next]_vars
  PROVE  Reaped'
<1> USE HostAssumption DEF Closers, Lives
<1>1. CASE UNCHANGED <<wait, child>>
  BY <1>1 DEF HostInv, Reaped
<1>2. ASSUME NEW s \in Sessions,
             ReaderChunk(s) \/ ReaderEof(s) \/ FinalMeta(s) \/ FinalScrollback(s) \/
             CreateGate(s) \/ CreateExists(s) \/ CreateInsert(s) \/ CreateMeta(s) \/
             CreatePersist(s) \/ Kill(s) \/ RemoveNext(s) \/ SweepMeta(s) \/ ShutdownNext(s)
      PROVE  Reaped'
  BY <1>1, <1>2 DEF ReaderChunk, hostVars, dbVars, countVars, ReaderEof, FinalMeta, procVars,
     FinalScrollback, CreateGate, CreateStep, CreateExists, CreateInsert, CreateMeta,
     CreatePersist, Kill, RemoveNext, SweepMeta, ShutdownNext
<1>3. ASSUME NEW k \in Closers,
             CloseReap(k) \/ CloseHonest(k) \/ CloseDelete(k)
      PROVE  Reaped'
  BY <1>1, <1>3 DEF CloseReap, procVars, dbVars, countVars, CloseHonest, CloseDelete, hostVars
<1>4. ASSUME NEW w \in Workspaces,
             RemoveBegin(w)
      PROVE  Reaped'
  BY <1>1, <1>4 DEF RemoveBegin, procVars, hostVars, dbVars, countVars
<1>5. ASSUME RemoveMark \/ RemoveTake \/ RemoveAwait \/ RemoveDelete \/ RemoveStrays \/
             SweepBegin \/ SweepUpsert \/ SweepSnapshot \/ SweepAppend \/ SweepEnd \/ Shutdown \/
             ShutdownTake \/ Restart
      PROVE  Reaped'
  BY <1>1, <1>5 DEF RemoveMark, procVars, dbVars, countVars, RemoveTake, RemoveAwait,
     RemoveDelete, hostVars, RemoveStrays, SweepBegin, SweepUpsert, SweepSnapshot, SweepAppend,
     SweepEnd, Shutdown, ShutdownTake, Restart
<1>6. ASSUME NEW s \in Sessions, ChildExit(s) PROVE Reaped'
  BY <1>6 DEF HostInv, Reaped, ChildExit, Up, hostVars, dbVars, countVars
<1>7. ASSUME NEW s \in Sessions, WaitReturns(s) PROVE Reaped'
  BY <1>7 DEF HostInv, Reaped, WaitReturns, Up, hostVars, dbVars, countVars
<1>8. ASSUME NEW s \in Sessions, OnExited(s) PROVE Reaped'
  <2>1. Exited(s)
    BY <1>8, OnExitedEffect
  <2>. QED
    BY <2>1 DEF Exited, TypeOK, Rows, Flushes, Creates, Closes, Sweeps, HostInv, Up, Unborn,
       Reaped, procVars, hostVars, dbVars, countVars
<1>9. ASSUME NEW s \in Sessions, CreateSpawn(s) PROVE Reaped'
  BY <1>9 DEF TypeOK, HostInv, Reaped, CreateSpawn, CreateStep, hostVars, dbVars, countVars, Up
<1>10. ASSUME NEW k \in Closers, CloseSignal(k) PROVE Reaped'
  BY <1>10 DEF HostInv, Reaped, CloseSignal, Up, hostVars, dbVars, countVars
<1>11. ASSUME Exit PROVE Reaped'
  BY <1>11 DEF HostInv, Reaped, Exit, Flushed, PowerOff, NoFlush, NoClose, NoRemove, NoSweep,
     NotDown, dbVars, countVars
<1>12. ASSUME Crash PROVE Reaped'
  BY <1>12 DEF HostInv, Reaped, Crash, Up, PowerOff, NoFlush, NoClose, NoRemove, NoSweep,
     NotDown, dbVars, countVars
<1>13. CASE UNCHANGED vars
  BY <1>13 DEF HostInv, Reaped, vars, Up
<1>14. ASSUME NEW s \in Sessions, CreateFails(s) PROVE Reaped'
  <2>1. Failed(s)
    BY <1>14, CreateFailsEffect
  <2>2. wait[s] = "none"
    BY <2>1 DEF Failed, HostInv, Unborn
  <2>. QED
    BY <2>1, <2>2 DEF Failed, HostInv, Reaped
<1>. QED
  BY <1>1, <1>2, <1>3, <1>4, <1>5, <1>6, <1>7, <1>8, <1>9, <1>10, <1>11, <1>12, <1>13, <1>14 DEF Next,
     Thread, Create, CloseStep, RemoveStep, Sweep, ShutdownStep

\* A replay-only entry belongs to an earlier process: no thread or task of this one will touch it.
LEMMA ReplayedStep ==
  ASSUME TypeOK, HostInv, [Next]_vars
  PROVE  Replayed'
<1> USE HostAssumption DEF Closers, Lives
<1>1. CASE UNCHANGED <<map, close, create, child, wait, active, fin, sweep>>
  BY <1>1 DEF HostInv, Quiet, Sweeping, Replayed
<1>2. ASSUME NEW s \in Sessions,
             ReaderChunk(s)
      PROVE  Replayed'
  BY <1>1, <1>2 DEF ReaderChunk, hostVars, dbVars, countVars
<1>3. ASSUME NEW w \in Workspaces,
             RemoveBegin(w)
      PROVE  Replayed'
  BY <1>1, <1>3 DEF RemoveBegin, procVars, hostVars, dbVars, countVars
<1>4. ASSUME RemoveMark \/ RemoveTake \/ RemoveAwait \/ RemoveDelete \/ RemoveStrays \/
             ShutdownTake
      PROVE  Replayed'
  BY <1>1, <1>4 DEF RemoveMark, procVars, dbVars, countVars, RemoveTake, RemoveAwait,
     RemoveDelete, hostVars, RemoveStrays, ShutdownTake
<1>5. ASSUME NEW s \in Sessions, ReaderEof(s) PROVE Replayed'
  BY <1>5 DEF HostInv, Quiet, Sweeping, Replayed, ReaderEof, Up, hostVars, dbVars, countVars
<1>6. ASSUME NEW s \in Sessions, ChildExit(s) PROVE Replayed'
  BY <1>6 DEF HostInv, Quiet, Sweeping, Replayed, ChildExit, Up, hostVars, dbVars, countVars
<1>7. ASSUME NEW s \in Sessions, WaitReturns(s) PROVE Replayed'
  BY <1>7 DEF HostInv, Quiet, Sweeping, Replayed, WaitReturns, Up, hostVars, dbVars, countVars
<1>8. ASSUME NEW s \in Sessions, OnExited(s) PROVE Replayed'
  <2>1. Exited(s)
    BY <1>8, OnExitedEffect
  <2>2. ASSUME NEW t \in Sessions, Quiet(t) PROVE Quiet(t)'
    BY <2>1, <2>2 DEF Exited, Quiet, Sweeping, procVars
  <2>3. \A j \in Closers : close[j].pc # "idle" => close[j].sess \in Sessions
    BY DEF HostInv, Named
  <2>. QED
    BY <2>1, <2>2, <2>3 DEF Exited, HostInv, Replayed, TypeOK
<1>9. ASSUME NEW s \in Sessions, FinalMeta(s) PROVE Replayed'
  BY <1>9 DEF HostInv, Quiet, Sweeping, Replayed, FinalMeta, Up, Upsert, procVars, hostVars,
     countVars, HasWorkspace
<1>10. ASSUME NEW s \in Sessions, FinalScrollback(s) PROVE Replayed'
  BY <1>10 DEF HostInv, Quiet, Sweeping, Replayed, FinalScrollback, Up, Append, procVars,
     hostVars, countVars
<1>11. ASSUME NEW s \in Sessions, CreateGate(s) PROVE Replayed'
  <2>1. Gated(s)
    BY <1>11, CreateGateEffect
  <2>2. ASSUME NEW t \in Sessions, Quiet(t) PROVE Quiet(t)'
    BY <2>1, <2>2 DEF Gated, Quiet, Sweeping, procVars
  <2>3. \A j \in Closers : close[j].pc # "idle" => close[j].sess \in Sessions
    BY DEF HostInv, Named
  <2>. QED
    BY <2>1, <2>2, <2>3 DEF Gated, HostInv, Replayed, TypeOK
<1>12. ASSUME NEW s \in Sessions, CreateExists(s) PROVE Replayed'
  BY <1>12 DEF HostInv, Quiet, Sweeping, Replayed, CreateExists, CreateStep, HasWorkspace,
     procVars, hostVars, dbVars, countVars, Up
<1>13. ASSUME NEW s \in Sessions, CreateSpawn(s) PROVE Replayed'
  BY <1>13 DEF HostInv, Quiet, Sweeping, Replayed, CreateSpawn, CreateStep, hostVars, dbVars,
     countVars, Up
<1>14. ASSUME NEW s \in Sessions, CreateInsert(s) PROVE Replayed'
  BY <1>14 DEF HostInv, Quiet, Sweeping, Replayed, CreateInsert, CreateStep, procVars,
     hostVars, dbVars, countVars, Up
<1>15. ASSUME NEW s \in Sessions, CreateMeta(s) PROVE Replayed'
  <2>1. Answered(s)
    BY <1>15, CreateMetaEffect
  <2>2. ASSUME NEW t \in Sessions, Quiet(t) PROVE Quiet(t)'
    BY <2>1, <2>2 DEF Answered, Quiet, Sweeping, procVars
  <2>3. \A j \in Closers : close[j].pc # "idle" => close[j].sess \in Sessions
    BY DEF HostInv, Named
  <2>. QED
    BY <2>1, <2>2, <2>3 DEF Answered, HostInv, Replayed, TypeOK
<1>16. ASSUME NEW s \in Sessions, CreatePersist(s) PROVE Replayed'
  BY <1>16 DEF HostInv, Quiet, Sweeping, Replayed, CreatePersist, CreateStep, Upsert, procVars,
     hostVars, countVars, Up, HasWorkspace
<1>17. ASSUME NEW s \in Sessions, Kill(s) PROVE Replayed'
  BY <1>17 DEF HostInv, Quiet, Sweeping, Replayed, Kill, Up, NoClose, CloseOf, procVars,
     hostVars, dbVars, WithoutPty
<1>18. ASSUME NEW k \in Closers, CloseSignal(k) PROVE Replayed'
  BY <1>18 DEF HostInv, Quiet, Sweeping, Replayed, CloseSignal, Up, hostVars, dbVars, countVars
<1>19. ASSUME NEW k \in Closers, CloseReap(k) PROVE Replayed'
  BY <1>19 DEF HostInv, Quiet, Sweeping, Replayed, CloseReap, Up, Joined, Unlisted, NoClose,
     procVars, dbVars, countVars
<1>20. ASSUME NEW k \in Closers, CloseHonest(k) PROVE Replayed'
  <2>1. ClosedHonest(k)
    BY <1>20, CloseHonestEffect
  <2>2. ASSUME NEW t \in Sessions, Quiet(t) PROVE Quiet(t)'
    BY <2>1, <2>2 DEF ClosedHonest, Quiet, Sweeping, procVars
  <2>3. \A j \in Closers : close[j].pc # "idle" => close[j].sess \in Sessions
    BY DEF HostInv, Named
  <2>. QED
    BY <2>1, <2>2, <2>3 DEF ClosedHonest, HostInv, Replayed, TypeOK
<1>21. ASSUME NEW k \in Closers, CloseDelete(k) PROVE Replayed'
  BY <1>21 DEF HostInv, Quiet, Sweeping, Replayed, CloseDelete, Up, NoClose, procVars,
     hostVars, countVars
<1>22. ASSUME NEW s \in Sessions, RemoveNext(s) PROVE Replayed'
  BY <1>22 DEF HostInv, Quiet, Sweeping, Replayed, RemoveNext, Up, NoClose, CloseOf, procVars,
     dbVars, countVars, WithoutPty
<1>23. ASSUME SweepBegin PROVE Replayed'
  BY <1>23 DEF HostInv, Quiet, Sweeping, Replayed, SweepBegin, NoSweep, procVars, hostVars,
     dbVars
<1>24. ASSUME SweepUpsert PROVE Replayed'
  BY <1>24 DEF HostInv, Quiet, Sweeping, Replayed, SweepUpsert, Up, Upsert, procVars, hostVars,
     countVars, HasWorkspace
<1>25. ASSUME SweepSnapshot PROVE Replayed'
  BY <1>25 DEF HostInv, Quiet, Sweeping, Replayed, SweepSnapshot, Up, procVars, hostVars,
     dbVars, countVars
<1>26. ASSUME SweepAppend PROVE Replayed'
  BY <1>26 DEF HostInv, Quiet, Sweeping, Replayed, SweepAppend, Up, Append, procVars, hostVars,
     countVars
<1>27. ASSUME SweepEnd PROVE Replayed'
  BY <1>27 DEF HostInv, Quiet, Sweeping, Replayed, SweepEnd, Up, NoSweep, procVars, hostVars,
     dbVars, countVars
<1>28. ASSUME NEW s \in Sessions, SweepMeta(s) PROVE Replayed'
  BY <1>28 DEF HostInv, Quiet, Sweeping, Replayed, SweepMeta, Up, procVars, hostVars, dbVars,
     countVars
<1>29. ASSUME Shutdown PROVE Replayed'
  BY <1>29 DEF HostInv, Quiet, Sweeping, Replayed, Shutdown, NoSweep, procVars, hostVars,
     dbVars, countVars
<1>30. ASSUME Exit PROVE Replayed'
  BY <1>30 DEF HostInv, Quiet, Sweeping, Replayed, Exit, Flushed, PowerOff, NoFlush, NoClose,
     NoRemove, NoSweep, NotDown, dbVars, countVars
<1>31. ASSUME NEW s \in Sessions, ShutdownNext(s) PROVE Replayed'
  BY <1>31 DEF HostInv, Quiet, Sweeping, Replayed, ShutdownNext, NoClose, CloseOf, procVars,
     hostVars, dbVars, countVars, WithoutPty
<1>32. ASSUME Crash PROVE Replayed'
  BY <1>32 DEF HostInv, Quiet, Sweeping, Replayed, Crash, Up, PowerOff, NoFlush, NoClose,
     NoRemove, NoSweep, NotDown, dbVars, countVars
<1>33. ASSUME Restart PROVE Replayed'
  BY <1>33 DEF HostInv, PoweredOff, Unborn, Named, Quiet, Sweeping, Up, Replayed, Restart,
     hostVars, dbVars
<1>34. CASE UNCHANGED vars
  BY <1>34 DEF HostInv, Quiet, Sweeping, Replayed, vars, Up
<1>35. ASSUME NEW s \in Sessions, CreateFails(s) PROVE Replayed'
  <2>1. Failed(s)
    BY <1>35, CreateFailsEffect
  <2>2. ASSUME NEW t \in Sessions, Quiet(t) PROVE Quiet(t)'
    BY <2>1, <2>2 DEF Failed, Quiet, Sweeping
  <2>3. \A j \in Closers : close[j].pc # "idle" => close[j].sess \in Sessions
    BY DEF HostInv, Named
  <2>. QED
    BY <2>1, <2>2, <2>3 DEF Failed, HostInv, Replayed
<1>. QED
  BY <1>1, <1>2, <1>3, <1>4, <1>5, <1>6, <1>7, <1>8, <1>9, <1>10, <1>11, <1>12, <1>13, <1>14,
     <1>15, <1>16, <1>17, <1>18, <1>19, <1>20, <1>21, <1>22, <1>23, <1>24, <1>25, <1>26, <1>27,
     <1>28, <1>29, <1>30, <1>31, <1>32, <1>33, <1>34, <1>35 DEF Next, Thread, Create, CloseStep,
     RemoveStep, Sweep, ShutdownStep

\* A deleted row has no writer: its workspace is gone too, or nothing of its session is in flight.
LEMMA DeletedStep ==
  ASSUME TypeOK, HostInv, [Next]_vars
  PROVE  Deleted'
<1> USE HostAssumption DEF Closers, Lives
<1>1. CASE UNCHANGED <<gone, row, ws, create, child, wait, active, fin, sweep>>
  BY <1>1 DEF HostInv, Quiet, Sweeping, Deleted
<1>2. ASSUME NEW s \in Sessions,
             ReaderChunk(s) \/ Kill(s) \/ RemoveNext(s) \/ ShutdownNext(s)
      PROVE  Deleted'
  BY <1>1, <1>2 DEF ReaderChunk, hostVars, dbVars, countVars, Kill, procVars, RemoveNext,
     ShutdownNext
<1>3. ASSUME NEW k \in Closers,
             CloseReap(k) \/ CloseHonest(k)
      PROVE  Deleted'
  BY <1>1, <1>3 DEF CloseReap, procVars, dbVars, countVars, CloseHonest
<1>4. ASSUME NEW w \in Workspaces,
             RemoveBegin(w)
      PROVE  Deleted'
  BY <1>1, <1>4 DEF RemoveBegin, procVars, hostVars, dbVars, countVars
<1>5. ASSUME RemoveMark \/ RemoveTake \/ RemoveAwait \/ RemoveStrays \/ ShutdownTake \/ Restart
      PROVE  Deleted'
  BY <1>1, <1>5 DEF RemoveMark, procVars, dbVars, countVars, RemoveTake, RemoveAwait,
     RemoveStrays, hostVars, ShutdownTake, Restart
<1>6. ASSUME NEW s \in Sessions, ReaderEof(s) PROVE Deleted'
  BY <1>6 DEF HostInv, Quiet, Sweeping, Deleted, ReaderEof, Up, hostVars, dbVars, countVars
<1>7. ASSUME NEW s \in Sessions, ChildExit(s) PROVE Deleted'
  BY <1>7 DEF HostInv, Quiet, Sweeping, Deleted, ChildExit, Up, hostVars, dbVars, countVars
<1>8. ASSUME NEW s \in Sessions, WaitReturns(s) PROVE Deleted'
  BY <1>8 DEF HostInv, Quiet, Sweeping, Deleted, WaitReturns, Up, hostVars, dbVars, countVars
<1>9. ASSUME NEW s \in Sessions, OnExited(s) PROVE Deleted'
  <2>1. Exited(s)
    BY <1>9, OnExitedEffect
  <2>2. ASSUME NEW t \in Sessions, Quiet(t) PROVE Quiet(t)'
    BY <2>1, <2>2 DEF Exited, Quiet, Sweeping, procVars
  <2>. QED
    BY <2>1, <2>2 DEF Exited, HostInv, Deleted, TypeOK, dbVars
<1>10. ASSUME NEW s \in Sessions, FinalMeta(s) PROVE Deleted'
  BY <1>10 DEF HostInv, Quiet, Sweeping, Deleted, FinalMeta, Up, Upsert, procVars, hostVars,
     countVars, HasWorkspace
<1>11. ASSUME NEW s \in Sessions, FinalScrollback(s) PROVE Deleted'
  BY <1>11 DEF HostInv, Quiet, Sweeping, Deleted, FinalScrollback, Up, Append, procVars,
     hostVars, countVars
<1>12. ASSUME NEW s \in Sessions, CreateGate(s) PROVE Deleted'
  <2>1. Gated(s)
    BY <1>12, CreateGateEffect
  <2>2. ASSUME NEW t \in Sessions, Quiet(t) PROVE Quiet(t)'
    BY <2>1, <2>2 DEF Gated, Quiet, Sweeping, procVars
  <2>. QED
    BY <2>1, <2>2 DEF Gated, HostInv, Deleted, TypeOK, dbVars
<1>13. ASSUME NEW s \in Sessions, CreateExists(s) PROVE Deleted'
  BY <1>13 DEF HostInv, Quiet, Sweeping, Deleted, CreateExists, CreateStep, HasWorkspace,
     procVars, hostVars, dbVars, countVars, Up
<1>14. ASSUME NEW s \in Sessions, CreateSpawn(s) PROVE Deleted'
  BY <1>14 DEF HostInv, Quiet, Sweeping, Deleted, CreateSpawn, CreateStep, hostVars, dbVars,
     countVars, Up
<1>15. ASSUME NEW s \in Sessions, CreateInsert(s) PROVE Deleted'
  BY <1>15 DEF HostInv, Quiet, Sweeping, Deleted, CreateInsert, CreateStep, procVars, hostVars,
     dbVars, countVars, Up
<1>16. ASSUME NEW s \in Sessions, CreateMeta(s) PROVE Deleted'
  <2>1. Answered(s)
    BY <1>16, CreateMetaEffect
  <2>2. ASSUME NEW t \in Sessions, Quiet(t) PROVE Quiet(t)'
    BY <2>1, <2>2 DEF Answered, Quiet, Sweeping, procVars
  <2>. QED
    BY <2>1, <2>2 DEF Answered, HostInv, Deleted, TypeOK, dbVars
<1>17. ASSUME NEW s \in Sessions, CreatePersist(s) PROVE Deleted'
  BY <1>17 DEF HostInv, Quiet, Sweeping, Deleted, CreatePersist, CreateStep, Upsert, procVars,
     hostVars, countVars, Up, HasWorkspace
<1>18. ASSUME NEW k \in Closers, CloseSignal(k) PROVE Deleted'
  BY <1>18 DEF HostInv, Quiet, Sweeping, Deleted, CloseSignal, Up, hostVars, dbVars, countVars
<1>19. ASSUME NEW k \in Closers, CloseDelete(k) PROVE Deleted'
  BY <1>19 DEF TypeOK, HostInv, PoweredOff, Unborn, Named, Replayed, Quiet, Sweeping, Up,
     Deleted, CloseDelete, NoClose, procVars, hostVars, countVars
<1>20. ASSUME RemoveDelete PROVE Deleted'
  BY <1>20 DEF TypeOK, HostInv, Quiet, Sweeping, Deleted, RemoveDelete, Up, procVars, hostVars,
     countVars
<1>21. ASSUME SweepBegin PROVE Deleted'
  BY <1>21 DEF HostInv, Quiet, Sweeping, Deleted, SweepBegin, NoSweep, procVars, hostVars,
     dbVars
<1>22. ASSUME SweepUpsert PROVE Deleted'
  BY <1>22 DEF HostInv, Quiet, Sweeping, Deleted, SweepUpsert, Up, Upsert, procVars, hostVars,
     countVars, HasWorkspace
<1>23. ASSUME SweepSnapshot PROVE Deleted'
  BY <1>23 DEF HostInv, Quiet, Sweeping, Deleted, SweepSnapshot, Up, procVars, hostVars,
     dbVars, countVars
<1>24. ASSUME SweepAppend PROVE Deleted'
  BY <1>24 DEF HostInv, Quiet, Sweeping, Deleted, SweepAppend, Up, Append, procVars, hostVars,
     countVars
<1>25. ASSUME SweepEnd PROVE Deleted'
  BY <1>25 DEF HostInv, Quiet, Sweeping, Deleted, SweepEnd, Up, NoSweep, procVars, hostVars,
     dbVars, countVars
<1>26. ASSUME NEW s \in Sessions, SweepMeta(s) PROVE Deleted'
  BY <1>26 DEF HostInv, Quiet, Sweeping, Deleted, SweepMeta, Up, procVars, hostVars, dbVars,
     countVars
<1>27. ASSUME Shutdown PROVE Deleted'
  BY <1>27 DEF HostInv, Quiet, Sweeping, Deleted, Shutdown, NoSweep, procVars, hostVars,
     dbVars, countVars
<1>28. ASSUME Exit PROVE Deleted'
  BY <1>28 DEF TypeOK, HostInv, Quiet, Sweeping, Deleted, Exit, Flushed, PowerOff, NoFlush,
     NoClose, NoRemove, NoSweep, NotDown, dbVars, countVars
<1>29. ASSUME Crash PROVE Deleted'
  BY <1>29 DEF TypeOK, HostInv, Quiet, Sweeping, Deleted, Crash, Up, PowerOff, NoFlush,
     NoClose, NoRemove, NoSweep, NotDown, dbVars, countVars
<1>30. CASE UNCHANGED vars
  BY <1>30 DEF HostInv, Quiet, Sweeping, Deleted, vars, Up
<1>31. ASSUME NEW s \in Sessions, CreateFails(s) PROVE Deleted'
  <2>1. Failed(s)
    BY <1>31, CreateFailsEffect
  <2>2. ASSUME NEW t \in Sessions, Quiet(t) PROVE Quiet(t)'
    BY <2>1, <2>2 DEF Failed, Quiet, Sweeping
  <2>. QED
    BY <2>1, <2>2 DEF Failed, HostInv, Deleted, TypeOK, dbVars
<1>. QED
  BY <1>1, <1>2, <1>3, <1>4, <1>5, <1>6, <1>7, <1>8, <1>9, <1>10, <1>11, <1>12, <1>13, <1>14,
     <1>15, <1>16, <1>17, <1>18, <1>19, <1>20, <1>21, <1>22, <1>23, <1>24, <1>25, <1>26, <1>27,
     <1>28, <1>29, <1>30, <1>31 DEF Next, Thread, Create, CloseStep, RemoveStep, Sweep, ShutdownStep

\* A close, a sweep and a removal in progress name what they are about.
LEMMA NamedStep ==
  ASSUME TypeOK, HostInv, [Next]_vars
  PROVE  Named'
<1> USE HostAssumption DEF Closers, Lives
<1>1. CASE UNCHANGED <<close, sweep, remove>>
  BY <1>1 DEF HostInv, Sweeping, Named
<1>2. ASSUME NEW s \in Sessions,
             ReaderChunk(s) \/ ReaderEof(s) \/ ChildExit(s) \/ WaitReturns(s) \/ OnExited(s) \/
             FinalMeta(s) \/ FinalScrollback(s) \/ CreateGate(s) \/ CreateExists(s) \/
             CreateSpawn(s) \/ CreateFails(s) \/ CreateInsert(s) \/ CreateMeta(s) \/ CreatePersist(s)
      PROVE  Named'
  BY <1>1, <1>2 DEF ReaderChunk, hostVars, dbVars, countVars, ReaderEof, ChildExit,
     WaitReturns, OnExited, FinalMeta, procVars, FinalScrollback, CreateGate, CreateStep,
     CreateExists, CreateSpawn, CreateFails, CreateInsert, CreateMeta, CreatePersist
<1>3. ASSUME ShutdownTake \/ Restart
      PROVE  Named'
  BY <1>1, <1>3 DEF ShutdownTake, procVars, dbVars, countVars, Restart, hostVars
<1>4. ASSUME NEW s \in Sessions, Kill(s) PROVE Named'
  BY <1>4 DEF HostInv, Sweeping, Named, Kill, Up, NoClose, CloseOf, procVars, hostVars, dbVars,
     WithoutPty
<1>5. ASSUME NEW k \in Closers, CloseSignal(k) PROVE Named'
  BY <1>5 DEF HostInv, Sweeping, Named, CloseSignal, Up, hostVars, dbVars, countVars
<1>6. ASSUME NEW k \in Closers, CloseReap(k) PROVE Named'
  BY <1>6 DEF HostInv, Sweeping, Named, CloseReap, Up, Joined, Unlisted, NoClose, procVars,
     dbVars, countVars
<1>7. ASSUME NEW k \in Closers, CloseHonest(k) PROVE Named'
  <2>1. ClosedHonest(k)
    BY <1>7, CloseHonestEffect
  <2>2. \A j \in Closers : close'[j].pc # "idle" => close'[j].sess \in Sessions
    <3>1. close'[k].pc # "idle" => close'[k].sess = close[k].sess /\ close[k].pc # "idle"
      BY <2>1 DEF ClosedHonest
    <3>2. \A j \in Closers \ {k} : close'[j] = close[j]
      BY <2>1 DEF ClosedHonest
    <3>. QED
      BY <3>1, <3>2 DEF HostInv, Named
  <2>. QED
    BY <2>1, <2>2 DEF ClosedHonest, HostInv, Named, Sweeping
<1>8. ASSUME NEW k \in Closers, CloseDelete(k) PROVE Named'
  BY <1>8 DEF HostInv, Sweeping, Named, CloseDelete, Up, NoClose, procVars, hostVars, countVars
<1>9. ASSUME NEW w \in Workspaces, RemoveBegin(w) PROVE Named'
  BY <1>9 DEF HostInv, Sweeping, Named, RemoveBegin, Up, NoRemove, procVars, hostVars, dbVars,
     countVars
<1>10. ASSUME RemoveMark PROVE Named'
  BY <1>10 DEF HostInv, Sweeping, Named, RemoveMark, Up, TrackedIn, procVars, dbVars, countVars
<1>11. ASSUME RemoveTake PROVE Named'
  BY <1>11 DEF HostInv, Sweeping, Named, RemoveTake, Up, NoClose, procVars, dbVars, countVars
<1>12. ASSUME RemoveAwait PROVE Named'
  <2>1. remove'.pc # "idle" => remove'.ws \in Workspaces
    <3>1. CASE remove.phase = 1
      <4>1. remove' = [remove EXCEPT !.pc = "delete", !.took = {}]
        BY <1>12, <3>1 DEF RemoveAwait
      <4>2. remove'.ws = remove.ws
        BY <4>1 DEF TypeOK, Removals
      <4>. QED
        BY <1>12, <4>2 DEF RemoveAwait, HostInv, Named
    <3>2. CASE remove.phase # 1
      BY <1>12, <3>2 DEF RemoveAwait, NoRemove
    <3>. QED
      BY <3>1, <3>2
  <2>. QED
    BY <1>12, <2>1 DEF RemoveAwait, HostInv, Named, Sweeping
<1>13. ASSUME RemoveDelete PROVE Named'
  BY <1>13 DEF HostInv, Sweeping, Named, RemoveDelete, Up, procVars, hostVars, countVars
<1>14. ASSUME RemoveStrays PROVE Named'
  BY <1>14 DEF HostInv, Sweeping, Named, RemoveStrays, Up, Strays, TrackedIn, procVars,
     hostVars, dbVars, countVars
<1>15. ASSUME NEW s \in Sessions, RemoveNext(s) PROVE Named'
  BY <1>15 DEF HostInv, Sweeping, Named, RemoveNext, Up, NoClose, CloseOf, procVars, dbVars,
     countVars, WithoutPty
<1>16. ASSUME SweepBegin PROVE Named'
  BY <1>16 DEF HostInv, Sweeping, Named, SweepBegin, NoSweep, procVars, hostVars, dbVars
<1>17. ASSUME SweepUpsert PROVE Named'
  BY <1>17 DEF HostInv, Sweeping, Named, SweepUpsert, Up, Upsert, procVars, hostVars,
     countVars, HasWorkspace
<1>18. ASSUME SweepSnapshot PROVE Named'
  BY <1>18 DEF HostInv, Sweeping, Named, SweepSnapshot, Up, procVars, hostVars, dbVars,
     countVars
<1>19. ASSUME SweepAppend PROVE Named'
  BY <1>19 DEF HostInv, Sweeping, Named, SweepAppend, Up, Append, procVars, hostVars, countVars
<1>20. ASSUME SweepEnd PROVE Named'
  BY <1>20 DEF HostInv, Sweeping, Named, SweepEnd, Up, NoSweep, procVars, hostVars, dbVars,
     countVars
<1>21. ASSUME NEW s \in Sessions, SweepMeta(s) PROVE Named'
  BY <1>21 DEF HostInv, Sweeping, Named, SweepMeta, Up, procVars, hostVars, dbVars, countVars
<1>22. ASSUME Shutdown PROVE Named'
  BY <1>22 DEF HostInv, Sweeping, Named, Shutdown, NoSweep, procVars, hostVars, dbVars,
     countVars
<1>23. ASSUME Exit PROVE Named'
  BY <1>23 DEF HostInv, Sweeping, Named, Exit, Flushed, PowerOff, NoFlush, NoClose, NoRemove,
     NoSweep, NotDown, dbVars, countVars
<1>24. ASSUME NEW s \in Sessions, ShutdownNext(s) PROVE Named'
  BY <1>24 DEF HostInv, Sweeping, Named, ShutdownNext, NoClose, CloseOf, procVars, hostVars,
     dbVars, countVars, WithoutPty
<1>25. ASSUME Crash PROVE Named'
  BY <1>25 DEF HostInv, Sweeping, Named, Crash, Up, PowerOff, NoFlush, NoClose, NoRemove,
     NoSweep, NotDown, dbVars, countVars
<1>26. CASE UNCHANGED vars
  BY <1>26 DEF HostInv, Sweeping, Named, vars, Up
<1>. QED
  BY <1>1, <1>2, <1>3, <1>4, <1>5, <1>6, <1>7, <1>8, <1>9, <1>10, <1>11, <1>12, <1>13, <1>14,
     <1>15, <1>16, <1>17, <1>18, <1>19, <1>20, <1>21, <1>22, <1>23, <1>24, <1>25, <1>26 DEF Next,
     Thread, Create, CloseStep, RemoveStep, Sweep, ShutdownStep

\* Kill takes a session off the map only after its wait thread has seen the child die.
LEMMA LiveIsTrackedStep ==
  ASSUME TypeOK, HostInv, [Next]_vars
  PROVE  LiveIsTracked'
<1> USE HostAssumption DEF Closers, Lives
<1>1. CASE UNCHANGED <<boot, child, map, create>>
  BY <1>1 DEF HostInv, Up, LiveIsTracked
<1>2. ASSUME NEW s \in Sessions,
             ReaderChunk(s) \/ ReaderEof(s) \/ WaitReturns(s) \/ OnExited(s) \/ FinalMeta(s) \/
             FinalScrollback(s) \/ Kill(s) \/ RemoveNext(s) \/ SweepMeta(s) \/ ShutdownNext(s)
      PROVE  LiveIsTracked'
  BY <1>1, <1>2 DEF ReaderChunk, hostVars, dbVars, countVars, ReaderEof, WaitReturns, OnExited,
     FinalMeta, procVars, FinalScrollback, Kill, RemoveNext, SweepMeta, ShutdownNext
<1>3. ASSUME NEW k \in Closers,
             CloseDelete(k)
      PROVE  LiveIsTracked'
  BY <1>1, <1>3 DEF CloseDelete, procVars, hostVars, countVars
<1>4. ASSUME NEW w \in Workspaces,
             RemoveBegin(w)
      PROVE  LiveIsTracked'
  BY <1>1, <1>4 DEF RemoveBegin, procVars, hostVars, dbVars, countVars
<1>5. ASSUME RemoveMark \/ RemoveTake \/ RemoveAwait \/ RemoveDelete \/ RemoveStrays \/
             SweepBegin \/ SweepUpsert \/ SweepSnapshot \/ SweepAppend \/ SweepEnd
      PROVE  LiveIsTracked'
  BY <1>1, <1>5 DEF RemoveMark, procVars, dbVars, countVars, RemoveTake, RemoveAwait,
     RemoveDelete, hostVars, RemoveStrays, SweepBegin, SweepUpsert, SweepSnapshot, SweepAppend,
     SweepEnd
<1>6. ASSUME NEW s \in Sessions, ChildExit(s) PROVE LiveIsTracked'
  BY <1>6 DEF HostInv, Up, LiveIsTracked, ChildExit, hostVars, dbVars, countVars
<1>7. ASSUME NEW s \in Sessions, CreateGate(s) PROVE LiveIsTracked'
  <2>1. Gated(s)
    BY <1>7, CreateGateEffect
  <2>2. ASSUME NEW t \in Sessions, create[t].pc \in {"insert", "failed"}
        PROVE  create'[t].pc = create[t].pc
    BY <2>1, <2>2 DEF Gated
  <2>. QED
    BY <2>1, <2>2 DEF Gated, HostInv, LiveIsTracked, Up, procVars
<1>8. ASSUME NEW s \in Sessions, CreateExists(s) PROVE LiveIsTracked'
  BY <1>8 DEF HostInv, Up, LiveIsTracked, CreateExists, CreateStep, HasWorkspace, procVars,
     hostVars, dbVars, countVars
<1>9. ASSUME NEW s \in Sessions, CreateSpawn(s) PROVE LiveIsTracked'
  BY <1>9 DEF TypeOK, HostInv, Up, LiveIsTracked, CreateSpawn, CreateStep, hostVars, dbVars,
     countVars
<1>10. ASSUME NEW s \in Sessions, CreateInsert(s) PROVE LiveIsTracked'
  BY <1>10 DEF TypeOK, HostInv, Up, LiveIsTracked, CreateInsert, CreateStep, procVars,
     hostVars, dbVars, countVars
<1>11. ASSUME NEW s \in Sessions, CreateMeta(s) PROVE LiveIsTracked'
  <2>1. Answered(s)
    BY <1>11, CreateMetaEffect
  <2>2. ASSUME NEW t \in Sessions, create[t].pc \in {"insert", "failed"}
        PROVE  create'[t].pc = create[t].pc
    BY <2>1, <2>2 DEF Answered
  <2>. QED
    BY <2>1, <2>2 DEF Answered, HostInv, LiveIsTracked, Up, procVars
<1>12. ASSUME NEW s \in Sessions, CreatePersist(s) PROVE LiveIsTracked'
  BY <1>12 DEF HostInv, Up, LiveIsTracked, CreatePersist, CreateStep, Upsert, procVars,
     hostVars, countVars, HasWorkspace
<1>13. ASSUME NEW k \in Closers, CloseSignal(k) PROVE LiveIsTracked'
  BY <1>13 DEF HostInv, Up, LiveIsTracked, CloseSignal, hostVars, dbVars, countVars
<1>14. ASSUME NEW k \in Closers, CloseReap(k) PROVE LiveIsTracked'
  BY <1>14 DEF HostInv, Reaped, Replayed, Unborn, Named, Quiet, PoweredOff, Up, LiveIsTracked,
     CloseReap, Joined, Unlisted, NoClose, procVars, dbVars, countVars
<1>15. ASSUME NEW k \in Closers, CloseHonest(k) PROVE LiveIsTracked'
  <2>1. ClosedHonest(k)
    BY <1>15, CloseHonestEffect
  <2>. QED
    BY <2>1 DEF ClosedHonest, TypeOK, Rows, Flushes, Creates, Closes, Sweeps, HostInv, Reaped,
       Replayed, Unborn, Named, Quiet, PoweredOff, Up, LiveIsTracked, procVars, hostVars, dbVars,
       countVars, NoClose
<1>16. ASSUME Shutdown PROVE LiveIsTracked'
  BY <1>16 DEF HostInv, Up, LiveIsTracked, Shutdown, NoSweep, procVars, hostVars, dbVars,
     countVars
<1>17. ASSUME ShutdownTake PROVE LiveIsTracked'
  BY <1>17 DEF HostInv, Up, LiveIsTracked, ShutdownTake, NoClose, procVars, dbVars, countVars
<1>18. ASSUME Exit PROVE LiveIsTracked'
  BY <1>18 DEF HostInv, Up, LiveIsTracked, Exit, Flushed, PowerOff, NoFlush, NoClose, NoRemove,
     NoSweep, NotDown, dbVars, countVars
<1>19. ASSUME Crash PROVE LiveIsTracked'
  BY <1>19 DEF HostInv, Up, LiveIsTracked, Crash, PowerOff, NoFlush, NoClose, NoRemove,
     NoSweep, NotDown, dbVars, countVars
<1>20. ASSUME Restart PROVE LiveIsTracked'
  BY <1>20 DEF HostInv, Reaped, Replayed, Unborn, Named, Quiet, PoweredOff, Up, LiveIsTracked,
     Restart, hostVars, dbVars
<1>21. CASE UNCHANGED vars
  BY <1>21 DEF HostInv, Up, LiveIsTracked, vars
<1>22. ASSUME NEW s \in Sessions, CreateFails(s) PROVE LiveIsTracked'
  <2>1. Failed(s)
    BY <1>22, CreateFailsEffect
  <2>. QED
    BY <2>1 DEF Failed, HostInv, LiveIsTracked, Up
<1>. QED
  BY <1>1, <1>2, <1>3, <1>4, <1>5, <1>6, <1>7, <1>8, <1>9, <1>10, <1>11, <1>12, <1>13, <1>14,
     <1>15, <1>16, <1>17, <1>18, <1>19, <1>20, <1>21, <1>22 DEF Next, Thread, Create, CloseStep,
     RemoveStep, Sweep, ShutdownStep

Inv == TypeOK /\ HostInv

-----------------------------------------------------------------------------
\* A daemon that has just started, before any request, satisfies the invariant.
LEMMA InvInit == Init => Inv
<1> SUFFICES ASSUME Init PROVE Inv
  OBVIOUS
<1> USE HostAssumption DEF Closers, Lives, Init
<1>1. child \in [Sessions -> {"none", "alive", "dead"}] /\ 0 \in 0..MaxOut
  OBVIOUS
<1>2. fin \in [Sessions -> Flushes]
  BY <1>1 DEF NoFlush, Flushes
<1>3. create \in [Sessions -> Creates]
  BY DEF Creates
<1>4. close \in [Closers -> Closes]
  BY DEF NoClose, Closes
<1>5. remove \in Removals
  BY DEF NoRemove, Removals
<1>6. sweep \in Sweeps /\ down \in Drains
  BY <1>1 DEF NoSweep, Sweeps, NotDown, Drains
<1>7. TypeOK
  BY <1>1, <1>2, <1>3, <1>4, <1>5, <1>6 DEF TypeOK
<1>8. HostInv
  BY DEF HostInv, PoweredOff, Unborn, Reaped, Replayed, Deleted, Named, LiveIsTracked, Quiet,
         Sweeping, Up, NoFlush, NoClose, NoRemove, NoSweep
<1>. QED
  BY <1>7, <1>8 DEF Inv

\* No request, thread, task, crash or restart leaves the invariant.
LEMMA InvStep == Inv /\ [Next]_vars => Inv'
<1> SUFFICES ASSUME Inv, [Next]_vars PROVE Inv'
  OBVIOUS
<1>1. TypeOK /\ HostInv
  BY DEF Inv
<1>2. TypeOK'
  BY <1>1, TypeStep
<1>3. PoweredOff' /\ Unborn' /\ Reaped' /\ Replayed'
  BY <1>1, PoweredOffStep, UnbornStep, ReapedStep, ReplayedStep
<1>4. Deleted' /\ Named' /\ LiveIsTracked'
  BY <1>1, DeletedStep, NamedStep, LiveIsTrackedStep
<1>. QED
  BY <1>2, <1>3, <1>4 DEF Inv, HostInv

\* The invariant that the theorems below are read off.
LEMMA HostInvariant == Spec => []Inv
BY InvInit, InvStep, PTL DEF Spec

\* The daemon is type correct, however many sessions it has and however often it is restarted.
THEOREM HostTypeCorrect == Spec => []TypeOK
<1>1. Inv => TypeOK
  BY DEF Inv
<1>. QED
  BY <1>1, HostInvariant, PTL

\* Whatever closes, removals, sweeps, restarts and other creates do, a child that is alive is in
\* the map, about to be, or left over from a create that failed after the spawn: that failure
\* (pty_supervisor.rs, the error returns of create) is the one way a child gets lost.
THEOREM TrackedTheorem == Spec => []LiveIsTracked
<1>1. Inv => LiveIsTracked
  BY DEF Inv, HostInv
<1>. QED
  BY <1>1, HostInvariant, PTL

\* No create, flush tick or final flush in flight, in this process or the next, brings back a row
\* that an honest close or delete_workspace has deleted.
THEOREM ResurrectionTheorem == Spec => []NoResurrection
<1>1. Inv => NoResurrection
  BY DEF Inv, HostInv, Deleted, NoResurrection
<1>. QED
  BY <1>1, HostInvariant, PTL

-----------------------------------------------------------------------------
(* The ends: of a session, of a workspace and of the daemon.  What a kill,  *)
(* a removal and the shutdown promise rests on how far each has got with    *)
(* each session, and on who holds the handle of each final flush.           *)

\* A session in the map as a process is in live_sessions, once its create has got as far; one that
\* is in live_sessions has been answered or is about to be.
Listed ==
  \A s \in Sessions :
    /\ map[s] = "pty" => create[s].pc = "meta" \/ s \in live
    /\ s \in live => create[s].pc \in {"persist", "done"}
    /\ create[s].pc \in {"insert", "failed"} => map[s] = "no"

\* Until its callback has captured the final state a session stays in the map, but for one that
\* a failed create never put there.
WaitTracked ==
  \A s \in Sessions :
    wait[s] \in {"wait", "callback"} => map[s] = "pty" \/ create[s].pc \in {"insert", "failed"}

\* What is shown without a process has its row until it is closed.
Shown ==
  /\ \A s \in Sessions : map[s] = "replay" => row[s] # NoRow
  /\ \A k \in Closers : close[k].pc = "delete" => map[close[k].sess] = "no"

\* The close that the removal waits for is of s, and s is still in the map.
BeingRemoved(s) == close["remove"].pc \in {"signal", "reap", "honest"} /\ close["remove"].sess = s

\* A removal misses nobody: what is shown in its workspace is among the victims, and a session it
\* answers for is out of the map, among the victims or being closed.
Victims ==
  /\ remove.phase = 2 => remove.pc \in {"sweep", "await"}
  /\ remove.pc = "mark" =>
       \A s \in Sessions : WsOf[s] = remove.ws /\ map[s] = "replay" => s \in remove.todo
  /\ remove.pc \in {"sweep", "await", "delete", "strays"} =>
       /\ \A s \in Sessions : WsOf[s] = remove.ws /\ map[s] = "replay" => s \in remove.known
       /\ \A s \in remove.known :
            /\ WsOf[s] = remove.ws /\ create[s].pc \in {"persist", "done"}
            /\ map[s] = "no" \/ s \in remove.todo \/ BeingRemoved(s)
  /\ remove.pc \in {"await", "delete", "strays"} =>
       remove.todo = {} /\ close["remove"].pc = "idle"
  /\ remove.phase = 2 \/ remove.pc = "strays" =>
       \A s \in Sessions : WsOf[s] = remove.ws => s \in gone

Flushing(s) == fin[s].pc \in {"meta", "scroll"}
TakenByRemoval(s) == remove.pc = "await" /\ s \in remove.took

\* Somebody can await a final flush that runs: its handle is pending or was taken.
Awaitable ==
  \A s \in Sessions : Flushing(s) =>
    s \in pend \/ TakenByRemoval(s) \/ (boot = "await" /\ s \in down.took)

\* shutdown_all goes on to the flushes when every session it saw has captured its final state.
Draining ==
  /\ boot \in {"killing", "await"} =>
       \A s \in down.ids :
         /\ create[s].pc \in {"meta", "persist", "done"}
         /\ \/ wait[s] \in {"none", "done"}
            \/ boot = "killing" /\ s \in down.todo
            \/ boot = "killing" /\ close["boot"].pc \in {"signal", "reap"} /\ close["boot"].sess = s
  /\ boot = "await" =>
       \A s \in down.ids : Flushing(s) => TakenByRemoval(s) \/ s \in down.took

EndInv == Listed /\ WaitTracked /\ Shown /\ Victims /\ Awaitable /\ Draining

-----------------------------------------------------------------------------
\* The steps of readers, of children and of the flush tick; no step.
Aside ==
  \/ \E s \in Sessions : ReaderChunk(s) \/ ReaderEof(s) \/ ChildExit(s)
  \/ Sweep
  \/ UNCHANGED vars

\* An upsert leaves every row that is there in place.
LEMMA UpsertKeeps ==
  ASSUME TypeOK, NEW s, NEW l \in Lives, Upsert(s, l)
  PROVE  \A t \in Sessions : row[t] # NoRow => row'[t] # NoRow
<1> SUFFICES ASSUME NEW t \in Sessions, row[t] # NoRow PROVE row'[t] # NoRow
  OBVIOUS
<1>1. CASE row' = row
  BY <1>1
<1>2. CASE row' # row
  <2> DEFINE r == [life |-> l, ring |-> IF row[s] = NoRow THEN 0 ELSE row[s].ring]
  <2>1. row' = [row EXCEPT ![s] = r]
    BY <1>2 DEF Upsert
  <2>2. CASE t = s
    <3>1. row[s] \in Rows
      BY <2>2 DEF TypeOK
    <3>2. r \in Rows
      BY <2>2, <3>1 DEF Rows
    <3>3. row'[t] = r
      BY <2>1, <2>2 DEF TypeOK
    <3>. QED
      BY <3>2, <3>3, RowAssumption
  <2>3. CASE t # s
    BY <2>1, <2>3 DEF TypeOK
  <2>. QED
    BY <2>2, <2>3
<1>. QED
  BY <1>1, <1>2

\* So does a write of scrollback.
LEMMA AppendKeeps ==
  ASSUME TypeOK, NEW s, NEW r \in 0..MaxOut, Append(s, r)
  PROVE  \A t \in Sessions : row[t] # NoRow => row'[t] # NoRow
<1> SUFFICES ASSUME NEW t \in Sessions, row[t] # NoRow PROVE row'[t] # NoRow
  OBVIOUS
<1>1. CASE row[s] = NoRow
  BY <1>1 DEF Append
<1>2. CASE row[s] # NoRow
  <2>1. row' = [row EXCEPT ![s] = [row[s] EXCEPT !.ring = r]]
    BY <1>2 DEF Append
  <2>2. row[t] \in Rows
    BY DEF TypeOK
  <2>3. CASE t = s
    <3>1. [row[s] EXCEPT !.ring = r] \in Rows
      BY <2>2, <2>3 DEF Rows
    <3>. QED
      BY <2>1, <2>3, <3>1, RowAssumption DEF TypeOK
  <2>4. CASE t # s
    BY <2>1, <2>4 DEF TypeOK
  <2>. QED
    BY <2>3, <2>4
<1>. QED
  BY <1>1, <1>2

\* What is neither captured, tracked, closed nor awaited by them.
LEMMA AsideEffect ==
  ASSUME TypeOK, Aside
  PROVE  /\ UNCHANGED <<wait, map, fin, create, live, closing, pend, close, remove, boot, down, gone>>
         /\ \A s \in Sessions : row[s] # NoRow => row'[s] # NoRow
<1>0. sweep.life \in Lives /\ sweep.ring \in 0..MaxOut
  BY DEF TypeOK, Sweeps
<1>1. ASSUME NEW s \in Sessions, ReaderChunk(s) \/ ReaderEof(s) \/ ChildExit(s)
      PROVE  UNCHANGED <<wait, map, fin, create, live, closing, pend, close, remove, boot, down, dbVars>>
  BY <1>1 DEF ReaderChunk, ReaderEof, ChildExit, hostVars
<1>2. ASSUME NEW s \in Sessions, SweepMeta(s)
      PROVE  UNCHANGED <<procVars, map, fin, create, hostVars, close, remove, boot, down, dbVars>>
  BY <1>2 DEF SweepMeta
<1>3. ASSUME SweepBegin \/ SweepSnapshot \/ SweepEnd
      PROVE  UNCHANGED <<procVars, map, fin, create, hostVars, close, remove, boot, down, dbVars>>
  BY <1>3 DEF SweepBegin, SweepSnapshot, SweepEnd
<1>4. ASSUME SweepUpsert
      PROVE  /\ UNCHANGED <<procVars, map, fin, create, hostVars, close, remove, boot, down, gone>>
             /\ \A s \in Sessions : row[s] # NoRow => row'[s] # NoRow
  <2>1. \A s \in Sessions : row[s] # NoRow => row'[s] # NoRow
    BY <1>0, <1>4, UpsertKeeps DEF SweepUpsert
  <2>. QED
    BY <1>4, <2>1 DEF SweepUpsert
<1>5. ASSUME SweepAppend
      PROVE  /\ UNCHANGED <<procVars, map, fin, create, hostVars, close, remove, boot, down, gone>>
             /\ \A s \in Sessions : row[s] # NoRow => row'[s] # NoRow
  <2>1. \A s \in Sessions : row[s] # NoRow => row'[s] # NoRow
    BY <1>0, <1>5, AppendKeeps DEF SweepAppend
  <2>. QED
    BY <1>5, <2>1 DEF SweepAppend
<1>6. CASE UNCHANGED vars
  BY <1>6 DEF vars
<1>. QED
  BY <1>1, <1>2, <1>3, <1>4, <1>5, <1>6 DEF Aside, Sweep, procVars, hostVars, dbVars

\* A create moves on alone.
LEMMA CreateMoves ==
  ASSUME TypeOK, NEW s \in Sessions, NEW p, NEW q, CreateStep(s, p, q)
  PROVE  /\ create[s].pc = p /\ create'[s].pc = q
         /\ \A t \in Sessions \ {s} : create'[t] = create[t]
<1>1. create \in [Sessions -> Creates] /\ create' = [create EXCEPT ![s].pc = q]
  BY DEF TypeOK, CreateStep
<1>2. create[s] \in Creates
  BY <1>1
<1>. QED
  BY <1>1, <1>2 DEF Creates, CreateStep

\* What the end of the process leaves.
LEMMA PowerOffEffect ==
  ASSUME PowerOff
  PROVE  /\ \A s \in Sessions : /\ map'[s] = "no" /\ wait'[s] = "none" /\ fin'[s].pc = "none"
                                /\ create'[s].pc \in {"new", "done"}
         /\ live' = {} /\ remove'.pc = "idle" /\ remove'.phase = 1
         /\ \A k \in Closers : close'[k].pc = "idle"
  BY DEF PowerOff, NoFlush, NoRemove, NoClose

-----------------------------------------------------------------------------
\* live_sessions gains a session before its create goes on from meta, and loses it only when, or
\* after, the map does.
LEMMA ListedStep ==
  ASSUME TypeOK, HostInv, Listed, [Next]_vars
  PROVE  Listed'
<1>1. CASE Aside
  BY <1>1, AsideEffect DEF Listed
<1>2. CASE \/ \E s \in Sessions : \/ WaitReturns(s) \/ OnExited(s) \/ FinalMeta(s)
                                  \/ FinalScrollback(s) \/ Kill(s) \/ ShutdownNext(s)
           \/ \E k \in Closers : CloseSignal(k) \/ CloseDelete(k)
           \/ \E w \in Workspaces : RemoveBegin(w)
           \/ RemoveMark \/ RemoveTake \/ RemoveAwait \/ RemoveDelete \/ RemoveStrays
           \/ Shutdown \/ ShutdownTake
  <2>1. UNCHANGED <<create, map, live>>
    BY <1>2 DEF WaitReturns, OnExited, FinalMeta, FinalScrollback, Kill, ShutdownNext, CloseSignal,
       CloseDelete, RemoveBegin, RemoveMark, RemoveTake, RemoveAwait, RemoveDelete, RemoveStrays,
       Shutdown, ShutdownTake, hostVars
  <2>. QED
    BY <2>1 DEF Listed
<1>3. ASSUME NEW s \in Sessions, CreateGate(s) PROVE Listed'
  <2>1. Gated(s)
    BY <1>3, CreateGateEffect
  <2>2. map[s] = "no"
    BY <2>1 DEF Gated, HostInv, Unborn
  <2>. QED
    BY <2>1, <2>2 DEF Gated, Listed, hostVars
<1>4. ASSUME NEW s \in Sessions, CreateExists(s) PROVE Listed'
  <2>1. /\ create[s].pc = "exists" /\ create'[s].pc \in {"spawn", "done"}
        /\ \A t \in Sessions \ {s} : create'[t] = create[t]
    BY <1>4, CreateMoves DEF CreateExists
  <2>2. map[s] = "no"
    BY <2>1 DEF HostInv, Unborn
  <2>. QED
    BY <1>4, <2>1, <2>2 DEF CreateExists, Listed, hostVars
<1>5. ASSUME NEW s \in Sessions, CreateSpawn(s) PROVE Listed'
  <2>1. /\ create[s].pc = "spawn" /\ create'[s].pc = "insert"
        /\ \A t \in Sessions \ {s} : create'[t] = create[t]
    BY <1>5, CreateMoves DEF CreateSpawn
  <2>2. map[s] = "no"
    BY <2>1 DEF HostInv, Unborn
  <2>. QED
    BY <1>5, <2>1, <2>2 DEF CreateSpawn, Listed, hostVars
<1>6. ASSUME NEW s \in Sessions, CreateInsert(s) PROVE Listed'
  <2>1. /\ create[s].pc = "insert" /\ create'[s].pc = "meta"
        /\ \A t \in Sessions \ {s} : create'[t] = create[t]
    BY <1>6, CreateMoves DEF CreateInsert
  <2>2. map' = [map EXCEPT ![s] = "pty"] /\ live' = live
    BY <1>6 DEF CreateInsert, hostVars
  <2>. QED
    BY <2>1, <2>2 DEF Listed, TypeOK
<1>7. ASSUME NEW s \in Sessions, CreateMeta(s) PROVE Listed'
  <2>1. Answered(s)
    BY <1>7, CreateMetaEffect
  <2>2. CASE map[s] = "no"
    <3>1. live' = live
      BY <1>7, <2>2 DEF CreateMeta
    <3>. QED
      BY <2>1, <2>2, <3>1 DEF Answered, Listed
  <2>3. CASE map[s] # "no"
    <3>1. live' = live \cup {s}
      BY <1>7, <2>3 DEF CreateMeta, ListedLive
    <3>. QED
      BY <2>1, <2>3, <3>1 DEF Answered, Listed
  <2>. QED
    BY <2>2, <2>3
<1>8. ASSUME NEW s \in Sessions, CreatePersist(s) PROVE Listed'
  <2>1. /\ create[s].pc = "persist" /\ create'[s].pc = "done"
        /\ \A t \in Sessions \ {s} : create'[t] = create[t]
    BY <1>8, CreateMoves DEF CreatePersist
  <2>. QED
    BY <1>8, <2>1 DEF CreatePersist, Listed, hostVars
<1>9. ASSUME NEW k \in Closers, CloseReap(k) PROVE Listed'
  BY <1>9 DEF CloseReap, Unlisted, Listed, TypeOK
<1>10. ASSUME NEW k \in Closers, CloseHonest(k) PROVE Listed'
  <2>1. create' = create /\ \A s \in Sessions : map'[s] = "no" \/ map'[s] = map[s]
    BY <1>10 DEF CloseHonest, TypeOK
  <2>2. /\ live' = live \/ live' = live \ {close[k].sess}
        /\ close[k].sess \in Sessions => map'[close[k].sess] = "no"
    BY <1>10 DEF CloseHonest, Unlisted, TypeOK
  <2>3. close[k].sess \in Sessions
    BY <1>10 DEF CloseHonest, HostInv, Named
  <2>. QED
    BY <2>1, <2>2, <2>3 DEF Listed
<1>11. ASSUME NEW s \in Sessions, RemoveNext(s) PROVE Listed'
  BY <1>11 DEF RemoveNext, Listed
<1>12. ASSUME Exit \/ Crash PROVE Listed'
  BY <1>12, PowerOffEffect DEF Exit, Crash, Listed
<1>13. ASSUME Restart PROVE Listed'
  BY <1>13 DEF Restart, Listed, HostInv, PoweredOff, hostVars
<1>14. ASSUME NEW s \in Sessions, CreateFails(s) PROVE Listed'
  <2>1. Failed(s)
    BY <1>14, CreateFailsEffect
  <2>2. map[s] = "no"
    BY <2>1 DEF Failed, HostInv, Unborn
  <2>. QED
    BY <2>1, <2>2 DEF Failed, Listed, hostVars
<1>. QED
  BY <1>1, <1>2, <1>3, <1>4, <1>5, <1>6, <1>7, <1>8, <1>9, <1>10, <1>11, <1>12, <1>13, <1>14
     DEF Next, Aside, Thread, Create, CloseStep, RemoveStep, ShutdownStep

\* A session that is still waited for is not taken off the map: kill joins the wait thread first.
LEMMA WaitTrackedStep ==
  ASSUME TypeOK, HostInv, WaitTracked, [Next]_vars
  PROVE  WaitTracked'
<1>1. CASE Aside
  BY <1>1, AsideEffect DEF WaitTracked
<1>2. CASE \/ \E s \in Sessions : \/ FinalMeta(s) \/ FinalScrollback(s) \/ Kill(s)
                                  \/ ShutdownNext(s) \/ RemoveNext(s)
           \/ \E k \in Closers : CloseSignal(k) \/ CloseDelete(k)
           \/ \E w \in Workspaces : RemoveBegin(w)
           \/ RemoveMark \/ RemoveTake \/ RemoveAwait \/ RemoveDelete \/ RemoveStrays
           \/ Shutdown \/ ShutdownTake
  <2>1. UNCHANGED <<create, map, wait>>
    BY <1>2 DEF FinalMeta, FinalScrollback, Kill, ShutdownNext, RemoveNext, CloseSignal,
       CloseDelete, RemoveBegin, RemoveMark, RemoveTake, RemoveAwait, RemoveDelete, RemoveStrays,
       Shutdown, ShutdownTake, procVars
  <2>. QED
    BY <2>1 DEF WaitTracked
<1>3. ASSUME NEW s \in Sessions, WaitReturns(s) \/ OnExited(s) PROVE WaitTracked'
  BY <1>3 DEF WaitReturns, OnExited, WaitTracked, TypeOK
<1>4. ASSUME NEW s \in Sessions, CreateGate(s) PROVE WaitTracked'
  BY <1>4, CreateGateEffect DEF Gated, WaitTracked, procVars
<1>5. ASSUME NEW s \in Sessions, NEW p, NEW q, CreateStep(s, p, q), p \notin {"insert", "failed"},
             map' = map, wait' = wait
      PROVE  WaitTracked'
  BY <1>5, CreateMoves DEF WaitTracked
<1>6. ASSUME NEW s \in Sessions, CreateExists(s) \/ CreatePersist(s) PROVE WaitTracked'
  BY <1>5, <1>6 DEF CreateExists, CreatePersist, procVars
<1>7. ASSUME NEW s \in Sessions, CreateSpawn(s) PROVE WaitTracked'
  <2>1. /\ create'[s].pc = "insert"
        /\ \A t \in Sessions \ {s} : create'[t] = create[t]
    BY <1>7, CreateMoves DEF CreateSpawn
  <2>. QED
    BY <1>7, <2>1 DEF CreateSpawn, WaitTracked, TypeOK
<1>8. ASSUME NEW s \in Sessions, CreateInsert(s) PROVE WaitTracked'
  <2>1. \A t \in Sessions \ {s} : create'[t] = create[t]
    BY <1>8, CreateMoves DEF CreateInsert
  <2>. QED
    BY <1>8, <2>1 DEF CreateInsert, WaitTracked, TypeOK, procVars
<1>9. ASSUME NEW s \in Sessions, CreateMeta(s) PROVE WaitTracked'
  BY <1>9, CreateMetaEffect DEF Answered, WaitTracked, procVars
<1>10. ASSUME NEW k \in Closers, CloseReap(k) PROVE WaitTracked'
  BY <1>10 DEF CloseReap, Joined, WaitTracked, TypeOK, procVars
<1>11. ASSUME NEW k \in Closers, CloseHonest(k) PROVE WaitTracked'
  <2>1. wait[close[k].sess] = "none"
    BY <1>11 DEF CloseHonest, HostInv, Replayed, Quiet
  <2>2. \A s \in Sessions : s = close[k].sess \/ map'[s] = map[s]
    BY <1>11 DEF CloseHonest, TypeOK
  <2>. QED
    BY <1>11, <2>1, <2>2 DEF CloseHonest, WaitTracked, procVars
<1>12. ASSUME Exit \/ Crash PROVE WaitTracked'
  BY <1>12, PowerOffEffect DEF Exit, Crash, WaitTracked
<1>13. ASSUME Restart PROVE WaitTracked'
  BY <1>13 DEF Restart, WaitTracked, HostInv, PoweredOff
<1>14. ASSUME NEW s \in Sessions, CreateFails(s) PROVE WaitTracked'
  BY <1>14, CreateFailsEffect DEF Failed, WaitTracked
<1>. QED
  BY <1>1, <1>2, <1>3, <1>4, <1>6, <1>7, <1>8, <1>9, <1>10, <1>11, <1>12, <1>13, <1>14
     DEF Next, Aside, Thread, Create, CloseStep, RemoveStep, ShutdownStep

\* A close moves on alone, and stays with its session.
LEMMA CloseMoves ==
  ASSUME TypeOK, NEW k \in Closers, NEW p, close' = [close EXCEPT ![k].pc = p]
  PROVE  /\ close'[k].pc = p /\ close'[k].sess = close[k].sess
         /\ \A j \in Closers \ {k} : close'[j] = close[j]
<1>1. close \in [Closers -> Closes]
  BY DEF TypeOK
<1>2. close[k] \in Closes
  BY <1>1
<1>. QED
  BY <1>1, <1>2 DEF Closes

\* Where a close starts.
LEMMA CloseStarts ==
  ASSUME NEW k, NEW s
  PROVE  /\ CloseOf(k, s).pc \in {"idle", "honest", "signal"}
         /\ CloseOf(k, s).pc # "idle" => CloseOf(k, s).sess = s
         /\ map[s] = "pty" => CloseOf(k, s).pc = "signal"
         /\ map[s] = "replay" /\ k # "boot" => CloseOf(k, s).pc = "honest"
  BY DEF CloseOf, WithoutPty, NoClose

\* The rows of what is shown are deleted by nobody: an honest close has it off the map first, and
\* so have the closes of a removal.
LEMMA ShownStep ==
  ASSUME TypeOK, HostInv, Shown, Victims, [Next]_vars
  PROVE  Shown'
<1>1. CASE Aside
  BY <1>1, AsideEffect DEF Shown
<1>2. CASE \/ \E s \in Sessions : \/ WaitReturns(s) \/ OnExited(s) \/ CreateGate(s)
                                  \/ CreateExists(s) \/ CreateSpawn(s) \/ CreateFails(s)
                                  \/ CreateMeta(s)
           \/ \E w \in Workspaces : RemoveBegin(w)
           \/ RemoveMark \/ RemoveTake \/ RemoveAwait \/ RemoveStrays
           \/ Shutdown \/ ShutdownTake
  <2>1. UNCHANGED <<map, row, close>>
    BY <1>2 DEF WaitReturns, OnExited, CreateGate, CreateExists, CreateSpawn, CreateFails, CreateMeta,
       RemoveBegin, RemoveMark, RemoveTake, RemoveAwait, RemoveStrays, Shutdown, ShutdownTake, dbVars
  <2>. QED
    BY <2>1 DEF Shown
<1>3. ASSUME NEW s \in Sessions, FinalMeta(s) \/ FinalScrollback(s) \/ CreatePersist(s)
      PROVE  Shown'
  <2>1. /\ fin[s].life \in Lives /\ fin[s].ring \in 0..MaxOut /\ create[s].life \in Lives
    <3>1. fin[s] \in Flushes /\ create[s] \in Creates
      BY DEF TypeOK
    <3>. QED
      BY <3>1 DEF Flushes, Creates
  <2>2. \A t \in Sessions : row[t] # NoRow => row'[t] # NoRow
    BY <1>3, <2>1, UpsertKeeps, AppendKeeps DEF FinalMeta, FinalScrollback, CreatePersist
  <2>3. UNCHANGED <<map, close>>
    BY <1>3 DEF FinalMeta, FinalScrollback, CreatePersist
  <2>. QED
    BY <2>2, <2>3 DEF Shown
<1>4. ASSUME NEW s \in Sessions, CreateInsert(s) PROVE Shown'
  <2>1. create[s].pc = "insert"
    BY <1>4 DEF CreateInsert, CreateStep
  <2>2. \A k \in Closers : close[k].pc = "delete" => close[k].sess # s
    BY <2>1 DEF HostInv, Replayed, Quiet
  <2>3. map' = [map EXCEPT ![s] = "pty"] /\ UNCHANGED <<row, close>>
    BY <1>4 DEF CreateInsert, dbVars
  <2>4. \A k \in Closers : close[k].pc = "delete" => close[k].sess \in Sessions
    BY DEF HostInv, Named
  <2>. QED
    BY <2>2, <2>3, <2>4 DEF Shown, TypeOK
<1>5. ASSUME NEW s \in Sessions, NEW k \in Closers, close' = [close EXCEPT ![k] = CloseOf(k, s)],
             map' = map, row' = row
      PROVE  Shown'
  <2>1. close'[k].pc # "delete" /\ \A j \in Closers \ {k} : close'[j] = close[j]
    BY <1>5, CloseStarts DEF TypeOK
  <2>. QED
    BY <1>5, <2>1 DEF Shown
<1>6. ASSUME NEW s \in Sessions, Kill(s) \/ RemoveNext(s) \/ ShutdownNext(s) PROVE Shown'
  BY <1>5, <1>6 DEF Kill, RemoveNext, ShutdownNext, dbVars, Closers
<1>7. ASSUME NEW k \in Closers, CloseSignal(k) PROVE Shown'
  <2>1. close'[k].pc = "reap" /\ \A j \in Closers \ {k} : close'[j] = close[j]
    BY <1>7, CloseMoves DEF CloseSignal
  <2>. QED
    BY <1>7, <2>1 DEF CloseSignal, Shown, dbVars
<1>8. ASSUME NEW k \in Closers, CloseReap(k) PROVE Shown'
  BY <1>8 DEF CloseReap, Shown, TypeOK, NoClose, dbVars, HostInv, Named
<1>9. ASSUME NEW k \in Closers, CloseHonest(k) PROVE Shown'
  <2>1. ClosedHonest(k)
    BY <1>9, CloseHonestEffect
  <2>2. \A j \in Closers : close[j].pc # "idle" => close[j].sess \in Sessions
    BY DEF HostInv, Named
  <2>. QED
    BY <2>1, <2>2 DEF ClosedHonest, Shown, TypeOK, dbVars
<1>10. ASSUME NEW k \in Closers, CloseDelete(k) PROVE Shown'
  <2>1. /\ close[k].pc = "delete" /\ map' = map /\ row' = [row EXCEPT ![close[k].sess] = NoRow]
        /\ close' = [close EXCEPT ![k] = NoClose]
    BY <1>10 DEF CloseDelete
  <2>2. map[close[k].sess] = "no"
    BY <2>1 DEF Shown
  <2>3. \A s \in Sessions : map[s] = "replay" => row'[s] = row[s]
    BY <2>1, <2>2 DEF TypeOK
  <2>4. \A j \in Closers : close'[j].pc = "delete" => close'[j] = close[j]
    BY <2>1 DEF TypeOK, NoClose
  <2>. QED
    BY <2>1, <2>3, <2>4 DEF Shown
<1>11. ASSUME RemoveDelete PROVE Shown'
  <2>1. /\ UNCHANGED <<map, close>> /\ remove.pc = "delete"
        /\ row' = [s \in Sessions |-> IF WsOf[s] = remove.ws THEN NoRow ELSE row[s]]
    BY <1>11 DEF RemoveDelete
  <2>2. ASSUME NEW s \in Sessions, WsOf[s] = remove.ws PROVE map[s] # "replay"
    BY <2>1, <2>2 DEF Victims, BeingRemoved
  <2>. QED
    BY <2>1, <2>2 DEF Shown
<1>12. ASSUME Exit \/ Crash PROVE Shown'
  BY <1>12, PowerOffEffect DEF Exit, Crash, Shown
<1>13. ASSUME Restart PROVE Shown'
  BY <1>13 DEF Restart, Shown, HostInv, PoweredOff, dbVars
<1>. QED
  BY <1>1, <1>2, <1>3, <1>4, <1>6, <1>7, <1>8, <1>9, <1>10, <1>11, <1>12, <1>13
     DEF Next, Aside, Thread, Create, CloseStep, RemoveStep, ShutdownStep

\* What others do while a removal goes on: no entry without a process appears, no create goes back,
\* and what is off the map stays off it.
Elsewhere ==
  /\ remove' = remove /\ gone \subseteq gone' /\ close'["remove"] = close["remove"]
  /\ \A s \in Sessions :
       /\ map'[s] = "replay" => map[s] = "replay"
       /\ create[s].pc \in {"persist", "done"} =>
            create'[s].pc \in {"persist", "done"} /\ (map[s] = "no" => map'[s] = "no")

\* The victims of a removal stay what they are while others move.
LEMMA VictimsElsewhere ==
  ASSUME TypeOK, Victims, Elsewhere
  PROVE  Victims'
<1>1. remove.known \subseteq Sessions
  BY DEF TypeOK, Removals
<1>. QED
  BY <1>1 DEF Elsewhere, Victims, BeingRemoved

\* A removal misses nobody, whatever creates, closes and threads do meanwhile.
LEMMA VictimsStep ==
  ASSUME TypeOK, HostInv, Listed, Shown, Victims, [Next]_vars
  PROVE  Victims'
<1>0. remove.known \subseteq Sessions /\ remove.todo \subseteq Sessions /\ gone \subseteq Sessions
  BY DEF TypeOK, Removals
<1>1. CASE Aside
  BY <1>1, AsideEffect, VictimsElsewhere DEF Elsewhere
<1>2. CASE \/ \E s \in Sessions : \/ WaitReturns(s) \/ OnExited(s) \/ FinalMeta(s)
                                  \/ FinalScrollback(s)
           \/ Shutdown \/ ShutdownTake
  <2>1. UNCHANGED <<create, map, close, remove, gone>>
    BY <1>2 DEF WaitReturns, OnExited, FinalMeta, FinalScrollback, Shutdown, ShutdownTake, dbVars
  <2>. QED
    BY <2>1, VictimsElsewhere DEF Elsewhere
<1>3. ASSUME NEW s \in Sessions, NEW p, NEW q, CreateStep(s, p, q),
             p # "persist" \/ q = "done", p # "done",
             UNCHANGED <<map, close, remove, gone>>
      PROVE  Victims'
  <2>1. /\ create[s].pc = p /\ create'[s].pc = q
        /\ \A t \in Sessions \ {s} : create'[t] = create[t]
    BY <1>3, CreateMoves
  <2>. QED
    BY <1>3, <2>1, VictimsElsewhere DEF Elsewhere
<1>4. ASSUME NEW s \in Sessions, \/ CreateGate(s) \/ CreateExists(s) \/ CreateSpawn(s)
                                 \/ CreateFails(s) \/ CreatePersist(s)
      PROVE  Victims'
  <2>1. UNCHANGED <<map, close, remove, gone>>
    BY <1>4 DEF CreateGate, CreateExists, CreateSpawn, CreateFails, CreatePersist, dbVars
  <2>2. \E p \in {"new", "exists", "spawn", "persist"},
           q \in {"done", "exists", "spawn", "insert", "failed"} :
          CreateStep(s, p, q) /\ (p = "persist" => q = "done")
    BY <1>4 DEF CreateGate, CreateExists, CreateSpawn, CreateFails, CreatePersist
  <2>. QED
    BY <1>3, <2>1, <2>2
<1>5. ASSUME NEW s \in Sessions, CreateInsert(s) PROVE Victims'
  <2>1. /\ create[s].pc = "insert" /\ create'[s].pc = "meta"
        /\ \A t \in Sessions \ {s} : create'[t] = create[t]
    BY <1>5, CreateMoves DEF CreateInsert
  <2>2. map' = [map EXCEPT ![s] = "pty"] /\ UNCHANGED <<close, remove, gone>>
    BY <1>5 DEF CreateInsert, dbVars
  <2>. QED
    BY <2>1, <2>2, VictimsElsewhere DEF Elsewhere, TypeOK
<1>6. ASSUME NEW s \in Sessions, CreateMeta(s) PROVE Victims'
  BY <1>6, CreateMetaEffect, VictimsElsewhere DEF Answered, Elsewhere, dbVars
<1>7. ASSUME NEW s \in Sessions, NEW k \in {"client", "boot"},
             close' = [close EXCEPT ![k] = CloseOf(k, s)], UNCHANGED <<create, map, remove, gone>>
      PROVE  Victims'
  <2>1. close'["remove"] = close["remove"]
    BY <1>7 DEF TypeOK, Closers
  <2>. QED
    BY <1>7, <2>1, VictimsElsewhere DEF Elsewhere
<1>8. ASSUME NEW s \in Sessions, Kill(s) \/ ShutdownNext(s) PROVE Victims'
  BY <1>7, <1>8 DEF Kill, ShutdownNext, dbVars
<1>9. ASSUME NEW k \in Closers, CloseSignal(k) PROVE Victims'
  <2>1. /\ close[k].pc = "signal" /\ close'[k].pc = "reap" /\ close'[k].sess = close[k].sess
        /\ \A j \in Closers \ {k} : close'[j] = close[j]
    BY <1>9, CloseMoves DEF CloseSignal
  <2>2. UNCHANGED <<create, map, remove, gone>>
    BY <1>9 DEF CloseSignal, dbVars
  <2>. QED
    BY <1>0, <2>1, <2>2 DEF Victims, BeingRemoved, Closers
<1>10. ASSUME NEW k \in Closers, CloseReap(k) PROVE Victims'
  <2>1. /\ map' = [map EXCEPT ![close[k].sess] = "no"] /\ close' = [close EXCEPT ![k] = NoClose]
        /\ UNCHANGED <<create, remove, gone>> /\ close[k].pc = "reap"
    BY <1>10 DEF CloseReap, dbVars
  <2>2. close'[k].pc = "idle" /\ \A j \in Closers \ {k} : close'[j] = close[j]
    BY <2>1 DEF TypeOK, NoClose
  <2>3. \A s \in Sessions : map'[s] = IF s = close[k].sess THEN "no" ELSE map[s]
    BY <2>1 DEF TypeOK
  <2>. QED
    BY <1>0, <2>1, <2>2, <2>3 DEF Victims, BeingRemoved, Closers
<1>11. ASSUME NEW k \in Closers, CloseHonest(k) PROVE Victims'
  <2>1. /\ close[k].pc = "honest" /\ close'[k].pc \in {"idle", "delete"}
        /\ \A j \in Closers \ {k} : close'[j] = close[j]
        /\ UNCHANGED <<create, remove, gone>>
    BY <1>11, CloseHonestEffect DEF ClosedHonest, dbVars
  <2>2. \A s \in Sessions : map'[s] = IF s = close[k].sess THEN "no" ELSE map[s]
    BY <1>11 DEF CloseHonest, TypeOK
  <2>. QED
    BY <1>0, <2>1, <2>2 DEF Victims, BeingRemoved, Closers
<1>12. ASSUME NEW k \in Closers, CloseDelete(k) PROVE Victims'
  <2>1. /\ close[k].pc = "delete" /\ close' = [close EXCEPT ![k] = NoClose]
        /\ UNCHANGED <<create, map, remove>> /\ gone \subseteq gone'
    BY <1>12 DEF CloseDelete
  <2>2. close'[k].pc = "idle" /\ \A j \in Closers \ {k} : close'[j] = close[j]
    BY <2>1 DEF TypeOK, NoClose
  <2>. QED
    BY <1>0, <2>1, <2>2 DEF Victims, BeingRemoved, Closers
<1>13. ASSUME NEW w \in Workspaces, RemoveBegin(w) PROVE Victims'
  <2>1. /\ remove'.pc = "mark" /\ remove'.ws = w /\ remove'.phase = 1
        /\ remove'.todo = {s \in Sessions : WsOf[s] = w /\ row[s] # NoRow}
        /\ map' = map
    BY <1>13 DEF RemoveBegin, NoRemove
  <2>. QED
    BY <2>1 DEF Victims, Shown
<1>14. ASSUME RemoveMark PROVE Victims'
  <2>1. /\ remove.pc = "mark" /\ remove'.pc = "sweep" /\ remove'.ws = remove.ws
        /\ remove'.todo = remove.todo \cup TrackedIn(remove.ws) /\ remove'.phase = remove.phase
        /\ remove'.known = {s \in Sessions : WsOf[s] = remove.ws /\ create[s].pc = "done"}
        /\ UNCHANGED <<create, map, close, gone>>
    BY <1>14 DEF RemoveMark, TypeOK, Removals, dbVars
  <2>2. ASSUME NEW s \in Sessions, WsOf[s] = remove.ws, create[s].pc = "done", map[s] # "no"
        PROVE  s \in remove'.todo
    <3>1. CASE map[s] = "pty"
      BY <2>1, <2>2, <3>1 DEF Listed, TrackedIn
    <3>2. CASE map[s] = "replay"
      BY <2>1, <2>2, <3>2 DEF Victims
    <3>. QED
      BY <2>2, <3>1, <3>2 DEF TypeOK
  <2>3. \A s \in Sessions : map[s] = "replay" => create[s].pc = "done"
    BY DEF HostInv, Replayed, Quiet
  <2>4. remove'.phase # 2
    BY <2>1 DEF Victims
  <2>. QED
    BY <2>1, <2>2, <2>3, <2>4 DEF Victims
<1>15. ASSUME NEW s \in Sessions, RemoveNext(s) PROVE Victims'
  <2>1. /\ remove.pc = "sweep" /\ remove' = [remove EXCEPT !.todo = @ \ {s}]
        /\ close["remove"] = NoClose /\ close' = [close EXCEPT !["remove"] = CloseOf("remove", s)]
        /\ UNCHANGED <<create, map, gone>>
    BY <1>15 DEF RemoveNext, dbVars
  <2>2. /\ remove'.pc = "sweep" /\ remove'.ws = remove.ws /\ remove'.phase = remove.phase
        /\ remove'.known = remove.known /\ remove'.todo = remove.todo \ {s}
    BY <2>1 DEF TypeOK, Removals
  <2>3. close["remove"].pc = "idle" /\ close'["remove"] = CloseOf("remove", s)
    BY <2>1 DEF TypeOK, NoClose, Closers
  <2>4. map[s] = "no" \/ (CloseOf("remove", s).pc \in {"honest", "signal"}
                            /\ CloseOf("remove", s).sess = s)
    BY CloseStarts DEF TypeOK
  <2>. QED
    BY <1>0, <2>1, <2>2, <2>3, <2>4 DEF Victims, BeingRemoved
<1>16. ASSUME RemoveTake PROVE Victims'
  <2>1. /\ remove.pc = "sweep" /\ remove.todo = {} /\ close["remove"] = NoClose
        /\ remove' = [remove EXCEPT !.pc = "await", !.took = pend]
        /\ UNCHANGED <<create, map, close, gone>>
    BY <1>16 DEF RemoveTake, dbVars
  <2>2. /\ remove'.pc = "await" /\ remove'.ws = remove.ws /\ remove'.phase = remove.phase
        /\ remove'.known = remove.known /\ remove'.todo = remove.todo
    BY <2>1 DEF TypeOK, Removals
  <2>. QED
    BY <1>0, <2>1, <2>2 DEF Victims, BeingRemoved, NoClose
<1>17. ASSUME RemoveAwait PROVE Victims'
  <2>1. CASE remove.phase = 1
    <3>1. /\ remove.pc = "await" /\ remove' = [remove EXCEPT !.pc = "delete", !.took = {}]
          /\ UNCHANGED <<create, map, close, gone>>
      BY <1>17, <2>1 DEF RemoveAwait, dbVars
    <3>2. /\ remove'.pc = "delete" /\ remove'.ws = remove.ws /\ remove'.phase = remove.phase
          /\ remove'.known = remove.known /\ remove'.todo = remove.todo
      BY <3>1 DEF TypeOK, Removals
    <3>. QED
      BY <1>0, <2>1, <3>1, <3>2 DEF Victims, BeingRemoved
  <2>2. CASE remove.phase # 1
    BY <1>17, <2>2 DEF RemoveAwait, NoRemove, Victims
  <2>. QED
    BY <2>1, <2>2
<1>18. ASSUME RemoveDelete PROVE Victims'
  <2>1. /\ remove.pc = "delete" /\ remove' = [remove EXCEPT !.pc = "strays"]
        /\ gone' = gone \cup {s \in Sessions : WsOf[s] = remove.ws}
        /\ UNCHANGED <<create, map, close>>
    BY <1>18 DEF RemoveDelete
  <2>2. /\ remove'.pc = "strays" /\ remove'.ws = remove.ws /\ remove'.phase = remove.phase
        /\ remove'.known = remove.known /\ remove'.todo = remove.todo
    BY <2>1 DEF TypeOK, Removals
  <2>. QED
    BY <1>0, <2>1, <2>2 DEF Victims, BeingRemoved
<1>19. ASSUME RemoveStrays PROVE Victims'
  <2>1. /\ remove.pc = "strays" /\ UNCHANGED <<create, map, close, gone>>
        /\ remove'.pc = "sweep" /\ remove'.phase = 2 /\ remove'.ws = remove.ws
        /\ remove'.todo = TrackedIn(remove.ws)
        /\ remove'.known = remove.known \cup TrackedIn(remove.ws)
    BY <1>19 DEF RemoveStrays, Strays, TypeOK, Removals, dbVars
  <2>2. \A s \in TrackedIn(remove.ws) : WsOf[s] = remove.ws /\ create[s].pc \in {"persist", "done"}
    BY DEF TrackedIn, Listed, TypeOK
  <2>. QED
    BY <1>0, <2>1, <2>2 DEF Victims, BeingRemoved
<1>20. ASSUME Exit \/ Crash PROVE Victims'
  BY <1>20, PowerOffEffect DEF Exit, Crash, Victims
<1>21. ASSUME Restart PROVE Victims'
  <2>1. remove' = remove /\ remove.pc = "idle"
    BY <1>21 DEF Restart, HostInv, PoweredOff
  <2>. QED
    BY <2>1 DEF Victims
<1>. QED
  BY <1>1, <1>2, <1>4, <1>5, <1>6, <1>8, <1>9, <1>10, <1>11, <1>12, <1>13, <1>14, <1>15, <1>16,
     <1>17, <1>18, <1>19, <1>20, <1>21
     DEF Next, Aside, Thread, Create, CloseStep, RemoveStep, ShutdownStep

\* A final flush of one session moves on alone.
LEMMA FlushMoves ==
  ASSUME TypeOK, NEW s \in Sessions, FinalMeta(s) \/ FinalScrollback(s)
  PROVE  /\ \A t \in Sessions \ {s} : fin'[t] = fin[t]
         /\ Flushing(s)' => Flushing(s)
         /\ UNCHANGED <<create, wait, pend, close, remove, boot, down>>
<1>1. fin \in [Sessions -> Flushes] /\ fin[s] \in Flushes
  BY DEF TypeOK
<1>2. UNCHANGED <<create, wait, pend, close, remove, boot, down>>
  BY DEF FinalMeta, FinalScrollback, procVars, hostVars
<1>. QED
  BY <1>1, <1>2 DEF FinalMeta, FinalScrollback, Flushing, Flushes

\* on_exited has its flush tracked, and forgets the handle of no other that runs.
LEMMA ExitTracks ==
  ASSUME TypeOK, NEW s \in Sessions, OnExited(s)
  PROVE  /\ \A t \in Sessions \ {s} : fin'[t] = fin[t]
         /\ \A t \in Sessions : Flushing(t)' /\ (t = s \/ t \in pend) => t \in pend'
         /\ wait[s] = "callback" /\ wait' = [wait EXCEPT ![s] = "done"]
         /\ UNCHANGED <<create, close, remove, boot, down>>
<1>1. fin \in [Sessions -> Flushes] /\ fin[s] \in Flushes
  BY DEF TypeOK
<1>2. /\ wait[s] = "callback" /\ wait' = [wait EXCEPT ![s] = "done"]
      /\ UNCHANGED <<create, close, remove, boot, down>>
  BY DEF OnExited
<1>3. CASE map[s] = "no"
  <2>1. fin' = [fin EXCEPT ![s].pc = "missed"] /\ pend' = pend
    BY <1>3 DEF OnExited
  <2>. QED
    BY <1>1, <1>2, <2>1 DEF Flushing, Flushes
<1>4. CASE map[s] # "no"
  <2>1. /\ fin' = [fin EXCEPT ![s] = [pc |-> "meta", life |-> life[s], ring |-> ring[s]]]
        /\ pend' = {t \in pend : fin[t].pc # "done"} \cup {s}
    BY <1>4 DEF OnExited, Track
  <2>. QED
    BY <1>1, <1>2, <2>1 DEF Flushing
<1>. QED
  BY <1>3, <1>4

\* No handle of a final flush that runs is lost.
LEMMA AwaitableStep ==
  ASSUME TypeOK, HostInv, Awaitable, [Next]_vars
  PROVE  Awaitable'
<1>1. CASE Aside
  BY <1>1, AsideEffect DEF Awaitable, Flushing, TakenByRemoval
<1>2. CASE \/ \E s \in Sessions : WaitReturns(s) \/ Create(s) \/ Kill(s)
           \/ \E k \in Closers : CloseStep(k)
  <2>1. UNCHANGED <<fin, pend, remove, boot, down>>
    BY <1>2 DEF WaitReturns, Create, CreateGate, CreateExists, CreateSpawn, CreateFails,
       CreateInsert, CreateMeta, CreatePersist, Kill, CloseStep, CloseSignal, CloseReap,
       CloseHonest, CloseDelete, hostVars
  <2>. QED
    BY <2>1 DEF Awaitable, Flushing, TakenByRemoval
<1>3. ASSUME NEW s \in Sessions, OnExited(s) PROVE Awaitable'
  <2>1. \A t \in Sessions \ {s} : Flushing(t)' = Flushing(t)
    BY <1>3, ExitTracks DEF Flushing
  <2>. QED
    BY <1>3, <2>1, ExitTracks DEF Awaitable, TakenByRemoval
<1>4. ASSUME NEW s \in Sessions, FinalMeta(s) \/ FinalScrollback(s) PROVE Awaitable'
  <2>1. \A t \in Sessions : Flushing(t)' => Flushing(t)
    BY <1>4, FlushMoves DEF Flushing
  <2>. QED
    BY <1>4, <2>1, FlushMoves DEF Awaitable, TakenByRemoval
<1>5. ASSUME NEW w \in Workspaces, RemoveBegin(w) PROVE Awaitable'
  BY <1>5 DEF RemoveBegin, hostVars, Awaitable, Flushing, TakenByRemoval
<1>6. ASSUME \/ RemoveMark \/ RemoveDelete \/ RemoveStrays \/ \E s \in Sessions : RemoveNext(s)
      PROVE  Awaitable'
  <2>1. remove.pc # "await" /\ UNCHANGED <<fin, pend, boot, down>>
    BY <1>6 DEF RemoveMark, RemoveDelete, RemoveStrays, RemoveNext, hostVars
  <2>. QED
    BY <2>1 DEF Awaitable, Flushing, TakenByRemoval
<1>7. ASSUME RemoveTake PROVE Awaitable'
  <2>1. /\ remove.pc # "await" /\ remove'.pc = "await" /\ remove'.took = pend
        /\ UNCHANGED <<fin, boot, down>>
    BY <1>7 DEF RemoveTake, TypeOK, Removals
  <2>. QED
    BY <2>1 DEF Awaitable, Flushing, TakenByRemoval
<1>8. ASSUME RemoveAwait PROVE Awaitable'
  <2>1. remove.pc = "await" /\ Flushed(remove.took) /\ UNCHANGED <<fin, pend, boot, down>>
    BY <1>8 DEF RemoveAwait
  <2>. QED
    BY <2>1 DEF Awaitable, Flushing, TakenByRemoval, Flushed
<1>9. ASSUME Shutdown \/ \E s \in Sessions : ShutdownNext(s) PROVE Awaitable'
  <2>1. boot # "await" /\ UNCHANGED <<fin, pend, remove>>
    BY <1>9 DEF Shutdown, ShutdownNext, hostVars
  <2>. QED
    BY <2>1 DEF Awaitable, Flushing, TakenByRemoval
<1>10. ASSUME ShutdownTake PROVE Awaitable'
  <2>1. /\ boot = "killing" /\ boot' = "await" /\ down'.took = pend
        /\ UNCHANGED <<fin, remove>>
    BY <1>10 DEF ShutdownTake, TypeOK, Drains
  <2>. QED
    BY <2>1 DEF Awaitable, Flushing, TakenByRemoval
<1>11. ASSUME Exit \/ Crash PROVE Awaitable'
  BY <1>11, PowerOffEffect DEF Exit, Crash, Awaitable, Flushing
<1>12. ASSUME Restart PROVE Awaitable'
  BY <1>12 DEF Restart, Awaitable, Flushing, TakenByRemoval, HostInv, PoweredOff
<1>. QED
  BY <1>1, <1>2, <1>3, <1>4, <1>5, <1>6, <1>7, <1>8, <1>9, <1>10, <1>11, <1>12
     DEF Next, Aside, Thread, RemoveStep, ShutdownStep

\* shutdown_all leaves no session it saw before its final state is captured.
LEMMA DrainingStep ==
  ASSUME TypeOK, HostInv, Listed, WaitTracked, Awaitable, Draining, [Next]_vars
  PROVE  Draining'
<1>0. down.ids \subseteq Sessions
  BY DEF TypeOK, Drains
<1>1. CASE Aside
  BY <1>0, <1>1, AsideEffect DEF Draining, Flushing, TakenByRemoval
<1>2. ASSUME NEW s \in Sessions, WaitReturns(s) PROVE Draining'
  <2>1. /\ wait[s] = "wait" /\ wait' = [wait EXCEPT ![s] = "callback"]
        /\ UNCHANGED <<create, close, fin, remove, boot, down>>
    BY <1>2 DEF WaitReturns
  <2>. QED
    BY <1>0, <2>1 DEF Draining, Flushing, TakenByRemoval, TypeOK
<1>3. ASSUME NEW s \in Sessions, OnExited(s) PROVE Draining'
  <2>1. \A t \in Sessions \ {s} : Flushing(t)' = Flushing(t)
    BY <1>3, ExitTracks DEF Flushing
  <2>. QED
    BY <1>0, <1>3, <2>1, ExitTracks DEF Draining, TakenByRemoval, TypeOK
<1>4. ASSUME NEW s \in Sessions, FinalMeta(s) \/ FinalScrollback(s) PROVE Draining'
  <2>1. \A t \in Sessions : Flushing(t)' => Flushing(t)
    BY <1>4, FlushMoves DEF Flushing
  <2>. QED
    BY <1>0, <1>4, <2>1, FlushMoves DEF Draining, TakenByRemoval
<1>5. ASSUME NEW s \in Sessions, NEW p, NEW q, CreateStep(s, p, q),
             p \notin {"meta", "persist", "done"} \/ q \in {"meta", "persist", "done"},
             \A t \in Sessions : (t = s /\ p = "spawn") \/ wait'[t] = wait[t],
             UNCHANGED <<close, fin, remove, boot, down>>
      PROVE  Draining'
  <2>1. /\ create[s].pc = p /\ create'[s].pc = q
        /\ \A t \in Sessions \ {s} : create'[t] = create[t]
    BY <1>5, CreateMoves
  <2>. QED
    BY <1>0, <1>5, <2>1 DEF Draining, Flushing, TakenByRemoval
<1>6. ASSUME NEW s \in Sessions, CreateGate(s) \/ CreateExists(s) PROVE Draining'
  BY <1>5, <1>6 DEF CreateGate, CreateExists, procVars
<1>7. ASSUME NEW s \in Sessions, CreateSpawn(s) \/ CreateFails(s) PROVE Draining'
  BY <1>5, <1>7 DEF CreateSpawn, CreateFails, TypeOK
<1>8. ASSUME NEW s \in Sessions, CreateInsert(s) \/ CreatePersist(s) PROVE Draining'
  BY <1>5, <1>8 DEF CreateInsert, CreatePersist, procVars
<1>9. ASSUME NEW s \in Sessions, CreateMeta(s) PROVE Draining'
  BY <1>0, <1>9, CreateMetaEffect DEF Answered, Draining, Flushing, TakenByRemoval, procVars
<1>10. ASSUME NEW s \in Sessions, Kill(s) \/ RemoveNext(s) PROVE Draining'
  <2>1. /\ UNCHANGED <<create, wait, fin, boot, down>> /\ close'["boot"] = close["boot"]
        /\ \A t \in Sessions : TakenByRemoval(t)' = TakenByRemoval(t)
    BY <1>10 DEF Kill, RemoveNext, TypeOK, Closers, Removals, TakenByRemoval, procVars
  <2>. QED
    BY <1>0, <2>1 DEF Draining, Flushing
<1>11. ASSUME NEW k \in Closers, CloseSignal(k) PROVE Draining'
  <2>1. /\ close[k].pc = "signal" /\ close'[k].pc = "reap" /\ close'[k].sess = close[k].sess
        /\ \A j \in Closers \ {k} : close'[j] = close[j]
    BY <1>11, CloseMoves DEF CloseSignal
  <2>2. UNCHANGED <<create, wait, fin, remove, boot, down>>
    BY <1>11 DEF CloseSignal
  <2>. QED
    BY <1>0, <2>1, <2>2 DEF Draining, Flushing, TakenByRemoval, Closers
<1>12. ASSUME NEW k \in Closers, CloseReap(k) PROVE Draining'
  <2>1. /\ wait[close[k].sess] = "done" /\ close' = [close EXCEPT ![k] = NoClose]
        /\ UNCHANGED <<create, wait, fin, remove, boot, down>>
    BY <1>12 DEF CloseReap, Joined, procVars
  <2>2. \A j \in Closers \ {k} : close'[j] = close[j]
    BY <2>1 DEF TypeOK
  <2>. QED
    BY <1>0, <2>1, <2>2 DEF Draining, Flushing, TakenByRemoval, Closers
<1>13. ASSUME NEW k \in Closers, CloseHonest(k) PROVE Draining'
  <2>1. close[k].pc = "honest" /\ \A j \in Closers \ {k} : close'[j] = close[j]
    BY <1>13, CloseHonestEffect DEF ClosedHonest
  <2>2. UNCHANGED <<create, wait, fin, remove, boot, down>>
    BY <1>13 DEF CloseHonest, procVars
  <2>. QED
    BY <1>0, <2>1, <2>2 DEF Draining, Flushing, TakenByRemoval, Closers
<1>14. ASSUME NEW k \in Closers, CloseDelete(k) PROVE Draining'
  <2>1. /\ close[k].pc = "delete" /\ close' = [close EXCEPT ![k] = NoClose]
        /\ UNCHANGED <<create, wait, fin, remove, boot, down>>
    BY <1>14 DEF CloseDelete, procVars
  <2>2. \A j \in Closers \ {k} : close'[j] = close[j]
    BY <2>1 DEF TypeOK
  <2>. QED
    BY <1>0, <2>1, <2>2 DEF Draining, Flushing, TakenByRemoval, Closers
<1>15. ASSUME \/ \E w \in Workspaces : RemoveBegin(w)
              \/ RemoveMark \/ RemoveDelete \/ RemoveStrays \/ RemoveTake
       PROVE  Draining'
  <2>1. remove.pc # "await" /\ UNCHANGED <<create, wait, close, fin, boot, down>>
    BY <1>15 DEF RemoveBegin, RemoveMark, RemoveDelete, RemoveStrays, RemoveTake, procVars
  <2>. QED
    BY <1>0, <2>1 DEF Draining, Flushing, TakenByRemoval
<1>16. ASSUME RemoveAwait PROVE Draining'
  <2>1. /\ remove.pc = "await" /\ Flushed(remove.took)
        /\ UNCHANGED <<create, wait, close, fin, boot, down>>
    BY <1>16 DEF RemoveAwait, procVars
  <2>. QED
    BY <1>0, <2>1 DEF Draining, Flushing, TakenByRemoval, Flushed
<1>17. ASSUME Shutdown PROVE Draining'
  <2>1. /\ boot' = "killing" /\ UNCHANGED <<create, wait>>
        /\ down'.ids = {s \in Sessions : map[s] # "no"} /\ down'.todo = down'.ids
    BY <1>17 DEF Shutdown, procVars
  <2>2. ASSUME NEW s \in Sessions, map[s] # "no" PROVE create[s].pc \in {"meta", "persist", "done"}
    <3>1. create[s] \in Creates
      BY DEF TypeOK
    <3>. QED
      BY <2>2, <3>1 DEF Creates, HostInv, Unborn, Listed
  <2>. QED
    BY <2>1, <2>2 DEF Draining
<1>18. ASSUME NEW s \in Sessions, ShutdownNext(s) PROVE Draining'
  <2>1. /\ boot = "killing" /\ boot' = boot /\ close["boot"] = NoClose /\ s \in down.todo
        /\ close' = [close EXCEPT !["boot"] = CloseOf("boot", s)]
        /\ down' = [down EXCEPT !.todo = @ \ {s}] /\ UNCHANGED <<create, wait, fin, remove>>
    BY <1>18 DEF ShutdownNext, procVars
  <2>2. down'.ids = down.ids /\ down'.todo = down.todo \ {s}
    BY <2>1 DEF TypeOK, Drains
  <2>3. close["boot"].pc = "idle" /\ close'["boot"] = CloseOf("boot", s)
    BY <2>1 DEF TypeOK, NoClose, Closers
  <2>4. ASSUME s \in down.ids
        PROVE  \/ wait[s] \in {"none", "done"}
               \/ CloseOf("boot", s).pc = "signal" /\ CloseOf("boot", s).sess = s
    <3>1. wait[s] \in {"wait", "callback"} => map[s] = "pty"
      BY <2>1, <2>4 DEF WaitTracked, Draining
    <3>. QED
      BY <3>1, CloseStarts DEF TypeOK
  <2>. QED
    BY <1>0, <2>1, <2>2, <2>3, <2>4 DEF Draining
<1>19. ASSUME ShutdownTake PROVE Draining'
  <2>1. /\ boot = "killing" /\ boot' = "await" /\ close["boot"] = NoClose /\ down.todo = {}
        /\ down'.ids = down.ids /\ down'.took = pend /\ UNCHANGED <<create, wait, fin, remove>>
    BY <1>19 DEF ShutdownTake, TypeOK, Drains, procVars
  <2>2. \A s \in down.ids : wait[s] \in {"none", "done"}
    BY <2>1 DEF Draining, NoClose
  <2>. QED
    BY <1>0, <2>1, <2>2 DEF Draining, Awaitable, Flushing, TakenByRemoval
<1>20. ASSUME Exit \/ Crash \/ Restart PROVE Draining'
  BY <1>20 DEF Exit, Crash, Restart, Draining
<1>. QED
  BY <1>1, <1>2, <1>3, <1>4, <1>6, <1>7, <1>8, <1>9, <1>10, <1>11, <1>12, <1>13, <1>14, <1>15,
     <1>16, <1>17, <1>18, <1>19, <1>20
     DEF Next, Aside, Thread, Create, CloseStep, RemoveStep, ShutdownStep

-----------------------------------------------------------------------------
\* The invariant with what it takes to end a session, a removal and the daemon.
LEMMA EndInvariant == Spec => [](Inv /\ EndInv)
<1>1. Init => EndInv
  BY DEF Init, EndInv, Listed, WaitTracked, Shown, Victims, Awaitable, Draining, Flushing, NoFlush,
     NoClose, NoRemove
<1>2. Inv /\ EndInv /\ [Next]_vars => EndInv'
  BY ListedStep, WaitTrackedStep, ShownStep, VictimsStep, AwaitableStep, DrainingStep
     DEF Inv, EndInv
<1>. QED
  BY <1>1, <1>2, InvInit, InvStep, PTL DEF Spec

\* ListSessions names every session that was created and runs, whatever became of its row: by
\* live_sessions alone (socket_server.rs, ListSessions).
THEOREM ListedTheorem == Spec => []ListedWhileLive
<1>1. Inv /\ EndInv => ListedWhileLive
  BY DEF EndInv, Listed, ListedWhileLive
<1>. QED
  BY <1>1, EndInvariant, PTL

\* A final flush is missed only by a child that died before create had its session in the map, or
\* of a create that failed: kill joins the wait thread before it removes the entry
\* (pty_supervisor.rs, kill).
THEOREM CaptureTheorem == Spec => CaptureBeforeReap
<1>1. Inv /\ EndInv /\ [Next]_vars =>
        \A s \in Sessions : fin[s].pc = "none" /\ fin'[s].pc = "missed" =>
          create[s].pc \in {"insert", "failed"}
  <2> SUFFICES ASSUME Inv, EndInv, [Next]_vars,
                      NEW s \in Sessions, fin[s].pc = "none", fin'[s].pc = "missed"
               PROVE  create[s].pc \in {"insert", "failed"}
    OBVIOUS
  <2>1. TypeOK
    BY DEF Inv
  <2>2. CASE OnExited(s)
    <3>1. wait[s] = "callback"
      BY <2>2 DEF OnExited
    <3>2. map[s] = "no"
      <4>1. SUFFICES ASSUME map[s] # "no" PROVE FALSE
        OBVIOUS
      <4>2. fin' = [fin EXCEPT ![s] = [pc |-> "meta", life |-> life[s], ring |-> ring[s]]]
        BY <2>2, <4>1 DEF OnExited
      <4>. QED
        BY <2>1, <4>2 DEF TypeOK
    <3>. QED
      BY <3>1, <3>2 DEF EndInv, WaitTracked
  <2>3. ASSUME NEW t \in Sessions, t # s, OnExited(t) PROVE FALSE
    BY <2>1, <2>3, ExitTracks
  <2>4. ASSUME NEW t \in Sessions, FinalMeta(t) \/ FinalScrollback(t) PROVE FALSE
    <3>1. fin \in [Sessions -> Flushes] /\ fin[t] \in Flushes /\ fin[t].pc \in {"meta", "scroll"}
      BY <2>1, <2>4 DEF TypeOK, FinalMeta, FinalScrollback
    <3>. QED
      BY <2>4, <3>1 DEF FinalMeta, FinalScrollback, Flushes
  <2>5. CASE Exit \/ Crash
    BY <2>5, PowerOffEffect DEF Exit, Crash
  <2>6. CASE fin' = fin
    BY <2>6
  <2>7. CASE Aside
    BY <2>1, <2>6, <2>7, AsideEffect
  <2>8. CASE \/ \E t \in Sessions : WaitReturns(t) \/ Create(t) \/ Kill(t)
             \/ \E k \in Closers : CloseStep(k)
             \/ \E w \in Workspaces : RemoveBegin(w)
             \/ RemoveStep \/ Shutdown \/ ShutdownTake \/ \E t \in Sessions : ShutdownNext(t)
             \/ Restart
    <3>1. fin' = fin
      BY <2>8 DEF WaitReturns, Create, CreateGate, CreateExists, CreateSpawn, CreateFails, CreateInsert,
         CreateMeta, CreatePersist, Kill, CloseStep, CloseSignal, CloseReap, CloseHonest,
         CloseDelete, RemoveBegin, RemoveStep, RemoveMark, RemoveTake, RemoveAwait, RemoveDelete,
         RemoveStrays, RemoveNext, Shutdown, ShutdownTake, ShutdownNext, Restart
    <3>. QED
      BY <2>6, <3>1
  <2>. QED
    BY <2>2, <2>3, <2>4, <2>5, <2>7, <2>8 DEF Next, Aside, Thread, ShutdownStep
<1>. QED
  BY <1>1, EndInvariant, PTL DEF Spec, CaptureBeforeReap

\* A clean exit waits for the final flush of every session that shutdown_all saw, but for a handle
\* that a removal in flight has taken (boot.rs, run; await_pending_final_flushes).
THEOREM DrainsTheorem == Spec => ShutdownDrains
<1>1. Inv /\ EndInv /\ [Next]_vars =>
        (boot = "await" /\ boot' = "exited" =>
           \A s \in down.ids : fin[s].pc \in {"meta", "scroll"} => s \in remove.took)
  <2> SUFFICES ASSUME Inv, EndInv, [Next]_vars, boot = "await", boot' = "exited",
                      NEW s \in down.ids, fin[s].pc \in {"meta", "scroll"}
               PROVE  s \in remove.took
    OBVIOUS
  <2>1. Flushed(down.took)
    <3>1. TypeOK
      BY DEF Inv
    <3>2. CASE Exit
      BY <3>2 DEF Exit
    <3>3. CASE Aside
      BY <3>1, <3>3, AsideEffect
    <3>4. CASE \/ \E t \in Sessions : Thread(t) \/ Create(t) \/ Kill(t) \/ ShutdownNext(t)
               \/ \E k \in Closers : CloseStep(k)
               \/ \E w \in Workspaces : RemoveBegin(w)
               \/ RemoveStep \/ Shutdown \/ ShutdownTake \/ Crash \/ Restart
      <4>1. boot' = boot \/ boot' # "exited"
        BY <3>4 DEF Thread, WaitReturns, OnExited, FinalMeta, FinalScrollback, Create, CreateGate,
           CreateExists, CreateSpawn, CreateFails, CreateInsert, CreateMeta, CreatePersist, Kill, CloseStep,
           CloseSignal, CloseReap, CloseHonest, CloseDelete, RemoveBegin, RemoveStep, RemoveMark,
           RemoveTake, RemoveAwait, RemoveDelete, RemoveStrays, RemoveNext, Shutdown, ShutdownTake,
           ShutdownNext, Crash, Restart
      <4>. QED
        BY <4>1
    <3>. QED
      BY <3>2, <3>3, <3>4 DEF Next, Aside, ShutdownStep
  <2>. QED
    BY <2>1 DEF EndInv, Draining, Flushing, TakenByRemoval, Flushed
<1>. QED
  BY <1>1, EndInvariant, PTL DEF Spec, ShutdownDrains

\* An acknowledged RemoveWorkspace left no session of the workspace that a client had been given or
\* that was tracked when its row went: neither a child nor an entry nor a row.
THEOREM RemovalTheorem == Spec => RemovalIsComplete
<1>1. Inv /\ EndInv /\ [Next]_vars =>
        (remove.pc = "await" /\ remove.phase = 2 /\ remove'.pc = "idle" /\ Up' =>
           \A s \in remove.known : child[s] # "alive" /\ map[s] = "no" /\ row[s] = NoRow)
  <2> SUFFICES ASSUME Inv, EndInv, [Next]_vars,
                      remove.pc = "await", remove.phase = 2, remove'.pc = "idle", Up',
                      NEW s \in remove.known
               PROVE  child[s] # "alive" /\ map[s] = "no" /\ row[s] = NoRow
    OBVIOUS
  <2>1. TypeOK /\ HostInv /\ Victims
    BY DEF Inv, EndInv
  <2>2. s \in Sessions /\ remove.known \subseteq Sessions
    BY <2>1 DEF TypeOK, Removals
  <2>3. map[s] = "no" /\ create[s].pc \in {"persist", "done"}
    BY <2>1, <2>2 DEF Victims, BeingRemoved
  <2>4. row[s] = NoRow
    BY <2>1, <2>2 DEF Victims, HostInv, Deleted
  <2>5. Up
    BY <2>1 DEF HostInv, PoweredOff
  <2>. QED
    BY <2>1, <2>2, <2>3, <2>4, <2>5 DEF HostInv, LiveIsTracked
<1>. QED
  BY <1>1, EndInvariant, PTL DEF Spec, RemovalIsComplete

=============================================================================
