---------------------------- MODULE Forget_proofs ----------------------------
(***************************************************************************)
(* For every number of servers, jobs, entities and forgets, with or        *)
(* without overlap, a graph client and the right tenant: the types hold,   *)
(* and a retraction record is only ever written once the typed edges of    *)
(* its entity are gone. When operations do not overlap, whatever a stopped *)
(* forget began is listed for recovery, confirm reports only what is gone, *)
(* a replay is reported only when it finished what the crash interrupted,  *)
(* and confirm forgets only the content its user saw.                      *)
(***************************************************************************)
EXTENDS Forget, TLAPS

Typed == {"out", "in"}

(* What is known of the edges at a point of the disposal: the teardown     *)
(* comes before everything that leads to PutRecord, whoever runs it.       *)
TornDown(ed, t) ==
    /\ t.pc = "in" => "out" \notin ed[t.ent]
    /\ (t.pc \in {"read", "find", "set"} /\ t.op \in {"confirm", "recover"})
         => ed[t.ent] \cap Typed = {}
    /\ t.pc = "record" => ed[t.ent] \cap Typed = {}

TaskInv == task \in [Procs -> Tasks] /\ \A p \in Procs : WellFormed(task[p])

EdgeInv ==
    /\ \A r \in records : edges[r.ent] \cap Typed = {}
    /\ \A p \in Procs : TornDown(edges, task[p])

-----------------------------------------------------------------------------
(* Fields of a well-formed task. *)
LEMMA TaskFields ==
  ASSUME NEW t \in Tasks
  PROVE  /\ t.pc \in TaskPcs /\ t.op \in TaskOps /\ t.ids \in Seq(Entities)
         /\ t.hash \in Hashes /\ t.mode \in Modes
         /\ t.fid \in 0..MaxForgets /\ t.at \in Nat /\ t.ent \in Entities \cup {NoEnt}
         /\ t.prior \in States /\ t.val \in States
  BY DEF Tasks

(* OpsAt, label by label. *)
LEMMA OpsFacts ==
  /\ OpsAt("idle") = {"none"}
  /\ \A l \in {"guard", "journal", "audit", "authority"} : OpsAt(l) = {"confirm"}
  /\ \A l \in {"out", "in", "record", "done"} : OpsAt(l) = {"confirm", "recover"}
  /\ OpsAt("read") = {"confirm", "recover", "promote", "demote"}
  /\ \A l \in {"find", "set"} :
       OpsAt(l) = {"confirm", "recover", "promote", "demote", "restore"}
  /\ \A l \in {"node", "row", "confidence", "temporal", "cache"} :
       OpsAt(l) = {"confirm", "recover", "purge"}
  /\ OpsAt("unrecord") = {"restore", "purge"}
  /\ OpsAt("purge") = {"purge"}
  /\ OpsAt("recover") = {"recover"}
  BY DEF OpsAt, DerivedTables

(* The initial task of every process is well formed and knows no entity. *)
LEMMA IdleType == WellFormed(Idle) /\ Idle.pc = "idle" /\ Idle \in Tasks
  <1>1. [e \in {} |-> 0] \in [{} -> 0..MaxEdits]
    OBVIOUS
  <1>2. [e \in {} |-> 0] \in Hashes
    BY <1>1 DEF Hashes
  <1>3. "idle" \in TaskPcs /\ "none" \in TaskOps /\ "retract" \in Modes /\ "active" \in States
    BY DEF TaskPcs, TaskOps, Modes, States
  <1>4. 0 \in 0..MaxForgets /\ <<>> \in Seq(Entities)
    BY ForgetAssumption
  <1>5. Idle \in Tasks /\ Idle.pc = "idle" /\ Idle.op = "none" /\ Idle.todo = {}
    BY <1>2, <1>3, <1>4 DEF Idle, Tasks
  <1> QED
    BY <1>5, OpsFacts DEF WellFormed, Between

(* Goto: the label moves to one the operation passes through. *)
LEMMA MoveType ==
  ASSUME NEW t, WellFormed(t), NEW l \in TaskPcs, t.op \in OpsAt(l),
         l \in Between \/ t.ent \in Entities
  PROVE  LET u == [t EXCEPT !.pc = l] IN
           WellFormed(u) /\ u.pc = l /\ u.op = t.op /\ u.ent = t.ent
  <1> DEFINE u == [t EXCEPT !.pc = l]
  <1>1. t \in Tasks
    BY DEF WellFormed
  <1>2. /\ u \in Tasks /\ u.pc = l /\ u.op = t.op /\ u.ent = t.ent
        /\ u.todo = t.todo
    BY <1>1 DEF Tasks
  <1> HIDE DEF u
  <1>3. WellFormed(u)
    BY <1>2 DEF WellFormed
  <1> QED
    BY <1>2, <1>3 DEF u

(* The tasks operations start with. *)
LEMMA ConfirmType ==
  ASSUME TypeOK, NEW t \in tokens, NEW ids \in Selections, NEW m \in Modes,
         NEW ack \in BOOLEAN, forgets < MaxForgets
  PROVE  LET u == ConfirmTask(t, ids, m, ack) IN WellFormed(u) /\ u.pc = "guard"
  <1> DEFINE u == ConfirmTask(t, ids, m, ack)
  <1>2. ids \in Seq(Entities)
    BY DEF Selections
  <1>3. t.hash \in Hashes
    BY DEF TypeOK, StoreType
  <1>4. forgets + 1 \in 0..MaxForgets /\ now \in Nat
    BY ForgetAssumption DEF TypeOK, StoreType
  <1>5. "guard" \in TaskPcs /\ "confirm" \in TaskOps
    BY DEF TaskPcs, TaskOps
  <1>6. Idle \in Tasks /\ Idle.todo = {}
    BY IdleType DEF Idle
  <1>7. u \in Tasks /\ u.pc = "guard" /\ u.op = "confirm" /\ u.todo = {}
    BY <1>2, <1>3, <1>4, <1>5, <1>6 DEF Tasks, ConfirmTask
  <1> HIDE DEF u
  <1>8. WellFormed(u)
    BY <1>7, OpsFacts DEF WellFormed, Between
  <1> QED
    BY <1>7, <1>8 DEF u

(* The loop of confirm: an id is selected or skipped. *)
LEMMA GuardType ==
  ASSUME NEW t, WellFormed(t), t.pc = "guard", t.ids # <<>>
  PROVE  /\ WellFormed(SelectTask(t)) /\ SelectTask(t).pc = "journal"
         /\ WellFormed(SkipTask(t)) /\ SkipTask(t).pc = "guard"
  <1>1. t \in Tasks /\ t.op \in OpsAt("guard") /\ t.todo \subseteq TodoType(t.op)
    BY DEF WellFormed
  <1>2. t.op = "confirm"
    BY <1>1, OpsFacts
  <1>3. t.ids \in Seq(Entities)
    BY <1>1, TaskFields
  <1>4. Head(t.ids) \in Entities /\ Tail(t.ids) \in Seq(Entities)
    BY <1>3
  <1>5. "journal" \in TaskPcs
    BY DEF TaskPcs
  <1>6. /\ SelectTask(t) \in Tasks /\ SelectTask(t).pc = "journal"
        /\ SelectTask(t).op = t.op /\ SelectTask(t).todo = t.todo
        /\ SelectTask(t).ent \in Entities
    BY <1>1, <1>4, <1>5 DEF Tasks, SelectTask
  <1>7. /\ SkipTask(t) \in Tasks /\ SkipTask(t).pc = "guard"
        /\ SkipTask(t).op = t.op /\ SkipTask(t).todo = t.todo
    BY <1>1, <1>4 DEF Tasks, SkipTask
  <1>8. WellFormed(SelectTask(t))
    BY <1>1, <1>2, <1>6, OpsFacts DEF WellFormed
  <1>9. WellFormed(SkipTask(t))
    BY <1>1, <1>2, <1>7, OpsFacts DEF WellFormed, Between
  <1> QED
    BY <1>6, <1>7, <1>8, <1>9

(* retract_entity, promote and demote after the read. *)
LEMMA ReadType ==
  ASSUME NEW t, WellFormed(t), t.pc = "read", NEW st \in States, NEW v \in States
  PROVE  LET u == ReadTask(t, st, v) IN
           WellFormed(u) /\ u.pc = "find" /\ u.op = t.op /\ u.ent = t.ent
  <1> DEFINE u == ReadTask(t, st, v)
  <1>1. t \in Tasks /\ t.op \in OpsAt("read") /\ t.todo \subseteq TodoType(t.op)
        /\ t.ent \in Entities
    BY DEF WellFormed, Between
  <1>2. "find" \in TaskPcs
    BY DEF TaskPcs
  <1>3. u \in Tasks /\ u.pc = "find" /\ u.op = t.op /\ u.ent = t.ent /\ u.todo = t.todo
    BY <1>1, <1>2 DEF Tasks, ReadTask
  <1>4. t.op \in OpsAt("find")
    BY <1>1, OpsFacts
  <1> HIDE DEF u
  <1>5. WellFormed(u)
    BY <1>1, <1>3, <1>4 DEF WellFormed
  <1> QED
    BY <1>3, <1>5 DEF u

(* After the journal row is completed: the next id, or the next entry. *)
LEMMA DoneType ==
  ASSUME NEW t, WellFormed(t), t.pc = "done"
  PROVE  WellFormed(DoneTask(t)) /\ DoneTask(t).pc \in {"guard", "recover"}
  <1>1. t \in Tasks /\ t.op \in OpsAt("done") /\ t.todo \subseteq TodoType(t.op)
        /\ t.ent \in Entities
    BY DEF WellFormed, Between
  <1>2. t.op \in {"confirm", "recover"}
    BY <1>1, OpsFacts
  <1>3. "guard" \in TaskPcs /\ "recover" \in TaskPcs
    BY DEF TaskPcs
  <1>4. CASE t.op = "confirm"
    <2>1. t.todo \cup {t.ent} \subseteq Entities
      BY <1>1, <1>4 DEF TodoType
    <2>2. /\ DoneTask(t) \in Tasks /\ DoneTask(t).pc = "guard" /\ DoneTask(t).op = "confirm"
          /\ DoneTask(t).todo = t.todo \cup {t.ent}
      BY <1>1, <1>3, <1>4, <2>1 DEF Tasks, DoneTask
    <2> QED
      BY <2>1, <2>2, OpsFacts DEF WellFormed, TodoType, Between
  <1>5. CASE t.op = "recover"
    <2>1. /\ DoneTask(t) \in Tasks /\ DoneTask(t).pc = "recover" /\ DoneTask(t).op = "recover"
          /\ DoneTask(t).todo = t.todo
      BY <1>1, <1>3, <1>5 DEF Tasks, DoneTask
    <2> QED
      BY <1>1, <1>5, <2>1, OpsFacts DEF WellFormed, Between
  <1> QED
    BY <1>2, <1>4, <1>5

(* restore_entity after retraction_latest. *)
LEMMA RestoreType ==
  ASSUME NEW r \in Records
  PROVE  LET u == RestoreTask(r) IN WellFormed(u) /\ u.pc = "find" /\ u.op = "restore"
  <1> DEFINE u == RestoreTask(r)
  <1>1. Idle \in Tasks /\ Idle.todo = {} /\ "find" \in TaskPcs /\ "restore" \in TaskOps
    BY IdleType DEF Idle, TaskPcs, TaskOps
  <1>2. r.ent \in Entities /\ r.prior \in States /\ r.at \in Nat
    BY DEF Records
  <1>3. u \in Tasks /\ u.pc = "find" /\ u.op = "restore" /\ u.todo = {} /\ u.ent = r.ent
    BY <1>1, <1>2 DEF Tasks, RestoreTask
  <1> HIDE DEF u
  <1>4. WellFormed(u)
    BY <1>2, <1>3, OpsFacts DEF WellFormed
  <1> QED
    BY <1>3, <1>4 DEF u

(* promote_memory and demote_memory start. *)
LEMMA ShiftType ==
  ASSUME NEW e \in Entities, NEW o \in {"promote", "demote"}
  PROVE  LET u == ShiftTask(e, o) IN WellFormed(u) /\ u.pc = "read" /\ u.op = o
  <1> DEFINE u == ShiftTask(e, o)
  <1>1. Idle \in Tasks /\ Idle.todo = {} /\ "read" \in TaskPcs /\ o \in TaskOps
    BY IdleType DEF Idle, TaskPcs, TaskOps
  <1>2. u \in Tasks /\ u.pc = "read" /\ u.op = o /\ u.todo = {} /\ u.ent = e
    BY <1>1 DEF Tasks, ShiftTask
  <1> HIDE DEF u
  <1>3. WellFormed(u)
    BY <1>2, OpsFacts DEF WellFormed
  <1> QED
    BY <1>2, <1>3 DEF u

(* The sweep starts with a list of records. *)
LEMMA SweepType ==
  ASSUME NEW S, S \subseteq Records
  PROVE  LET u == SweepTask(S) IN WellFormed(u) /\ u.pc = "purge"
  <1> DEFINE u == SweepTask(S)
  <1>1. Idle \in Tasks /\ "purge" \in TaskPcs /\ "purge" \in TaskOps
    BY IdleType DEF TaskPcs, TaskOps
  <1>2. u \in Tasks /\ u.pc = "purge" /\ u.op = "purge" /\ u.todo = S
    BY <1>1 DEF Tasks, SweepTask
  <1> HIDE DEF u
  <1>3. WellFormed(u)
    BY <1>2, OpsFacts DEF WellFormed, TodoType, Between
  <1> QED
    BY <1>2, <1>3 DEF u

(* Recovery starts with a list of journal rows. *)
LEMMA RecoverType ==
  ASSUME TypeOK, NEW S, S \subseteq Replays
  PROVE  LET u == RecoverTask(S) IN WellFormed(u) /\ u.pc = "recover"
  <1> DEFINE u == RecoverTask(S)
  <1>1. Idle \in Tasks /\ "recover" \in TaskPcs /\ "recover" \in TaskOps /\ now \in Nat
    BY IdleType DEF TaskPcs, TaskOps, TypeOK, StoreType
  <1>2. u \in Tasks /\ u.pc = "recover" /\ u.op = "recover" /\ u.todo = S
    BY <1>1 DEF Tasks, RecoverTask
  <1> HIDE DEF u
  <1>3. WellFormed(u)
    BY <1>2, OpsFacts DEF WellFormed, TodoType, Between
  <1> QED
    BY <1>2, <1>3 DEF u

(* The tasks of the purge loop. *)
LEMMA PurgeType ==
  ASSUME NEW t, WellFormed(t), t.op = "purge"
  PROVE  /\ \A r \in t.todo : WellFormed(PurgeTask(t, r)) /\ PurgeTask(t, r).pc = "node"
         /\ WellFormed(PurgedTask(t)) /\ PurgedTask(t).pc = "purge"
         /\ WellFormed(FailedTask(t)) /\ FailedTask(t).pc = "purge"
  <1>1. t \in Tasks /\ t.todo \subseteq Records
    BY DEF WellFormed, TodoType
  <1>2. "purge" \in TaskPcs /\ "node" \in TaskPcs
    BY DEF TaskPcs
  <1>3. ASSUME NEW r \in t.todo
        PROVE  WellFormed(PurgeTask(t, r)) /\ PurgeTask(t, r).pc = "node"
    <2>1. r.ent \in Entities /\ r.at \in Nat
      BY <1>1 DEF Records
    <2>2. /\ PurgeTask(t, r) \in Tasks /\ PurgeTask(t, r).pc = "node"
          /\ PurgeTask(t, r).op = "purge" /\ PurgeTask(t, r).ent = r.ent
          /\ PurgeTask(t, r).todo = t.todo \ {r}
      BY <1>1, <1>2, <2>1 DEF Tasks, PurgeTask
    <2> QED
      BY <1>1, <2>1, <2>2, OpsFacts DEF WellFormed, TodoType
  <1>4. /\ PurgedTask(t) \in Tasks /\ PurgedTask(t).pc = "purge"
        /\ PurgedTask(t).op = "purge" /\ PurgedTask(t).todo = t.todo
    BY <1>1, <1>2 DEF Tasks, PurgedTask
  <1>5. /\ FailedTask(t) \in Tasks /\ FailedTask(t).pc = "purge"
        /\ FailedTask(t).op = "purge" /\ FailedTask(t).todo = t.todo
    BY <1>1, <1>2 DEF Tasks, FailedTask
  <1>6. WellFormed(PurgedTask(t)) /\ WellFormed(FailedTask(t))
    BY <1>1, <1>4, <1>5, OpsFacts DEF WellFormed, TodoType, Between
  <1> QED
    BY <1>3, <1>4, <1>5, <1>6

(* The task that replays one journal entry. *)
LEMMA ReplayType ==
  ASSUME NEW t, WellFormed(t), t.pc = "recover", NEW j \in t.todo
  PROVE  /\ WellFormed(ReplayTask(t, j))
         /\ ReplayTask(t, j).pc \in {"done", "out", "node"}
  <1> DEFINE u == ReplayTask(t, j)
             l == RecoverFrom(j.mode, j.ent)
  <1>1. t \in Tasks /\ t.op = "recover" /\ t.todo \subseteq Replays
    BY OpsFacts DEF WellFormed, TodoType
  <1>2. j.ent \in Entities /\ j.fid \in 0..MaxForgets /\ j.mode \in Modes
    BY <1>1, ForgetAssumption DEF Replays
  <1>3. l \in {"done", "out", "node"}
    BY <1>2 DEF RecoverFrom, Modes
  <1>4. l \in TaskPcs
    BY <1>3 DEF TaskPcs
  <1> HIDE DEF l
  <1>5. u \in Tasks /\ u.pc = l /\ u.op = "recover" /\ u.ent = j.ent /\ u.todo = t.todo \ {j}
    BY <1>1, <1>2, <1>4 DEF Tasks, ReplayTask, l
  <1> HIDE DEF u
  <1>6. "recover" \in OpsAt(l)
    BY <1>3, OpsFacts
  <1>7. WellFormed(u)
    BY <1>1, <1>2, <1>5, <1>6 DEF WellFormed, TodoType
  <1> QED
    BY <1>3, <1>5, <1>7 DEF u

-----------------------------------------------------------------------------
(* What every action does to the tasks and the edges.  A step of p gives p *)
(* a well-formed task that knows no more of the edges than is true.        *)
Moves(p, t) ==
    /\ WellFormed(t)
    /\ task' = [task EXCEPT ![p] = t]
    /\ TornDown(edges', t)

(* Edges are only ever removed, and records only added to torn-down ones. *)
EdgesShrink == \A e \in Entities : edges'[e] \subseteq edges[e]
RecordsSafe == \A r \in records' : r \in records \/ edges'[r.ent] \cap Typed = {}

(* A move keeps the invariant of every task, also of the others. *)
LEMMA MoveInv ==
  ASSUME TypeOK, EdgeInv, NEW p \in Procs, NEW t, Moves(p, t), EdgesShrink, RecordsSafe
  PROVE  TaskInv' /\ EdgeInv'
  <1>1. t \in Tasks
    BY DEF Moves, WellFormed
  <1>2. task' \in [Procs -> Tasks] /\ task'[p] = t /\ \A q \in Procs \ {p} : task'[q] = task[q]
    BY <1>1 DEF Moves, TypeOK
  <1>3. \A q \in Procs : WellFormed(task'[q])
    BY <1>2 DEF Moves, TypeOK
  <1>4. TaskInv'
    BY <1>2, <1>3 DEF TaskInv, WellFormed, Tasks, TodoType, Records, Replays, Hashes
  <1>5. \A r \in records' : edges'[r.ent] \cap Typed = {}
    BY DEF RecordsSafe, EdgesShrink, EdgeInv, TypeOK, StoreType, Records
  <1>6. ASSUME NEW q \in Procs
        PROVE  TornDown(edges', task'[q])
    <2>1. CASE q = p
      BY <1>2, <2>1 DEF Moves
    <2>2. CASE q # p
      <3>1. task'[q] = task[q] /\ TornDown(edges, task[q])
        BY <1>2, <2>2 DEF EdgeInv
      <3>2. task[q].pc \in {"in", "read", "find", "set", "record"} => task[q].ent \in Entities
        BY DEF TypeOK, WellFormed, Between
      <3> QED
        BY <3>1, <3>2 DEF TornDown, EdgesShrink
    <2> QED
      BY <2>1, <2>2
  <1> QED
    BY <1>4, <1>5, <1>6 DEF EdgeInv

(* Away from the disposal nothing is claimed of the edges. *)
LEMMA Unclaimed ==
  ASSUME NEW ed, NEW t, t.pc \notin {"in", "read", "find", "set", "record"}
  PROVE  TornDown(ed, t)
  BY DEF TornDown

(* A step that writes no edge and adds no record is harmless. *)
LEMMA SameEdges ==
  ASSUME TypeOK, UNCHANGED edges, records' \subseteq records
  PROVE  EdgesShrink /\ RecordsSafe
  BY DEF EdgesShrink, RecordsSafe

(* Goto and Return as moves. *)
LEMMA GotoMove ==
  ASSUME TypeOK, NEW p \in Procs, NEW l \in TaskPcs, Goto(p, l), task[p].op \in OpsAt(l),
         l \in Between \/ task[p].ent \in Entities
  PROVE  \E t : /\ WellFormed(t) /\ task' = [task EXCEPT ![p] = t]
                /\ t.pc = l /\ t.op = task[p].op /\ t.ent = task[p].ent
  <1> DEFINE u == [task[p] EXCEPT !.pc = l]
  <1>1. WellFormed(u) /\ u.pc = l /\ u.op = task[p].op /\ u.ent = task[p].ent
    BY MoveType DEF TypeOK
  <1>2. task' = [task EXCEPT ![p] = u]
    BY DEF Goto
  <1> QED
    BY <1>1, <1>2

(* Return as a move. *)
LEMMA ReturnMove ==
  ASSUME NEW p \in Procs, Return(p)
  PROVE  Moves(p, Idle)
  BY IdleType, Unclaimed DEF Return, Moves

(* The labels a disposal goes through. *)
LEMMA Labels ==
  /\ {"out", "in", "read", "find", "set", "record", "node", "row", "confidence", "temporal",
      "cache", "done", "unrecord", "journal", "audit", "authority", "guard"} \subseteq TaskPcs
  /\ {"audit", "authority", "guard"} \subseteq Between
  /\ {"out", "in", "read", "find", "set", "record", "node", "row", "confidence", "temporal",
      "cache", "done", "unrecord", "journal"} \cap Between = {}
  BY DEF TaskPcs, Between, DerivedTables

(* teardown_typed_edges leaves neither kind of edge before the entity is read. *)
LEMMA TeardownMoves ==
  ASSUME TypeOK, EdgeInv, NEW p \in Procs, TeardownOut(p) \/ TeardownIn(p)
  PROVE  (\E t : Moves(p, t)) /\ EdgesShrink /\ RecordsSafe
  <1>1. PICK dir \in {"out", "in"}, next \in {"in", "node", "read"} :
          /\ Teardown(p, dir, next)
          /\ dir = "out" => next = "in"
          /\ dir = "in" => next # "in"
    BY DEF TeardownOut, TeardownIn, AfterTeardown
  <1>2. task[p].pc = dir /\ WellFormed(task[p]) /\ TornDown(edges, task[p])
    BY <1>1 DEF Teardown, Pc, EdgeInv, TypeOK
  <1>3. task[p].ent \in Entities /\ task[p].op \in {"confirm", "recover"}
    BY <1>2, Labels, OpsFacts DEF WellFormed
  <1>4. task[p].op \in OpsAt(next) /\ next \in TaskPcs
    BY <1>1, <1>3, Labels, OpsFacts
  <1>5. PICK t : /\ WellFormed(t) /\ task' = [task EXCEPT ![p] = t]
                 /\ t.pc = next /\ t.op = task[p].op /\ t.ent = task[p].ent
    BY <1>1, <1>3, <1>4, GotoMove DEF Teardown
  <1>6. edges' = [edges EXCEPT ![task[p].ent] = edges[task[p].ent] \ {dir}] /\ UNCHANGED records
    BY <1>1 DEF Teardown
  <1>7. edges'[t.ent] = edges[t.ent] \ {dir} /\ EdgesShrink
    BY <1>3, <1>5, <1>6 DEF TypeOK, StoreType, EdgesShrink
  <1>8. TornDown(edges', t)
    BY <1>1, <1>2, <1>5, <1>7 DEF TornDown, Typed
  <1> QED
    BY <1>5, <1>6, <1>7, <1>8 DEF Moves, RecordsSafe

(* The read passes on what the teardown established. *)
LEMMA ReadMoves ==
  ASSUME TypeOK, EdgeInv, NEW p \in Procs, ReadState(p)
  PROVE  (\E t : Moves(p, t)) /\ EdgesShrink /\ RecordsSafe
  <1>1. task[p].pc = "read" /\ WellFormed(task[p]) /\ TornDown(edges, task[p])
    BY DEF ReadState, Pc, EdgeInv, TypeOK
  <1>2. EdgesShrink /\ RecordsSafe /\ UNCHANGED edges
    BY SameEdges DEF ReadState, store
  <1>3. task[p].ent \in Entities
    BY <1>1, Labels DEF WellFormed
  <1> DEFINE v == NewState(task[p].op, state[task[p].ent])
             u == ReadTask(task[p], state[task[p].ent], v)
  <1>4. v \in States /\ state[task[p].ent] \in States
    <2>1. state[task[p].ent] \in States
      BY <1>3 DEF TypeOK, StoreType
    <2> QED
      BY <2>1 DEF NewState, Promoted, Demoted, States
  <1> HIDE DEF v
  <1>5. WellFormed(u) /\ u.pc = "find" /\ u.op = task[p].op /\ u.ent = task[p].ent
    BY <1>1, <1>4, ReadType
  <1>6. CASE Return(p)
    BY <1>2, <1>6, ReturnMove
  <1>7. CASE task' = [task EXCEPT ![p] = u]
    <2>1. TornDown(edges', u)
      BY <1>1, <1>2, <1>5 DEF TornDown
    <2> QED
      BY <1>2, <1>5, <1>7, <2>1 DEF Moves
  <1> QED
    BY <1>6, <1>7 DEF ReadState, v

(* The SELECT of entity_update_state passes it on. *)
LEMMA FindMoves ==
  ASSUME TypeOK, EdgeInv, NEW p \in Procs, FindRow(p)
  PROVE  (\E t : Moves(p, t)) /\ EdgesShrink /\ RecordsSafe
  <1>1. task[p].pc = "find" /\ WellFormed(task[p]) /\ TornDown(edges, task[p])
    BY DEF FindRow, Pc, EdgeInv, TypeOK
  <1>2. EdgesShrink /\ RecordsSafe /\ UNCHANGED edges
    BY SameEdges DEF FindRow, store
  <1>3. task[p].ent \in Entities /\ task[p].op \in OpsAt("set") /\ "set" \in TaskPcs
    BY <1>1, Labels, OpsFacts DEF WellFormed
  <1>4. CASE Return(p)
    BY <1>2, <1>4, ReturnMove
  <1>5. CASE Goto(p, "set")
    <2>1. PICK t : /\ WellFormed(t) /\ task' = [task EXCEPT ![p] = t]
                   /\ t.pc = "set" /\ t.op = task[p].op /\ t.ent = task[p].ent
      BY <1>3, <1>5, GotoMove
    <2>2. TornDown(edges', t)
      BY <1>1, <1>2, <2>1 DEF TornDown
    <2> QED
      BY <1>2, <2>1, <2>2 DEF Moves
  <1> QED
    BY <1>4, <1>5 DEF FindRow

(* The UPDATE passes it on to PutRecord. *)
LEMMA SetMoves ==
  ASSUME TypeOK, EdgeInv, NEW p \in Procs, SetState(p)
  PROVE  (\E t : Moves(p, t)) /\ EdgesShrink /\ RecordsSafe
  <1>1. task[p].pc = "set" /\ WellFormed(task[p]) /\ TornDown(edges, task[p])
    BY DEF SetState, Pc, EdgeInv, TypeOK
  <1>2. EdgesShrink /\ RecordsSafe /\ UNCHANGED edges
    BY SameEdges DEF SetState
  <1>3. task[p].ent \in Entities /\ task[p].op \in OpsAt("set")
    BY <1>1, Labels DEF WellFormed
  <1>4. CASE Return(p)
    BY <1>2, <1>4, ReturnMove
  <1>5. CASE task[p].op \in {"confirm", "recover"} /\ Goto(p, "record")
    <2>1. task[p].op \in OpsAt("record") /\ "record" \in TaskPcs
      BY <1>5, OpsFacts, Labels
    <2>2. PICK t : /\ WellFormed(t) /\ task' = [task EXCEPT ![p] = t]
                   /\ t.pc = "record" /\ t.op = task[p].op /\ t.ent = task[p].ent
      BY <1>3, <1>5, <2>1, GotoMove
    <2>3. TornDown(edges', t)
      BY <1>1, <1>2, <1>5, <2>2 DEF TornDown
    <2> QED
      BY <1>2, <2>2, <2>3 DEF Moves
  <1>6. CASE task[p].op = "restore" /\ Goto(p, "unrecord")
    <2>1. task[p].op \in OpsAt("unrecord") /\ "unrecord" \in TaskPcs
      BY <1>6, OpsFacts, Labels
    <2>2. PICK t : /\ WellFormed(t) /\ task' = [task EXCEPT ![p] = t] /\ t.pc = "unrecord"
      BY <1>3, <1>6, <2>1, GotoMove
    <2>3. TornDown(edges', t)
      BY <2>2, Unclaimed
    <2> QED
      BY <1>2, <2>2, <2>3 DEF Moves
  <1> QED
    BY <1>4, <1>5, <1>6 DEF SetState, AfterSet

(* retraction_put adds a record for a torn-down entity. *)
LEMMA PutMoves ==
  ASSUME TypeOK, EdgeInv, NEW p \in Procs, PutRecord(p)
  PROVE  (\E t : Moves(p, t)) /\ EdgesShrink /\ RecordsSafe
  <1>1. task[p].pc = "record" /\ WellFormed(task[p]) /\ TornDown(edges, task[p])
    BY DEF PutRecord, Pc, EdgeInv, TypeOK
  <1>2. task[p].ent \in Entities /\ task[p].op \in OpsAt("confidence") /\ "confidence" \in TaskPcs
    BY <1>1, Labels, OpsFacts DEF WellFormed
  <1>3. PICK t : /\ WellFormed(t) /\ task' = [task EXCEPT ![p] = t] /\ t.pc = "confidence"
    BY <1>2, GotoMove DEF PutRecord
  <1>4. TornDown(edges', t)
    BY <1>3, Unclaimed
  <1>5. EdgesShrink
    BY DEF PutRecord, EdgesShrink
  <1>6. \A r \in records' : r \in records \/ r.ent = task[p].ent
    BY DEF PutRecord
  <1>7. RecordsSafe
    BY <1>1, <1>6 DEF PutRecord, RecordsSafe, TornDown
  <1> QED
    BY <1>3, <1>4, <1>5, <1>7 DEF Moves

(* hard_delete_entity and invalidate_derived. *)
LEMMA DeleteMoves ==
  ASSUME TypeOK, EdgeInv, NEW p \in Procs, DeleteNode(p) \/ DeleteRow(p) \/ Invalidate(p)
  PROVE  (\E t : Moves(p, t)) /\ EdgesShrink /\ RecordsSafe
  <1>1. PICK l \in {"node", "row", "confidence", "temporal", "cache"},
             n \in {"row", "confidence", "temporal", "cache", "done", "unrecord"} :
          /\ task[p].pc = l /\ Goto(p, n)
          /\ n = "unrecord" => task[p].op = "purge"
          /\ n = "done" => task[p].op # "purge"
    BY DEF DeleteNode, DeleteRow, Invalidate, DeleteDerived, AfterDerived, Pc
  <1>2. WellFormed(task[p])
    BY DEF TypeOK
  <1>3. task[p].ent \in Entities /\ task[p].op \in {"confirm", "recover", "purge"}
    BY <1>1, <1>2, Labels, OpsFacts DEF WellFormed
  <1>4. task[p].op \in OpsAt(n) /\ n \in TaskPcs
    BY <1>1, <1>3, Labels, OpsFacts
  <1>5. PICK t : /\ WellFormed(t) /\ task' = [task EXCEPT ![p] = t] /\ t.pc = n
    BY <1>1, <1>3, <1>4, GotoMove
  <1>6. TornDown(edges', t)
    BY <1>5, Unclaimed
  <1>7. UNCHANGED records
    BY DEF DeleteNode, DeleteRow, Invalidate, DeleteDerived
  <1>8. EdgesShrink
    BY <1>3 DEF DeleteNode, DeleteRow, Invalidate, DeleteDerived, EdgesShrink, TypeOK, StoreType
  <1> QED
    BY <1>5, <1>6, <1>7, <1>8 DEF Moves, RecordsSafe

(* The last steps of a disposal. *)
LEMMA FinishMoves ==
  ASSUME TypeOK, EdgeInv, NEW p \in Procs, JournalDone(p) \/ DeleteRecord(p) \/ TeardownFails(p)
  PROVE  (\E t : Moves(p, t)) /\ EdgesShrink /\ RecordsSafe
  <1>1. WellFormed(task[p])
    BY DEF TypeOK
  <1>2. EdgesShrink /\ RecordsSafe
    BY SameEdges DEF JournalDone, DeleteRecord, TeardownFails, store
  <1>3. CASE JournalDone(p)
    <2>1. task[p].pc = "done" /\ task' = [task EXCEPT ![p] = DoneTask(task[p])]
      BY <1>3 DEF JournalDone, Pc
    <2>2. WellFormed(DoneTask(task[p])) /\ TornDown(edges', DoneTask(task[p]))
      BY <1>1, <2>1, DoneType, Unclaimed
    <2> QED
      BY <1>2, <2>1, <2>2 DEF Moves
  <1>4. CASE DeleteRecord(p)
    <2>1. CASE Return(p)
      BY <1>2, <2>1, ReturnMove
    <2>2. CASE task[p].op # "restore" /\ task' = [task EXCEPT ![p] = PurgedTask(task[p])]
      <3>1. task[p].op = "purge"
        BY <1>1, <1>4, <2>2, OpsFacts DEF WellFormed, DeleteRecord, Pc
      <3>2. WellFormed(PurgedTask(task[p])) /\ TornDown(edges', PurgedTask(task[p]))
        BY <1>1, <3>1, PurgeType, Unclaimed
      <3> QED
        BY <1>2, <2>2, <3>2 DEF Moves
    <2> QED
      BY <1>4, <2>1, <2>2 DEF DeleteRecord
  <1>5. CASE TeardownFails(p)
    BY <1>2, <1>5, ReturnMove DEF TeardownFails
  <1> QED
    BY <1>3, <1>4, <1>5

(* Every step of a disposal is a move. *)
LEMMA DisposeMoves ==
  ASSUME TypeOK, EdgeInv, NEW p \in Procs, Dispose(p)
  PROVE  (\E t : Moves(p, t)) /\ EdgesShrink /\ RecordsSafe
  BY TeardownMoves, ReadMoves, FindMoves, SetMoves, PutMoves, DeleteMoves, FinishMoves
     DEF Dispose

(* Requests start with tasks that claim nothing. *)
LEMMA RequestMoves ==
  ASSUME TypeOK, EdgeInv, NEW p \in Procs, Request(p)
  PROVE  (\E t : Moves(p, t)) /\ EdgesShrink /\ RecordsSafe
  <1>1. EdgesShrink /\ RecordsSafe
    BY SameEdges DEF Request, Confirm, Restore, Shift, store
  <1>2. CASE Confirm(p)
    <2>1. PICK t \in tokens, ids \in Selections, m \in Modes, ack \in BOOLEAN :
            task' = [task EXCEPT ![p] = ConfirmTask(t, ids, m, ack)]
      BY <1>2 DEF Confirm
    <2> DEFINE u == ConfirmTask(t, ids, m, ack)
    <2>2. WellFormed(u) /\ u.pc = "guard"
      BY <1>2, ConfirmType DEF Confirm
    <2> HIDE DEF u
    <2>3. TornDown(edges', u)
      BY <2>2, Unclaimed
    <2> QED
      BY <1>1, <2>1, <2>2, <2>3 DEF Moves, u
  <1>3. CASE Restore(p)
    <2>1. PICK r \in records : task' = [task EXCEPT ![p] = RestoreTask(r)]
      BY <1>3 DEF Restore
    <2> DEFINE u == RestoreTask(r)
    <2>2. WellFormed(u) /\ u.pc = "find" /\ u.op = "restore"
      BY RestoreType DEF TypeOK, StoreType
    <2> HIDE DEF u
    <2>3. TornDown(edges', u)
      BY <2>2 DEF TornDown
    <2> QED
      BY <1>1, <2>1, <2>2, <2>3 DEF Moves, u
  <1>4. CASE Shift(p)
    <2>1. PICK e \in Entities, o \in {"promote", "demote"} :
            task' = [task EXCEPT ![p] = ShiftTask(e, o)]
      BY <1>4 DEF Shift
    <2> DEFINE u == ShiftTask(e, o)
    <2>2. WellFormed(u) /\ u.pc = "read" /\ u.op = o
      BY ShiftType
    <2> HIDE DEF u
    <2>3. TornDown(edges', u)
      BY <2>2 DEF TornDown
    <2> QED
      BY <1>1, <2>1, <2>2, <2>3 DEF Moves, u
  <1> QED
    BY <1>2, <1>3, <1>4 DEF Request

(* Every step of a request is a move. *)
LEMMA ServerMoves ==
  ASSUME TypeOK, EdgeInv, NEW p \in Procs, ServerStep(p)
  PROVE  (\E t : Moves(p, t)) /\ EdgesShrink /\ RecordsSafe
  <1>1. WellFormed(task[p])
    BY DEF TypeOK
  <1>2. CASE Guard(p)
    <2>1. EdgesShrink /\ RecordsSafe
      BY <1>2, SameEdges DEF Guard, store
    <2>2. task[p].pc = "guard" /\ task[p].op = "confirm"
      BY <1>1, <1>2, OpsFacts DEF Guard, Pc, WellFormed
    <2>3. CASE Goto(p, "audit")
      <3>1. PICK t : WellFormed(t) /\ task' = [task EXCEPT ![p] = t] /\ t.pc = "audit"
        BY <2>2, <2>3, GotoMove, Labels, OpsFacts
      <3> QED
        BY <2>1, <3>1, Unclaimed DEF Moves
    <2>4. CASE task[p].ids # <<>> /\ task' = [task EXCEPT ![p] = SelectTask(task[p])]
      <3>1. WellFormed(SelectTask(task[p])) /\ TornDown(edges', SelectTask(task[p]))
        BY <1>1, <2>2, <2>4, GuardType, Unclaimed
      <3> QED
        BY <2>1, <2>4, <3>1 DEF Moves
    <2>5. CASE task[p].ids # <<>> /\ task' = [task EXCEPT ![p] = SkipTask(task[p])]
      <3>1. WellFormed(SkipTask(task[p])) /\ TornDown(edges', SkipTask(task[p]))
        BY <1>1, <2>2, <2>5, GuardType, Unclaimed
      <3> QED
        BY <2>1, <2>5, <3>1 DEF Moves
    <2> QED
      BY <1>2, <2>3, <2>4, <2>5 DEF Guard
  <1>3. CASE JournalPut(p)
    <2>1. EdgesShrink /\ RecordsSafe
      BY <1>3, SameEdges DEF JournalPut, store
    <2>2. task[p].op = "confirm" /\ task[p].ent \in Entities
      BY <1>1, <1>3, OpsFacts, Labels DEF JournalPut, Pc, WellFormed
    <2>3. PICK t : WellFormed(t) /\ task' = [task EXCEPT ![p] = t] /\ t.pc = "out"
      BY <1>3, <2>2, GotoMove, Labels, OpsFacts DEF JournalPut
    <2> QED
      BY <2>1, <2>3, Unclaimed DEF Moves
  <1>4. CASE Audit(p)
    <2>1. EdgesShrink /\ RecordsSafe
      BY <1>4, SameEdges DEF Audit, store
    <2>2. task[p].op = "confirm"
      BY <1>1, <1>4, OpsFacts DEF Audit, Pc, WellFormed
    <2>3. PICK t : WellFormed(t) /\ task' = [task EXCEPT ![p] = t] /\ t.pc = "authority"
      BY <1>4, <2>2, GotoMove, Labels, OpsFacts DEF Audit
    <2> QED
      BY <2>1, <2>3, Unclaimed DEF Moves
  <1>5. CASE Authority(p)
    <2>1. EdgesShrink /\ RecordsSafe
      BY <1>5, SameEdges DEF Authority
    <2> QED
      BY <1>5, <2>1, ReturnMove DEF Authority
  <1>6. CASE Dispose(p)
    BY <1>6, DisposeMoves
  <1> QED
    BY <1>2, <1>3, <1>4, <1>5, <1>6 DEF ServerStep

(* The lists the job works from name records and journal rows. *)
LEMMA ListTypes ==
  ASSUME TypeOK
  PROVE  /\ Visible({r \in records : r.until < now}) \subseteq Records
         /\ Visible(Unfinished) \subseteq Replays
  <1>1. records \subseteq Records
    BY DEF TypeOK, StoreType
  <1>2. ASSUME NEW f \in 1..MaxForgets, journal[f].status = "in_progress"
        PROVE  Replay(f) \in Replays
    <2>1. journal[f].ent \in Entities /\ journal[f] \in Entries
      BY <1>2 DEF TypeOK, StoreType
    <2>2. journal[f].mode \in Modes
      BY <2>1 DEF Entries
    <2> QED
      BY <2>1, <2>2 DEF Replay, Replays
  <1>3. Unfinished \subseteq Replays
    BY <1>2 DEF Unfinished
  <1> QED
    BY <1>1, <1>3 DEF Visible

(* The steps of the job. *)
LEMMA JobMoves ==
  ASSUME TypeOK, EdgeInv, NEW p \in Procs, JobStep(p)
  PROVE  (\E t : Moves(p, t)) /\ EdgesShrink /\ RecordsSafe
  <1>1. WellFormed(task[p])
    BY DEF TypeOK
  <1>2. CASE JobStart(p)
    <2> DEFINE S == Visible({r \in records : r.until < now})
    <2>1. EdgesShrink /\ RecordsSafe
      BY <1>2, SameEdges DEF JobStart, store
    <2>2. S \subseteq Records
      BY ListTypes
    <2>3. task' = [task EXCEPT ![p] = SweepTask(S)]
      BY <1>2 DEF JobStart
    <2> HIDE DEF S
    <2>4. WellFormed(SweepTask(S)) /\ TornDown(edges', SweepTask(S))
      BY <2>2, SweepType, Unclaimed
    <2> QED
      BY <2>1, <2>3, <2>4 DEF Moves
  <1>3. CASE PurgeOne(p)
    <2>1. EdgesShrink /\ RecordsSafe
      BY <1>3, SameEdges DEF PurgeOne, store
    <2>2. task[p].op = "purge"
      BY <1>1, <1>3, OpsFacts DEF PurgeOne, Pc, WellFormed
    <2>3. PICK r \in task[p].todo : task' = [task EXCEPT ![p] = PurgeTask(task[p], r)]
      BY <1>3 DEF PurgeOne
    <2>4. WellFormed(PurgeTask(task[p], r)) /\ TornDown(edges', PurgeTask(task[p], r))
      BY <1>1, <2>2, PurgeType, Unclaimed
    <2> QED
      BY <2>1, <2>3, <2>4 DEF Moves
  <1>4. CASE PurgeEnds(p)
    <2> DEFINE S == Visible(Unfinished)
    <2>1. EdgesShrink /\ RecordsSafe
      BY <1>4, SameEdges DEF PurgeEnds, store
    <2>2. S \subseteq Replays
      BY ListTypes
    <2>3. Return(p) \/ task' = [task EXCEPT ![p] = RecoverTask(S)]
      BY <1>4 DEF PurgeEnds
    <2> HIDE DEF S
    <2>4. WellFormed(RecoverTask(S)) /\ TornDown(edges', RecoverTask(S))
      BY <2>2, RecoverType, Unclaimed
    <2> QED
      BY <2>1, <2>3, <2>4, ReturnMove DEF Moves
  <1>5. CASE RecoverOne(p)
    <2>1. EdgesShrink /\ RecordsSafe
      BY <1>5, SameEdges DEF RecoverOne, store
    <2>2. PICK j \in task[p].todo : task' = [task EXCEPT ![p] = ReplayTask(task[p], j)]
      BY <1>5 DEF RecoverOne
    <2>3. task[p].pc = "recover"
      BY <1>5 DEF RecoverOne, Pc
    <2>4. /\ WellFormed(ReplayTask(task[p], j))
          /\ ReplayTask(task[p], j).pc \in {"done", "out", "node"}
      BY <1>1, <2>3, ReplayType
    <2>5. TornDown(edges', ReplayTask(task[p], j))
      BY <2>4, Unclaimed
    <2> QED
      BY <2>1, <2>2, <2>4, <2>5 DEF Moves
  <1>6. CASE RecoverEnds(p)
    BY <1>6, SameEdges, ReturnMove DEF RecoverEnds, store
  <1>7. CASE Dispose(p)
    BY <1>7, DisposeMoves
  <1> QED
    BY <1>2, <1>3, <1>4, <1>5, <1>6, <1>7 DEF JobStep

(* A failed purge and a stopped process. *)
LEMMA FaultMoves ==
  ASSUME TypeOK, NEW p \in Procs, PurgeFails(p) \/ Stop(p)
  PROVE  (\E t : Moves(p, t)) /\ EdgesShrink /\ RecordsSafe
  <1>1. EdgesShrink /\ RecordsSafe
    BY SameEdges DEF PurgeFails, Stop, store
  <1>2. CASE PurgeFails(p)
    <2>1. WellFormed(task[p]) /\ task[p].op = "purge"
      BY <1>2 DEF TypeOK, PurgeFails
    <2>2. WellFormed(FailedTask(task[p])) /\ TornDown(edges', FailedTask(task[p]))
      BY <2>1, PurgeType, Unclaimed
    <2> QED
      BY <1>1, <1>2, <2>2 DEF Moves, PurgeFails
  <1>3. CASE Stop(p)
    BY <1>1, <1>3, ReturnMove DEF Stop
  <1> QED
    BY <1>2, <1>3

(* The tasks and the edges over a whole step. *)
LEMMA TaskStep ==
  ASSUME TypeOK, EdgeInv, [Next]_vars
  PROVE  TaskInv' /\ EdgeInv'
  <1>1. CASE \E p \in Procs : \/ Request(p) \/ ServerStep(p) \/ JobStep(p)
                              \/ PurgeFails(p) \/ Stop(p)
    <2>1. PICK p \in Procs : \/ Request(p) \/ ServerStep(p) \/ JobStep(p)
                             \/ PurgeFails(p) \/ Stop(p)
      BY <1>1
    <2>2. (\E t : Moves(p, t)) /\ EdgesShrink /\ RecordsSafe
      BY <2>1, RequestMoves, ServerMoves, JobMoves, FaultMoves
    <2> QED
      BY <2>2, MoveInv
  <1>2. CASE UNCHANGED <<task, edges, records>>
    <2>1. TaskInv
      BY DEF TypeOK, TaskInv
    <2>2. TaskInv'
      BY <1>2, <2>1 DEF TaskInv, WellFormed, Tasks, TodoType, Records, Replays, Hashes
    <2> QED
      BY <1>2, <2>2 DEF EdgeInv, TornDown
  <1>3. ASSUME Propose \/ (\E e \in Entities : Edit(e)) \/ Tick \/ UNCHANGED vars
        PROVE  UNCHANGED <<task, edges, records>>
    BY <1>3 DEF Propose, Edit, Tick, vars, store
  <1> QED
    BY <1>1, <1>2, <1>3 DEF Next, Procs

-----------------------------------------------------------------------------
(* The tables.  Recovery reads the entity out of a journal row, and the    *)
(* records of one entity are told apart by their instant.                  *)
JournalNamed ==
    \A f \in 1..MaxForgets : journal[f].status = "in_progress" => journal[f].ent \in Entities
RecordKey == \A r, q \in records : (r.ent = q.ent /\ r.at = q.at) => r = q

StoreInv == StoreType /\ JournalNamed /\ RecordKey

(* The disposal step writes values of the right type. *)
LEMMA DisposeStore ==
  ASSUME TypeOK, NEW p \in Procs, Dispose(p)
  PROVE  StoreInv'
  <1> DEFINE t == task[p]
  <1>0. StoreType /\ JournalNamed /\ RecordKey
    BY DEF TypeOK, JournalNamed, RecordKey
  <1>1. WellFormed(t) /\ t \in Tasks
    BY DEF TypeOK, WellFormed
  <1>2. /\ t.fid \in 0..MaxForgets /\ t.at \in Nat /\ t.prior \in States /\ t.val \in States
        /\ t.pc \notin Between => t.ent \in Entities
    BY <1>1, TaskFields DEF WellFormed
  <1> HIDE DEF t
  <1>3. CASE TeardownOut(p) \/ TeardownIn(p) \/ DeleteNode(p)
    <2>1. \A S \in SUBSET EdgeKinds : \A d : S \ {d} \in SUBSET EdgeKinds
      OBVIOUS
    <2>2. edges' \in [Entities -> SUBSET EdgeKinds]
      <3>1. CASE TeardownOut(p) \/ TeardownIn(p)
        <4>1. PICK d : edges' = [edges EXCEPT ![task[p].ent] = edges[task[p].ent] \ {d}]
          BY <3>1 DEF TeardownOut, TeardownIn, Teardown
        <4>2. PICK S : S = edges[task[p].ent] \ {d}
          OBVIOUS
        <4>3. task[p].ent \in Entities => S \in SUBSET EdgeKinds
          BY <1>0, <2>1, <4>2 DEF StoreType
        <4> QED
          BY <1>0, <4>1, <4>2, <4>3 DEF StoreType
      <3>2. CASE DeleteNode(p)
        <4>1. {} \in SUBSET EdgeKinds
          OBVIOUS
        <4>2. PICK S : S = IF Graph(p) THEN {} ELSE edges[task[p].ent]
          OBVIOUS
        <4>3. edges' = [edges EXCEPT ![task[p].ent] = S]
          BY <3>2, <4>2 DEF DeleteNode
        <4> QED
          BY <1>0, <4>1, <4>2, <4>3 DEF StoreType
      <3> QED
        BY <1>3, <3>1, <3>2
    <2>3. torn' \in [Entities -> 0..MaxForgets]
      BY <1>0, <1>2, <1>3 DEF StoreType, TeardownOut, TeardownIn, Teardown, DeleteNode, t
    <2>4. UNCHANGED <<now, row, state, content, derived, records, negative, journal,
                      forgets, tokens, faults>>
      BY <1>3 DEF TeardownOut, TeardownIn, Teardown, DeleteNode
    <2> QED
      BY <1>0, <2>2, <2>3, <2>4 DEF StoreInv, StoreType, JournalNamed, RecordKey
  <1>4. CASE TeardownFails(p) \/ ReadState(p) \/ FindRow(p)
    BY <1>0, <1>4 DEF StoreInv, StoreType, JournalNamed, RecordKey, TeardownFails,
       ReadState, FindRow, store
  <1>5. CASE SetState(p)
    BY <1>0, <1>2, <1>5 DEF StoreInv, StoreType, JournalNamed, RecordKey, SetState, t
  <1>6. CASE DeleteRow(p) \/ Invalidate(p)
    <2>1. \A S \in SUBSET DerivedTables : \A d : S \ {d} \in SUBSET DerivedTables
      OBVIOUS
    <2>2. derived' \in [Entities -> SUBSET DerivedTables]
      BY <1>0, <1>6, <2>1 DEF StoreType, DeleteRow, Invalidate, DeleteDerived
    <2>3. row' \in [Entities -> {"full", "none", "ghost"}]
      BY <1>0, <1>6 DEF StoreType, DeleteRow, Invalidate, DeleteDerived
    <2>4. UNCHANGED <<now, state, content, edges, records, negative, journal, forgets,
                      tokens, torn, faults>>
      BY <1>6 DEF DeleteRow, Invalidate, DeleteDerived
    <2> QED
      BY <1>0, <2>2, <2>3, <2>4 DEF StoreInv, StoreType, JournalNamed, RecordKey
  <1>7. CASE PutRecord(p)
    <2> DEFINE n == [ent |-> t.ent, at |-> t.at, prior |-> t.prior, until |-> t.at + PurgeDays]
    <2>1. t.ent \in Entities
      BY <1>2, <1>7, Labels DEF PutRecord, Pc, t
    <2>2. n \in Records /\ n.ent = t.ent /\ n.at = t.at
      BY <1>2, <2>1, ForgetAssumption DEF Records
    <2>3. records' = {r \in records : ~(r.ent = t.ent /\ r.at = t.at)} \cup {n}
      BY <1>7 DEF PutRecord, t
    <2> HIDE DEF n
    <2>4. records' \subseteq Records /\ RecordKey'
      BY <1>0, <2>2, <2>3 DEF StoreType, RecordKey
    <2> QED
      BY <1>0, <1>7, <2>4 DEF StoreInv, StoreType, JournalNamed, PutRecord
  <1>8. CASE JournalDone(p)
    <2> DEFINE n == [journal[t.fid] EXCEPT !.status = "completed"]
    <2>1. journal' = [journal EXCEPT ![t.fid] = n]
      BY <1>8 DEF JournalDone, t
    <2>2. ASSUME t.fid \in 1..MaxForgets
          PROVE  n \in Entries /\ n.status = "completed"
      BY <1>0, <2>2 DEF StoreType, Entries
    <2> HIDE DEF n
    <2>3. journal' \in [1..MaxForgets -> Entries] /\ JournalNamed'
      BY <1>0, <2>1, <2>2 DEF StoreType, JournalNamed
    <2>4. torn' \in [Entities -> 0..MaxForgets]
      BY <1>0, <1>8, ForgetAssumption DEF StoreType, JournalDone
    <2> QED
      BY <1>0, <1>8, <2>3, <2>4 DEF StoreInv, StoreType, RecordKey, JournalDone, store
  <1>9. CASE DeleteRecord(p)
    <2>1. records' \subseteq records
      BY <1>9 DEF DeleteRecord
    <2> QED
      BY <1>0, <1>9, <2>1 DEF StoreInv, StoreType, JournalNamed, RecordKey, DeleteRecord
  <1> QED
    BY <1>3, <1>4, <1>5, <1>6, <1>7, <1>8, <1>9 DEF Dispose

(* The steps of a request outside the disposal. *)
LEMMA ServerStore ==
  ASSUME TypeOK, NEW p \in Procs, Request(p) \/ ServerStep(p)
  PROVE  StoreInv'
  <1>0. StoreType /\ JournalNamed /\ RecordKey
    BY DEF TypeOK, JournalNamed, RecordKey
  <1>1. WellFormed(task[p]) /\ task[p] \in Tasks
    BY DEF TypeOK, WellFormed
  <1>2. CASE Restore(p) \/ Shift(p) \/ Guard(p) \/ Audit(p)
    BY <1>0, <1>2 DEF StoreInv, StoreType, JournalNamed, RecordKey, Restore, Shift, Guard,
       Audit, store
  <1>3. CASE Confirm(p)
    <2>1. forgets' \in 0..MaxForgets
      BY <1>0, <1>3, ForgetAssumption DEF Confirm, StoreType
    <2> QED
      BY <1>0, <1>3, <2>1 DEF StoreInv, StoreType, JournalNamed, RecordKey, Confirm, store
  <1>4. CASE JournalPut(p)
    <2> DEFINE n == [ent |-> task[p].ent, mode |-> task[p].mode, status |-> "in_progress"]
    <2>1. task[p].ent \in Entities /\ task[p].mode \in Modes
      BY <1>1, <1>4, Labels, TaskFields DEF WellFormed, JournalPut, Pc
    <2>2. n \in Entries /\ n.ent \in Entities
      BY <2>1 DEF Entries
    <2>3. journal' = [journal EXCEPT ![task[p].fid] = n]
      BY <1>4 DEF JournalPut
    <2> HIDE DEF n
    <2>4. journal' \in [1..MaxForgets -> Entries] /\ JournalNamed'
      BY <1>0, <2>2, <2>3 DEF StoreType, JournalNamed
    <2> QED
      BY <1>0, <1>4, <2>4 DEF StoreInv, StoreType, RecordKey, JournalPut, store
  <1>5. CASE Authority(p)
    <2>1. task[p].todo \subseteq Entities
      BY <1>1, <1>5, OpsFacts DEF WellFormed, TodoType, Authority, Pc
    <2> QED
      BY <1>0, <1>5, <2>1 DEF StoreInv, StoreType, JournalNamed, RecordKey, Authority
  <1>6. CASE Dispose(p)
    BY <1>6, DisposeStore
  <1> QED
    BY <1>2, <1>3, <1>4, <1>5, <1>6 DEF Request, ServerStep

(* The tables over a whole step. *)
LEMMA StoreStep ==
  ASSUME TypeOK, [Next]_vars
  PROVE  StoreInv'
  <1>0. StoreType /\ JournalNamed /\ RecordKey
    BY DEF TypeOK, JournalNamed, RecordKey
  <1>1. CASE \E p \in Servers : Request(p) \/ ServerStep(p)
    BY <1>1, ServerStore DEF Procs
  <1>2. CASE \E p \in Jobs : JobStep(p)
    <2>1. PICK p \in Procs : JobStep(p)
      BY <1>2 DEF Procs
    <2>2. CASE Dispose(p)
      BY <2>2, DisposeStore
    <2>3. CASE JobStart(p) \/ PurgeOne(p) \/ PurgeEnds(p) \/ RecoverOne(p) \/ RecoverEnds(p)
      BY <1>0, <2>3 DEF StoreInv, StoreType, JournalNamed, RecordKey, JobStart, PurgeOne,
         PurgeEnds, RecoverOne, RecoverEnds, store
    <2> QED
      BY <2>1, <2>2, <2>3 DEF JobStep
  <1>3. CASE \/ \E p \in Jobs : PurgeFails(p)
             \/ \E p \in Procs : Stop(p)
             \/ Tick
    <2>1. now' \in Nat /\ faults' \in Nat
      BY <1>0, <1>3 DEF StoreType, PurgeFails, Stop, Tick
    <2>2. UNCHANGED <<store, journal, forgets, tokens, torn>>
      BY <1>3 DEF PurgeFails, Stop, Tick
    <2> QED
      BY <1>0, <2>1, <2>2 DEF StoreInv, StoreType, JournalNamed, RecordKey, store
  <1>4. CASE Propose
    <2>1. PICK S \in SUBSET Entities :
            tokens' = tokens \cup {[hash |-> [e \in S |-> content[e]], created |-> now]}
      BY <1>4 DEF Propose
    <2>2. [e \in S |-> content[e]] \in [S -> 0..MaxEdits]
      BY <1>0 DEF StoreType
    <2>3. [e \in S |-> content[e]] \in Hashes /\ now \in Nat
      BY <1>0, <2>2 DEF Hashes, StoreType
    <2>4. tokens' \subseteq [hash: Hashes, created: Nat]
      BY <1>0, <2>1, <2>3 DEF StoreType
    <2> QED
      BY <1>0, <1>4, <2>4 DEF StoreInv, StoreType, JournalNamed, RecordKey, Propose, store
  <1>5. CASE \E e \in Entities : Edit(e)
    <2>1. PICK e \in Entities : Edit(e)
      BY <1>5
    <2>2. content' \in [Entities -> 0..MaxEdits]
      BY <1>0, <2>1, ForgetAssumption DEF Edit, StoreType
    <2> QED
      BY <1>0, <2>1, <2>2 DEF StoreInv, StoreType, JournalNamed, RecordKey, Edit
  <1>6. CASE UNCHANGED vars
    BY <1>0, <1>6 DEF StoreInv, StoreType, JournalNamed, RecordKey, vars, store
  <1> QED
    BY <1>1, <1>2, <1>3, <1>4, <1>5, <1>6 DEF Next

-----------------------------------------------------------------------------
(* What is inductive: the types, and what each program point of the        *)
(* disposal knows of the edges.                                            *)
ForgetInv == TypeOK /\ EdgeInv

(* The fresh tables satisfy it. *)
LEMMA InitInv == Init => ForgetInv
  <1> SUFFICES ASSUME Init
               PROVE  ForgetInv
    OBVIOUS
  <1>1. StoreType
    BY ForgetAssumption DEF Init, StoreType, States, Entries, NoEntry, Modes
  <1>2. task \in [Procs -> Tasks] /\ \A p \in Procs : task[p] = Idle
    BY IdleType DEF Init
  <1>3. /\ \A f \in 1..MaxForgets : journal[f].status = "in_progress" => journal[f].ent \in Entities
        /\ records = {}
    BY DEF Init, NoEntry
  <1>4. TypeOK
    BY <1>1, <1>2, <1>3, IdleType DEF TypeOK
  <1>5. EdgeInv
    BY <1>2, <1>3, IdleType, Unclaimed DEF EdgeInv
  <1> QED
    BY <1>4, <1>5 DEF ForgetInv

(* Every step keeps it. *)
LEMMA StepInv == ForgetInv /\ [Next]_vars => ForgetInv'
  <1> SUFFICES ASSUME TypeOK, EdgeInv, [Next]_vars
               PROVE  ForgetInv'
    BY DEF ForgetInv
  <1>1. TaskInv' /\ EdgeInv'
    BY TaskStep
  <1>2. StoreInv'
    BY StoreStep
  <1>3. TypeOK'
    BY <1>1, <1>2 DEF TypeOK, TaskInv, StoreInv, JournalNamed, RecordKey
  <1> QED
    BY <1>1, <1>3 DEF ForgetInv

(* The tables and the locals of every running operation keep their types,  *)
(* recovery finds an entity in every unfinished journal row, and a          *)
(* retraction is identified by its entity and instant.                      *)
THEOREM TypeCorrect == Spec => []TypeOK
  <1>1. ForgetInv => TypeOK
    BY DEF ForgetInv
  <1> QED
    BY InitInv, StepInv, <1>1, PTL DEF Spec

(* For any number of overlapping forgets, recoveries, purges, restores and  *)
(* crashes: an entity with a retraction record has no typed edge.           *)
THEOREM TornBeforeRecord == Spec => []RecordImpliesTorn
  <1>1. ForgetInv => RecordImpliesTorn
    BY DEF ForgetInv, EdgeInv, RecordImpliesTorn, RecordsOf, Typed
  <1> QED
    BY InitInv, StepInv, <1>1, PTL DEF Spec

-----------------------------------------------------------------------------
(* One operation at a time (Overlap = FALSE), whatever stops half-way.      *)
Sole == \A p, q \in Procs : ~Pc(p, "idle") /\ ~Pc(q, "idle") => p = q

(* The points of a forget, by confirm or by recovery, behind its journal row. *)
Disposing(t) == t.op \in {"confirm", "recover"} /\ t.pc \notin Between \cup {"journal"}

JournalInv ==
    /\ \A f \in 1..MaxForgets : f > forgets => journal[f].status = "absent"
    /\ UnfinishedIsListed

(* A forget is in its journal row while it disposes; before, nothing is torn in
   its name; what recovery has yet to replay is still unfinished.             *)
OwnJournal(p) ==
    /\ task[p].op = "confirm" => task[p].fid \in 1..forgets
    /\ task[p].pc \in {"guard", "journal"} => \A e \in Entities : torn[e] # task[p].fid
    /\ Disposing(task[p]) =>
         /\ task[p].fid \in 1..MaxForgets
         /\ journal[task[p].fid].status = "in_progress"
         /\ journal[task[p].fid].ent = task[p].ent
    /\ task[p].op = "recover" => \A j \in task[p].todo :
         /\ journal[j.fid] = [ent |-> j.ent, mode |-> j.mode, status |-> "in_progress"]
         /\ Disposing(task[p]) => j.fid # task[p].fid

Hidden(m, e) ==
    IF m = "hard" THEN row[e] # "full" /\ edges[e] = {}
    ELSE edges[e] \cap Typed = {} /\ state[e] = "unavailable" /\ RecordsOf(e) # {}

(* How far a confirm has come with its entity.                              *)
Reached(t) ==
    /\ t.pc = "journal" => content[t.ent] = t.hash[t.ent]
    /\ t.pc = "in" => "out" \notin edges[t.ent]
    /\ t.pc \in {"read", "find", "set", "record"} =>
         t.mode = "retract" /\ edges[t.ent] \cap Typed = {}
    /\ t.pc \in {"find", "set"} => t.val = "unavailable"
    /\ t.pc = "record" => state[t.ent] = "unavailable"
    /\ t.pc \in {"node", "row"} => t.mode = "hard"
    /\ t.pc = "row" => edges[t.ent] = {}
    /\ t.pc \in {"confidence", "temporal", "cache", "done"} => Hidden(t.mode, t.ent)
    /\ t.pc \in {"temporal", "cache", "done"} => "confidence" \notin derived[t.ent]
    /\ t.pc \in {"cache", "done"} => "temporal" \notin derived[t.ent]
    /\ t.pc = "done" => "cache" \notin derived[t.ent]

ConfirmReach(p) ==
    /\ p \in Servers => task[p].op \notin {"purge", "recover"}
    /\ task[p].op = "confirm" => p \in Servers /\ Reached(task[p])

AloneInv == Sole /\ JournalInv /\ \A p \in Procs : OwnJournal(p) /\ ConfirmReach(p)

(* While one process works every other one is idle. *)
LEMMA Lone ==
  ASSUME AloneInv, Overlap = FALSE, NEW p \in Procs, ~Pc(p, "idle") \/ MayStart
  PROVE  \A q \in Procs \ {p} : Pc(q, "idle")
  BY DEF AloneInv, Sole, MayStart

(* So a step of p keeps the invariant when it keeps p's part of it. *)
LEMMA OthersIdle ==
  ASSUME TypeOK, AloneInv, Overlap = FALSE, NEW p \in Procs, ~Pc(p, "idle") \/ MayStart,
         NEW u, task' = [task EXCEPT ![p] = u],
         JournalInv', OwnJournal(p)', ConfirmReach(p)'
  PROVE  AloneInv'
  <1>1. \A q \in Procs \ {p} : Pc(q, "idle") /\ task'[q] = task[q]
    BY Lone DEF TypeOK
  <1>2. \A q \in Procs \ {p} : task'[q].pc = "idle" /\ task'[q].op = "none"
    BY <1>1, OpsFacts DEF Pc, TypeOK, WellFormed
  <1>3. ASSUME NEW q \in Procs \ {p} PROVE OwnJournal(q)' /\ ConfirmReach(q)'
    BY <1>2 DEF OwnJournal, ConfirmReach, Disposing
  <1>4. Sole'
    BY <1>2 DEF Sole, Pc
  <1> QED
    BY <1>3, <1>4 DEF AloneInv

(* A task of another kind claims nothing. *)
LEMMA OtherTask ==
  ASSUME TypeOK, AloneInv, Overlap = FALSE, NEW p \in Procs, ~Pc(p, "idle") \/ MayStart,
         NEW u, task' = [task EXCEPT ![p] = u], u.op \notin {"confirm", "recover"},
         u.pc \notin {"guard", "journal"}, p \in Servers => u.op # "purge",
         UNCHANGED <<journal, forgets, torn>>
  PROVE  AloneInv'
  <1>1. task'[p] = u
    BY DEF TypeOK
  <1>2. JournalInv'
    BY DEF AloneInv, JournalInv, UnfinishedIsListed
  <1>3. OwnJournal(p)' /\ ConfirmReach(p)'
    BY <1>1 DEF OwnJournal, ConfirmReach, Disposing
  <1> QED
    BY <1>2, <1>3, OthersIdle

LEMMA ReturnAlone ==
  ASSUME TypeOK, AloneInv, Overlap = FALSE, NEW p \in Procs, ~Pc(p, "idle"), Return(p),
         UNCHANGED <<journal, forgets, torn>>
  PROVE  AloneInv'
  <1>1. Idle.op = "none" /\ Idle.pc = "idle"
    BY DEF Idle
  <1> QED
    BY <1>1, OtherTask DEF Return

(* Goto leaves the other locals alone. *)
LEMMA GotoFields ==
  ASSUME TypeOK, NEW p \in Procs, NEW l, Goto(p, l)
  PROVE  /\ task' = [task EXCEPT ![p] = task'[p]]
         /\ task'[p].pc = l /\ task'[p].op = task[p].op /\ task'[p].ent = task[p].ent
         /\ task'[p].fid = task[p].fid /\ task'[p].todo = task[p].todo
         /\ task'[p].mode = task[p].mode /\ task'[p].hash = task[p].hash
         /\ task'[p].val = task[p].val
  <1> DEFINE t == task[p]
             u == [t EXCEPT !.pc = l]
  <1>1. t \in Tasks
    BY DEF TypeOK
  <1>2. /\ u.pc = l /\ u.op = t.op /\ u.ent = t.ent /\ u.fid = t.fid /\ u.todo = t.todo
        /\ u.mode = t.mode /\ u.hash = t.hash /\ u.val = t.val
    BY <1>1 DEF Tasks
  <1> HIDE DEF u
  <1>3. task' = [task EXCEPT ![p] = u]
    BY DEF Goto, u
  <1>4. task'[p] = u
    BY <1>3 DEF TypeOK
  <1> QED
    BY <1>2, <1>3, <1>4

(* A step within a disposal: the journal row stays, and may get torn's name. *)
LEMMA KeepJournal ==
  ASSUME TypeOK, AloneInv, NEW p \in Procs,
         task'[p].op = task[p].op, task'[p].fid = task[p].fid, task'[p].todo = task[p].todo,
         Disposing(task'[p]) => Disposing(task[p]) /\ task'[p].ent = task[p].ent,
         task'[p].pc \in {"guard", "journal"} =>
           task[p].pc \in {"guard", "journal"} /\ torn' = torn,
         UNCHANGED <<journal, forgets>>,
         \/ torn' = torn
         \/ Disposing(task[p]) /\ torn' = [torn EXCEPT ![task[p].ent] = task[p].fid]
  PROVE  JournalInv' /\ OwnJournal(p)'
  <1>1. JournalInv /\ OwnJournal(p)
    BY DEF AloneInv
  <1>2. UnfinishedIsListed'
    <2>1. CASE torn' = torn
      BY <1>1, <2>1 DEF JournalInv, UnfinishedIsListed
    <2>2. CASE Disposing(task[p]) /\ torn' = [torn EXCEPT ![task[p].ent] = task[p].fid]
      <3>1. \A e \in Entities : torn'[e] = IF e = task[p].ent THEN task[p].fid ELSE torn[e]
        BY <2>2 DEF TypeOK, StoreType
      <3> QED
        BY <1>1, <2>2, <3>1 DEF JournalInv, UnfinishedIsListed, OwnJournal
    <2> QED
      BY <2>1, <2>2
  <1>3. JournalInv'
    BY <1>1, <1>2 DEF JournalInv
  <1>4. OwnJournal(p)'
    BY <1>1 DEF OwnJournal
  <1> QED
    BY <1>3, <1>4

LEMMA GotoAlone ==
  ASSUME TypeOK, AloneInv, Overlap = FALSE, NEW p \in Procs, ~Pc(p, "idle"),
         NEW l, l \notin {"guard", "journal"}, Goto(p, l),
         l \notin Between => task[p].pc \notin Between \cup {"journal"},
         UNCHANGED <<journal, forgets>>,
         \/ torn' = torn
         \/ Disposing(task[p]) /\ torn' = [torn EXCEPT ![task[p].ent] = task[p].fid],
         task[p].op = "confirm" => Reached(task[p])'
  PROVE  AloneInv'
  <1>1. /\ task' = [task EXCEPT ![p] = task'[p]]
        /\ task'[p].pc = l /\ task'[p].op = task[p].op /\ task'[p].ent = task[p].ent
        /\ task'[p].fid = task[p].fid /\ task'[p].todo = task[p].todo
    BY GotoFields
  <1>2. JournalInv' /\ OwnJournal(p)'
    BY <1>1, KeepJournal DEF Disposing
  <1>3. ConfirmReach(p)'
    BY <1>1 DEF AloneInv, ConfirmReach
  <1> QED
    BY <1>1, <1>2, <1>3, OthersIdle

-----------------------------------------------------------------------------
LEMMA TeardownAlone ==
  ASSUME TypeOK, AloneInv, Overlap = FALSE, NEW p \in Procs, TeardownOut(p) \/ TeardownIn(p)
  PROVE  AloneInv'
  <1>1. PICK dir \in {"out", "in"}, next \in {"in", "node", "read"} :
          /\ Teardown(p, dir, next)
          /\ dir = "out" => next = "in"
          /\ dir = "in" => next = AfterTeardown(task[p].mode)
    BY DEF TeardownOut, TeardownIn, AfterTeardown
  <1>2. task[p].pc = dir /\ WellFormed(task[p]) /\ Goto(p, next)
    BY <1>1 DEF Teardown, Pc, TypeOK
  <1>3. task[p].ent \in Entities /\ task[p].op \in {"confirm", "recover"} /\ task[p].mode \in Modes
    BY <1>2, Labels, OpsFacts, TaskFields DEF WellFormed
  <1>4. Disposing(task[p])
    BY <1>2, <1>3 DEF Disposing, Between
  <1>5. /\ task'[p].pc = next /\ task'[p].ent = task[p].ent /\ task'[p].mode = task[p].mode
    BY <1>2, GotoFields
  <1>6. edges'[task[p].ent] = edges[task[p].ent] \ {dir}
    BY <1>1, <1>3 DEF Teardown, TypeOK, StoreType
  <1>7. ASSUME task[p].op = "confirm" PROVE Reached(task[p])'
    <2>1. Reached(task[p])
      BY <1>7 DEF AloneInv, ConfirmReach
    <2>2. CASE dir = "out"
      BY <1>1, <1>5, <1>6, <2>2 DEF Reached
    <2>3. CASE dir = "in"
      <3>1. edges'[task[p].ent] \cap Typed = {}
        BY <1>2, <1>6, <2>1, <2>3 DEF Reached, Typed
      <3>2. next = IF task[p].mode = "hard" THEN "node" ELSE "read"
        BY <1>1, <2>3 DEF AfterTeardown
      <3> QED
        BY <1>3, <1>5, <3>1, <3>2 DEF Reached, Modes
    <2> QED
      BY <2>2, <2>3
  <1>8. ~Pc(p, "idle") /\ task[p].pc \notin Between \cup {"journal"}
    BY <1>2 DEF Pc, Between
  <1> QED
    BY <1>1, <1>2, <1>4, <1>7, <1>8, GotoAlone DEF Teardown

LEMMA ReadAlone ==
  ASSUME TypeOK, AloneInv, Overlap = FALSE, NEW p \in Procs, ReadState(p)
  PROVE  AloneInv'
  <1>1. task[p].pc = "read" /\ WellFormed(task[p]) /\ task[p] \in Tasks
    BY DEF ReadState, Pc, TypeOK
  <1>2. UNCHANGED <<journal, forgets, torn, edges>> /\ ~Pc(p, "idle")
    BY <1>1 DEF ReadState, store, Pc
  <1> DEFINE v == NewState(task[p].op, state[task[p].ent])
             u == ReadTask(task[p], state[task[p].ent], v)
  <1>3. CASE Return(p)
    BY <1>2, <1>3, ReturnAlone
  <1>4. CASE task' = [task EXCEPT ![p] = u]
    <2>1. /\ u.pc = "find" /\ u.op = task[p].op /\ u.ent = task[p].ent /\ u.fid = task[p].fid
          /\ u.todo = task[p].todo /\ u.mode = task[p].mode /\ u.val = v
      BY <1>1 DEF Tasks, ReadTask
    <2>2. task[p].op = "confirm" => v = "unavailable"
      BY DEF NewState
    <2> HIDE DEF u, v
    <2>3. task'[p] = u
      BY <1>4 DEF TypeOK
    <2>4. JournalInv' /\ OwnJournal(p)'
      <3>1. Disposing(u) => Disposing(task[p])
        BY <1>1, <2>1 DEF Disposing, Between
      <3> QED
        BY <1>2, <2>1, <2>3, <3>1, KeepJournal
    <2>5. ConfirmReach(p)'
      <3>1. ConfirmReach(p)
        BY DEF AloneInv
      <3> QED
        BY <1>1, <1>2, <2>1, <2>2, <2>3, <3>1 DEF ConfirmReach, Reached
    <2> QED
      BY <1>2, <1>4, <2>4, <2>5, OthersIdle
  <1> QED
    BY <1>3, <1>4 DEF ReadState

LEMMA FindAlone ==
  ASSUME TypeOK, AloneInv, Overlap = FALSE, NEW p \in Procs, FindRow(p)
  PROVE  AloneInv'
  <1>1. task[p].pc = "find"
    BY DEF FindRow, Pc
  <1>2. UNCHANGED <<journal, forgets, torn, edges>> /\ ~Pc(p, "idle")
    BY <1>1 DEF FindRow, store, Pc
  <1>3. CASE Return(p)
    BY <1>2, <1>3, ReturnAlone
  <1>4. CASE Goto(p, "set")
    <2>1. /\ task'[p].pc = "set" /\ task'[p].ent = task[p].ent
          /\ task'[p].mode = task[p].mode /\ task'[p].val = task[p].val
      BY <1>4, GotoFields
    <2>2. task[p].op = "confirm" => Reached(task[p])'
      BY <1>1, <1>2, <2>1 DEF AloneInv, ConfirmReach, Reached
    <2>3. task[p].pc \notin Between \cup {"journal"}
      BY <1>1 DEF Between
    <2> QED
      BY <1>2, <1>4, <2>2, <2>3, GotoAlone
  <1> QED
    BY <1>3, <1>4 DEF FindRow

LEMMA SetAlone ==
  ASSUME TypeOK, AloneInv, Overlap = FALSE, NEW p \in Procs, SetState(p)
  PROVE  AloneInv'
  <1>1. task[p].pc = "set" /\ WellFormed(task[p])
    BY DEF SetState, Pc, TypeOK
  <1>2. /\ UNCHANGED <<journal, forgets, torn, edges>> /\ ~Pc(p, "idle")
        /\ state' = [state EXCEPT ![task[p].ent] = task[p].val]
    BY <1>1 DEF SetState, Pc
  <1>3. task[p].ent \in Entities /\ task[p].pc \notin Between \cup {"journal"}
    BY <1>1 DEF WellFormed, Between
  <1>4. CASE Return(p)
    BY <1>2, <1>4, ReturnAlone
  <1>5. ASSUME NEW l \in {"record", "unrecord"}, Goto(p, l) PROVE AloneInv'
    <2>1. /\ task'[p].pc = l /\ task'[p].ent = task[p].ent /\ task'[p].mode = task[p].mode
      BY <1>5, GotoFields
    <2>2. state'[task[p].ent] = task[p].val
      BY <1>2, <1>3 DEF TypeOK, StoreType
    <2>3. task[p].op = "confirm" => Reached(task[p])'
      BY <1>1, <1>2, <2>1, <2>2 DEF AloneInv, ConfirmReach, Reached
    <2> QED
      BY <1>2, <1>3, <1>5, <2>3, GotoAlone
  <1> QED
    BY <1>4, <1>5 DEF SetState, AfterSet

LEMMA PutAlone ==
  ASSUME TypeOK, AloneInv, Overlap = FALSE, NEW p \in Procs, PutRecord(p)
  PROVE  AloneInv'
  <1>1. task[p].pc = "record" /\ Goto(p, "confidence")
    BY DEF PutRecord, Pc
  <1>2. UNCHANGED <<journal, forgets, torn, edges, state>> /\ ~Pc(p, "idle")
        /\ task[p].pc \notin Between \cup {"journal"}
    BY <1>1 DEF PutRecord, Pc, Between
  <1>3. task'[p].pc = "confidence" /\ task'[p].ent = task[p].ent /\ task'[p].mode = task[p].mode
    BY <1>1, GotoFields
  <1>4. \E r \in records' : r.ent = task[p].ent
    <2> DEFINE r == [ent |-> task[p].ent, at |-> task[p].at, prior |-> task[p].prior,
                     until |-> task[p].at + PurgeDays]
    <2>1. r \in records' /\ r.ent = task[p].ent
      BY DEF PutRecord
    <2> QED
      BY <2>1
  <1>5. task[p].op = "confirm" => Reached(task[p])'
    BY <1>1, <1>2, <1>3, <1>4 DEF AloneInv, ConfirmReach, Reached, Hidden, RecordsOf
  <1> QED
    BY <1>1, <1>2, <1>5, GotoAlone

LEMMA NodeAlone ==
  ASSUME TypeOK, AloneInv, Overlap = FALSE, NEW p \in Procs, DeleteNode(p)
  PROVE  AloneInv'
  <1>1. task[p].pc = "node" /\ Goto(p, "row") /\ WellFormed(task[p])
    BY DEF DeleteNode, Pc, TypeOK
  <1>2. task[p].ent \in Entities /\ task[p].op \in {"confirm", "recover", "purge"}
    BY <1>1, OpsFacts DEF WellFormed, Between
  <1>3. /\ UNCHANGED <<journal, forgets>> /\ ~Pc(p, "idle")
        /\ task[p].pc \notin Between \cup {"journal"}
        /\ edges' = [edges EXCEPT ![task[p].ent] = IF Graph(p) THEN {} ELSE @]
    BY <1>1 DEF DeleteNode, Pc, Between
  <1>4. \/ torn' = torn
        \/ Disposing(task[p]) /\ torn' = [torn EXCEPT ![task[p].ent] = task[p].fid]
    BY <1>2, <1>3 DEF DeleteNode, Disposing
  <1>5. task'[p].pc = "row" /\ task'[p].ent = task[p].ent /\ task'[p].mode = task[p].mode
    BY <1>1, GotoFields
  <1>6. ASSUME task[p].op = "confirm" PROVE Reached(task[p])'
    <2>1. p \in Servers /\ Reached(task[p])
      BY <1>6 DEF AloneInv, ConfirmReach
    <2>2. edges'[task[p].ent] = {}
      BY <1>2, <1>3, <2>1 DEF Graph, TypeOK, StoreType
    <2> QED
      BY <1>1, <1>5, <2>1, <2>2 DEF Reached
  <1> QED
    BY <1>1, <1>3, <1>4, <1>6, GotoAlone

LEMMA RowAlone ==
  ASSUME TypeOK, AloneInv, Overlap = FALSE, NEW p \in Procs, DeleteRow(p)
  PROVE  AloneInv'
  <1>1. task[p].pc = "row" /\ Goto(p, "confidence") /\ WellFormed(task[p])
    BY DEF DeleteRow, Pc, TypeOK
  <1>2. task[p].ent \in Entities
    BY <1>1 DEF WellFormed, Between
  <1>3. /\ UNCHANGED <<journal, forgets, torn, edges>> /\ ~Pc(p, "idle")
        /\ task[p].pc \notin Between \cup {"journal"}
        /\ row' = [row EXCEPT ![task[p].ent] = IF @ = "full" THEN "none" ELSE @]
    BY <1>1 DEF DeleteRow, Pc, Between
  <1>4. row'[task[p].ent] # "full"
    BY <1>2, <1>3 DEF TypeOK, StoreType
  <1>5. task'[p].pc = "confidence" /\ task'[p].ent = task[p].ent /\ task'[p].mode = task[p].mode
    BY <1>1, GotoFields
  <1>6. task[p].op = "confirm" => Reached(task[p])'
    BY <1>1, <1>3, <1>4, <1>5 DEF AloneInv, ConfirmReach, Reached, Hidden
  <1> QED
    BY <1>1, <1>3, <1>6, GotoAlone

LEMMA DerivedAlone ==
  ASSUME TypeOK, AloneInv, Overlap = FALSE, NEW p \in Procs, Invalidate(p)
  PROVE  AloneInv'
  <1>1. PICK table \in DerivedTables, next \in {"temporal", "cache", "done", "unrecord"} :
          /\ DeleteDerived(p, table, next)
          /\ table = "confidence" => next = "temporal"
          /\ table = "temporal" => next = "cache"
          /\ table = "cache" => next = AfterDerived(task[p].op)
    BY DEF Invalidate, AfterDerived, DerivedTables
  <1>2. task[p].pc = table /\ Goto(p, next) /\ WellFormed(task[p])
    BY <1>1 DEF DeleteDerived, Pc, TypeOK
  <1>3. task[p].ent \in Entities
    BY <1>2 DEF WellFormed, Between, DerivedTables
  <1>4. /\ UNCHANGED <<journal, forgets, torn, edges, row, state, records>> /\ ~Pc(p, "idle")
        /\ task[p].pc \notin Between \cup {"journal"}
        /\ derived' = [derived EXCEPT ![task[p].ent] = @ \ {table}]
    BY <1>1, <1>2 DEF DeleteDerived, Pc, Between, DerivedTables
  <1>5. derived'[task[p].ent] = derived[task[p].ent] \ {table}
    BY <1>3, <1>4 DEF TypeOK, StoreType
  <1>6. task'[p].pc = next /\ task'[p].ent = task[p].ent /\ task'[p].mode = task[p].mode
    BY <1>2, GotoFields
  <1>7. ASSUME task[p].op = "confirm" PROVE Reached(task[p])'
    <2>1. Reached(task[p])
      BY <1>7 DEF AloneInv, ConfirmReach
    <2>2. Hidden(task[p].mode, task[p].ent)
      BY <1>2, <2>1 DEF Reached, DerivedTables
    <2>3. Hidden(task[p].mode, task[p].ent)'
      BY <1>4, <1>6, <2>2 DEF Hidden, RecordsOf
    <2>4. table = "cache" => next = "done"
      BY <1>1, <1>7 DEF AfterDerived
    <2>5. CASE table = "confidence"
      BY <1>1, <1>5, <1>6, <2>3, <2>5 DEF Reached
    <2>6. CASE table = "temporal"
      BY <1>1, <1>2, <1>5, <1>6, <2>1, <2>3, <2>6 DEF Reached
    <2>7. CASE table = "cache"
      BY <1>2, <1>5, <1>6, <2>1, <2>3, <2>4, <2>7 DEF Reached
    <2> QED
      BY <2>5, <2>6, <2>7 DEF DerivedTables
  <1> QED
    BY <1>2, <1>4, <1>7, GotoAlone

(* forget_journal_update_status: what was torn in this forget's name is done. *)
LEMMA DoneAlone ==
  ASSUME TypeOK, AloneInv, Overlap = FALSE, NEW p \in Procs, JournalDone(p)
  PROVE  AloneInv'
  <1> DEFINE t == task[p]
             u == DoneTask(t)
  <1>1. t.pc = "done" /\ WellFormed(t) /\ t \in Tasks
    BY DEF JournalDone, Pc, TypeOK
  <1>2. t.op \in {"confirm", "recover"} /\ t.ent \in Entities
    BY <1>1, OpsFacts DEF WellFormed, Between
  <1>3. /\ UNCHANGED forgets /\ ~Pc(p, "idle")
        /\ journal' = [journal EXCEPT ![t.fid] = [@ EXCEPT !.status = "completed"]]
        /\ torn' = [e \in Entities |-> IF e = t.ent /\ torn[e] = t.fid THEN 0 ELSE torn[e]]
        /\ task' = [task EXCEPT ![p] = u]
    BY <1>1 DEF JournalDone, Pc
  <1>4. /\ u.op = t.op /\ u.fid = t.fid
        /\ t.op = "confirm" => u.pc = "guard"
        /\ t.op = "recover" => u.pc = "recover" /\ u.todo = t.todo
    BY <1>1 DEF DoneTask, Tasks
  <1> HIDE DEF u
  <1>5. task'[p] = u
    BY <1>3 DEF TypeOK
  <1>6. Disposing(t)
    BY <1>1, <1>2 DEF Disposing, Between
  <1>7. /\ t.fid \in 1..MaxForgets /\ journal[t.fid].status = "in_progress"
        /\ journal[t.fid].ent = t.ent
    BY <1>6 DEF AloneInv, OwnJournal
  <1>8. JournalInv
    BY DEF AloneInv
  <1>9. /\ \A f \in 1..MaxForgets \ {t.fid} : journal'[f] = journal[f]
        /\ journal[t.fid].status # "absent"
    BY <1>3, <1>7 DEF TypeOK, StoreType
  <1>10. \A e \in Entities : torn'[e] # 0 => torn'[e] = torn[e] /\ torn[e] # t.fid
    <2>1. \A e \in Entities : torn[e] = t.fid => e = t.ent
      BY <1>7, <1>8 DEF JournalInv, UnfinishedIsListed
    <2> QED
      BY <1>3, <2>1
  <1>11. JournalInv'
    <2>1. \A f \in 1..MaxForgets : f > forgets => f # t.fid
      BY <1>7, <1>8 DEF JournalInv
    <2>2. \A e \in Entities : torn'[e] # 0 => torn'[e] \in 1..MaxForgets \ {t.fid}
      BY <1>10 DEF TypeOK, StoreType
    <2>3. UnfinishedIsListed'
      BY <1>8, <1>9, <1>10, <2>2 DEF JournalInv, UnfinishedIsListed
    <2> QED
      BY <1>3, <1>8, <1>9, <2>1, <2>3 DEF JournalInv
  <1>12. OwnJournal(p)'
    <2>1. OwnJournal(p)
      BY DEF AloneInv
    <2>2. u.op = "confirm" => u.fid \in 1..forgets'
      BY <1>3, <1>4, <2>1 DEF OwnJournal
    <2>3. u.pc \in {"guard", "journal"} => \A e \in Entities : torn'[e] # u.fid
      BY <1>4, <1>7, <1>10
    <2>4. ~Disposing(u)
      BY <1>2, <1>4 DEF Disposing, Between
    <2>5. ASSUME u.op = "recover", NEW j \in u.todo
          PROVE  journal'[j.fid] = [ent |-> j.ent, mode |-> j.mode, status |-> "in_progress"]
      <3>1. /\ j \in t.todo /\ j.fid # t.fid
            /\ journal[j.fid] = [ent |-> j.ent, mode |-> j.mode, status |-> "in_progress"]
        BY <1>4, <1>6, <2>1, <2>5 DEF OwnJournal
      <3>2. j.fid \in 1..MaxForgets
        BY <1>1, <1>4, <2>5 DEF WellFormed, TodoType, Replays
      <3> QED
        BY <1>9, <3>1, <3>2
    <2> QED
      BY <1>5, <2>2, <2>3, <2>4, <2>5 DEF OwnJournal
  <1>13. ConfirmReach(p)'
    <2>1. ConfirmReach(p)
      BY DEF AloneInv
    <2> QED
      BY <1>4, <1>5, <2>1 DEF ConfirmReach, Reached
  <1> QED
    BY <1>3, <1>11, <1>12, <1>13, OthersIdle

LEMMA UnrecordAlone ==
  ASSUME TypeOK, AloneInv, Overlap = FALSE, NEW p \in Procs, DeleteRecord(p)
  PROVE  AloneInv'
  <1>1. task[p].pc = "unrecord" /\ WellFormed(task[p]) /\ task[p] \in Tasks
    BY DEF DeleteRecord, Pc, TypeOK
  <1>2. UNCHANGED <<journal, forgets, torn>> /\ ~Pc(p, "idle")
    BY <1>1 DEF DeleteRecord, Pc
  <1>3. CASE Return(p)
    BY <1>2, <1>3, ReturnAlone
  <1>4. CASE task[p].op # "restore" /\ task' = [task EXCEPT ![p] = PurgedTask(task[p])]
    <2>1. task[p].op = "purge"
      BY <1>1, <1>4, OpsFacts DEF WellFormed
    <2>2. PurgedTask(task[p]).op = "purge" /\ PurgedTask(task[p]).pc = "purge"
      BY <1>1, <2>1 DEF PurgedTask, Tasks
    <2>3. p \notin Servers
      BY <2>1 DEF AloneInv, ConfirmReach
    <2> QED
      BY <1>2, <1>4, <2>2, <2>3, OtherTask
  <1> QED
    BY <1>3, <1>4 DEF DeleteRecord

LEMMA DisposeAlone ==
  ASSUME TypeOK, AloneInv, Overlap = FALSE, NEW p \in Procs, Dispose(p)
  PROVE  AloneInv'
  <1>1. CASE TeardownFails(p)
    <2>1. ~Pc(p, "idle") /\ Return(p) /\ UNCHANGED <<journal, forgets, torn>>
      BY <1>1 DEF TeardownFails, Pc
    <2> QED
      BY <2>1, ReturnAlone
  <1> QED
    BY <1>1, TeardownAlone, ReadAlone, FindAlone, SetAlone, PutAlone, NodeAlone, RowAlone,
       DerivedAlone, DoneAlone, UnrecordAlone DEF Dispose

(* The loop of confirm: what passes has the content of the proposal. *)
LEMMA GuardAlone ==
  ASSUME TypeOK, AloneInv, Overlap = FALSE, NEW p \in Servers, Guard(p)
  PROVE  AloneInv'
  <1> DEFINE t == task[p]
  <1>0. p \in Procs
    BY DEF Procs
  <1>1. t.pc = "guard" /\ WellFormed(t) /\ t \in Tasks /\ t.op = "confirm"
    BY <1>0, OpsFacts DEF Guard, Pc, TypeOK, WellFormed
  <1>2. UNCHANGED <<journal, forgets, torn, content>> /\ ~Pc(p, "idle")
    BY <1>1 DEF Guard, store, Pc
  <1>3. CASE Goto(p, "audit")
    <2>1. task'[p].pc = "audit"
      BY <1>0, <1>3, GotoFields
    <2>2. Reached(task[p])'
      BY <2>1 DEF Reached
    <2> QED
      BY <1>0, <1>2, <1>3, <2>2, GotoAlone DEF Between
  <1>4. ASSUME NEW u, task' = [task EXCEPT ![p] = u], u.pc \in {"guard", "journal"},
               u.op = "confirm", u.fid = t.fid, u.todo = t.todo, u.hash = t.hash,
               u.pc = "journal" => content[u.ent] = t.hash[u.ent]
        PROVE  AloneInv'
    <2>1. task'[p] = u
      BY <1>0, <1>4 DEF TypeOK
    <2>2. JournalInv' /\ OwnJournal(p)'
      BY <1>0, <1>1, <1>2, <1>4, <2>1, KeepJournal DEF Disposing, Between
    <2>3. ConfirmReach(p)'
      BY <1>2, <1>4, <2>1 DEF ConfirmReach, Reached
    <2> QED
      BY <1>0, <1>2, <1>4, <2>2, <2>3, OthersIdle
  <1>5. CASE Passes(p, Head(t.ids)) /\ task' = [task EXCEPT ![p] = SelectTask(t)]
    <2> DEFINE u == SelectTask(t)
    <2>1. /\ u.pc = "journal" /\ u.op = t.op /\ u.fid = t.fid /\ u.todo = t.todo
          /\ u.hash = t.hash /\ u.ent = Head(t.ids)
      BY <1>1 DEF SelectTask, Tasks
    <2>2. content[Head(t.ids)] = t.hash[Head(t.ids)]
      BY <1>5 DEF Passes
    <2> HIDE DEF u
    <2> QED
      BY <1>1, <1>4, <1>5, <2>1, <2>2 DEF u
  <1>6. CASE task' = [task EXCEPT ![p] = SkipTask(t)]
    <2> DEFINE u == SkipTask(t)
    <2>1. /\ u.pc = t.pc /\ u.op = t.op /\ u.fid = t.fid /\ u.todo = t.todo /\ u.hash = t.hash
      BY <1>1 DEF SkipTask, Tasks
    <2> HIDE DEF u
    <2> QED
      BY <1>1, <1>4, <1>6, <2>1 DEF u
  <1> QED
    BY <1>3, <1>5, <1>6 DEF Guard

(* forget_journal_put overwrites a row in whose name nothing is torn. *)
LEMMA JournalAlone ==
  ASSUME TypeOK, AloneInv, Overlap = FALSE, NEW p \in Servers, JournalPut(p)
  PROVE  AloneInv'
  <1> DEFINE t == task[p]
             entry == [ent |-> t.ent, mode |-> t.mode, status |-> "in_progress"]
  <1>0. p \in Procs
    BY DEF Procs
  <1>1. t.pc = "journal" /\ t.op = "confirm" /\ Goto(p, "out")
    BY <1>0, OpsFacts DEF JournalPut, Pc, TypeOK, WellFormed
  <1>2. /\ UNCHANGED <<forgets, torn>> /\ ~Pc(p, "idle")
        /\ journal' = [journal EXCEPT ![t.fid] = entry]
    BY <1>1 DEF JournalPut, Pc
  <1>3. /\ task' = [task EXCEPT ![p] = task'[p]] /\ task'[p].pc = "out"
        /\ task'[p].op = t.op /\ task'[p].fid = t.fid /\ task'[p].ent = t.ent
    BY <1>0, <1>1, GotoFields
  <1>4. t.fid \in 1..forgets /\ (\A e \in Entities : torn[e] # t.fid) /\ JournalInv
    BY <1>0, <1>1 DEF AloneInv, OwnJournal
  <1>5. t.fid \in 1..MaxForgets /\ forgets \in Nat
    <2>1. forgets \in 0..MaxForgets /\ MaxForgets \in Nat
      BY ForgetAssumption DEF TypeOK, StoreType
    <2> QED
      BY <1>4, <2>1
  <1>6. /\ journal'[t.fid] = entry
        /\ \A f \in 1..MaxForgets \ {t.fid} : journal'[f] = journal[f]
    BY <1>2, <1>5 DEF TypeOK, StoreType
  <1>7. JournalInv'
    <2>1. \A e \in Entities : torn[e] # 0 => torn[e] \in 1..MaxForgets \ {t.fid}
      BY <1>4 DEF TypeOK, StoreType
    <2>2. UnfinishedIsListed'
      BY <1>2, <1>4, <1>6, <2>1 DEF JournalInv, UnfinishedIsListed
    <2>3. \A f \in 1..MaxForgets : f > forgets => f # t.fid
      BY <1>4, <1>5
    <2> QED
      BY <1>2, <1>4, <1>6, <2>2, <2>3 DEF JournalInv
  <1>8. OwnJournal(p)'
    BY <1>1, <1>2, <1>3, <1>4, <1>5, <1>6 DEF OwnJournal
  <1>9. ConfirmReach(p)'
    BY <1>1, <1>3 DEF ConfirmReach, Reached
  <1> QED
    BY <1>0, <1>2, <1>3, <1>7, <1>8, <1>9, OthersIdle

LEMMA ServerAlone ==
  ASSUME TypeOK, AloneInv, Overlap = FALSE, NEW p \in Servers, ServerStep(p)
  PROVE  AloneInv'
  <1>0. p \in Procs
    BY DEF Procs
  <1>1. CASE Audit(p)
    <2>1. /\ task[p].pc = "audit" /\ Goto(p, "authority") /\ ~Pc(p, "idle")
          /\ UNCHANGED <<journal, forgets, torn>>
      BY <1>1 DEF Audit, Pc
    <2>2. task'[p].pc = "authority"
      BY <1>0, <2>1, GotoFields
    <2>3. Reached(task[p])'
      BY <2>2 DEF Reached
    <2> QED
      BY <1>0, <2>1, <2>3, GotoAlone DEF Between
  <1>2. CASE Authority(p)
    <2>1. Return(p) /\ ~Pc(p, "idle") /\ UNCHANGED <<journal, forgets, torn>>
      BY <1>2 DEF Authority, Pc
    <2> QED
      BY <1>0, <2>1, ReturnAlone
  <1> QED
    BY <1>0, <1>1, <1>2, GuardAlone, JournalAlone, DisposeAlone DEF ServerStep

(* A request: the forget id of a confirm is fresh. *)
LEMMA RequestAlone ==
  ASSUME TypeOK, AloneInv, Overlap = FALSE, NEW p \in Servers, Request(p)
  PROVE  AloneInv'
  <1>0. p \in Procs
    BY DEF Procs
  <1>i. Idle \in Tasks
    BY IdleType
  <1>1. CASE Confirm(p)
    <2>1. PICK t \in tokens, ids \in Selections, m \in Modes, ack \in BOOLEAN :
            task' = [task EXCEPT ![p] = ConfirmTask(t, ids, m, ack)]
      BY <1>1 DEF Confirm
    <2> DEFINE u == ConfirmTask(t, ids, m, ack)
    <2>2. u.pc = "guard" /\ u.op = "confirm" /\ u.fid = forgets + 1
      BY <1>i DEF ConfirmTask, Tasks
    <2> HIDE DEF u
    <2>3. /\ MayStart /\ forgets < MaxForgets /\ forgets' = forgets + 1
          /\ UNCHANGED <<journal, torn>>
      BY <1>1 DEF Confirm, Free
    <2>4. task'[p] = u /\ task' = [task EXCEPT ![p] = u]
      BY <1>0, <2>1 DEF TypeOK, u
    <2>5. forgets \in Nat /\ JournalInv
      BY DEF TypeOK, StoreType, AloneInv
    <2>6. journal[forgets + 1].status = "absent"
      BY <2>3, <2>5, ForgetAssumption DEF JournalInv
    <2>7. JournalInv'
      <3>1. \A f \in 1..MaxForgets : f > forgets' => f > forgets
        BY <2>3, <2>5
      <3> QED
        BY <2>3, <2>5, <3>1 DEF JournalInv, UnfinishedIsListed
    <2>8. \A e \in Entities : torn[e] # forgets + 1
      BY <2>5, <2>6 DEF JournalInv, UnfinishedIsListed
    <2>9. OwnJournal(p)'
      <3>1. u.fid \in 1..forgets'
        BY <2>2, <2>3, <2>5
      <3>2. ~Disposing(u)
        BY <2>2 DEF Disposing, Between
      <3> QED
        BY <2>2, <2>3, <2>4, <2>8, <3>1, <3>2 DEF OwnJournal
    <2>10. ConfirmReach(p)'
      BY <2>2, <2>4 DEF ConfirmReach, Reached
    <2> QED
      BY <1>0, <2>3, <2>4, <2>7, <2>9, <2>10, OthersIdle
  <1>2. CASE Restore(p)
    <2>1. PICK r \in records : task' = [task EXCEPT ![p] = RestoreTask(r)]
      BY <1>2 DEF Restore
    <2>2. RestoreTask(r).op = "restore" /\ RestoreTask(r).pc = "find"
      BY <1>i DEF RestoreTask, Tasks
    <2>3. MayStart /\ UNCHANGED <<journal, forgets, torn>>
      BY <1>2 DEF Restore, Free
    <2> QED
      BY <1>0, <2>1, <2>2, <2>3, OtherTask
  <1>3. CASE Shift(p)
    <2>1. PICK e \in Entities, o \in {"promote", "demote"} :
            task' = [task EXCEPT ![p] = ShiftTask(e, o)]
      BY <1>3 DEF Shift
    <2>2. ShiftTask(e, o).op = o /\ ShiftTask(e, o).pc = "read"
      BY <1>i DEF ShiftTask, Tasks
    <2>3. MayStart /\ UNCHANGED <<journal, forgets, torn>>
      BY <1>3 DEF Shift, Free
    <2> QED
      BY <1>0, <2>1, <2>2, <2>3, OtherTask
  <1> QED
    BY <1>1, <1>2, <1>3 DEF Request

(* The job: recovery takes each unfinished row once. *)
LEMMA JobAlone ==
  ASSUME TypeOK, AloneInv, Overlap = FALSE, NEW p \in Jobs, JobStep(p) \/ PurgeFails(p)
  PROVE  AloneInv'
  <1> DEFINE t == task[p]
  <1>0. p \in Procs /\ p \notin Servers
    BY ForgetAssumption DEF Procs
  <1>t. WellFormed(t) /\ t \in Tasks
    BY <1>0 DEF TypeOK
  <1>i. Idle \in Tasks
    BY IdleType
  <1>1. CASE JobStart(p)
    <2> DEFINE S == Visible({r \in records : r.until < now})
    <2>1. /\ MayStart /\ UNCHANGED <<journal, forgets, torn>>
          /\ task' = [task EXCEPT ![p] = SweepTask(S)]
      BY <1>1 DEF JobStart, Free
    <2> HIDE DEF S
    <2>2. SweepTask(S).op = "purge" /\ SweepTask(S).pc = "purge"
      BY <1>i DEF SweepTask, Tasks
    <2> QED
      BY <1>0, <2>1, <2>2, OtherTask
  <1>2. CASE PurgeOne(p)
    <2>1. /\ t.pc = "purge" /\ ~Pc(p, "idle") /\ UNCHANGED <<journal, forgets, torn>>
      BY <1>2 DEF PurgeOne, Pc
    <2>2. t.op = "purge"
      BY <1>t, <2>1, OpsFacts DEF WellFormed
    <2>3. PICK r \in t.todo : task' = [task EXCEPT ![p] = PurgeTask(t, r)]
      BY <1>2 DEF PurgeOne
    <2>4. PurgeTask(t, r).op = "purge" /\ PurgeTask(t, r).pc = "node"
      BY <1>t, <2>2 DEF PurgeTask, Tasks
    <2> QED
      BY <1>0, <2>1, <2>3, <2>4, OtherTask
  <1>3. CASE PurgeFails(p)
    <2>1. /\ t.op = "purge" /\ ~Pc(p, "idle") /\ UNCHANGED <<journal, forgets, torn>>
          /\ task' = [task EXCEPT ![p] = FailedTask(t)]
      BY <1>3 DEF PurgeFails, Pc
    <2>2. FailedTask(t).op = "purge" /\ FailedTask(t).pc = "purge"
      BY <1>t, <2>1 DEF FailedTask, Tasks
    <2> QED
      BY <1>0, <2>1, <2>2, OtherTask
  <1>4. CASE PurgeEnds(p)
    <2> DEFINE S == Visible(Unfinished)
               u == RecoverTask(S)
    <2>1. ~Pc(p, "idle") /\ UNCHANGED <<journal, forgets, torn>>
      BY <1>4 DEF PurgeEnds, Pc
    <2>2. CASE Return(p)
      BY <1>0, <2>1, <2>2, ReturnAlone
    <2>3. CASE task' = [task EXCEPT ![p] = u]
      <3>1. ASSUME NEW j \in S
            PROVE  journal[j.fid] = [ent |-> j.ent, mode |-> j.mode, status |-> "in_progress"]
        <4>1. PICK f \in 1..MaxForgets : journal[f].status = "in_progress" /\ j = Replay(f)
          BY DEF Visible, Unfinished
        <4>2. journal[f] \in Entries
          BY DEF TypeOK, StoreType
        <4> QED
          BY <4>1, <4>2 DEF Replay, Entries
      <3> HIDE DEF S
      <3>2. u.op = "recover" /\ u.pc = "recover" /\ u.todo = S
        BY <1>i DEF RecoverTask, Tasks
      <3> HIDE DEF u
      <3>3. task'[p] = u
        BY <1>0, <2>3 DEF TypeOK
      <3>4. ~Disposing(u)
        BY <3>2 DEF Disposing, Between
      <3>5. JournalInv'
        BY <2>1 DEF AloneInv, JournalInv, UnfinishedIsListed
      <3>6. OwnJournal(p)'
        BY <2>1, <3>1, <3>2, <3>3, <3>4 DEF OwnJournal
      <3>7. ConfirmReach(p)'
        BY <1>0, <3>2, <3>3 DEF ConfirmReach
      <3> QED
        BY <1>0, <2>1, <2>3, <3>5, <3>6, <3>7, OthersIdle
    <2> QED
      BY <1>4, <2>2, <2>3 DEF PurgeEnds
  <1>5. CASE RecoverOne(p)
    <2>1. t.pc = "recover" /\ ~Pc(p, "idle") /\ UNCHANGED <<journal, forgets, torn>>
      BY <1>5 DEF RecoverOne, Pc
    <2>2. t.op = "recover" /\ t.todo \subseteq Replays
      BY <1>t, <2>1, OpsFacts DEF WellFormed, TodoType
    <2>3. PICK j \in t.todo : task' = [task EXCEPT ![p] = ReplayTask(t, j)]
      BY <1>5 DEF RecoverOne
    <2>j. j \in t.todo
      OBVIOUS
    <2> DEFINE u == ReplayTask(t, j)
    <2>4. /\ u.op = "recover" /\ u.fid = j.fid /\ u.ent = j.ent /\ u.todo = t.todo \ {j}
      BY <1>t, <2>2 DEF ReplayTask, Tasks
    <2>5. u.pc \in {"done", "out", "node"}
      BY <1>t, <2>1, ReplayType
    <2> HIDE DEF u
    <2>6. task'[p] = u /\ task' = [task EXCEPT ![p] = u]
      BY <1>0, <2>3 DEF TypeOK, u
    <2>7. \A x \in t.todo :
            journal[x.fid] = [ent |-> x.ent, mode |-> x.mode, status |-> "in_progress"]
      BY <1>0, <2>2 DEF AloneInv, OwnJournal
    <2>f. ASSUME NEW x \in t.todo
          PROVE  journal[x.fid].ent = x.ent /\ journal[x.fid].mode = x.mode
                 /\ journal[x.fid].status = "in_progress"
      <3>1. journal[x.fid] = [ent |-> x.ent, mode |-> x.mode, status |-> "in_progress"]
        BY <2>7
      <3> QED
        BY <3>1
    <2>8. ASSUME NEW x \in t.todo \ {j} PROVE x.fid # j.fid
      <3>1. x \in Replays /\ j \in Replays
        BY <2>2
      <3>2. /\ journal[x.fid].ent = x.ent /\ journal[x.fid].mode = x.mode
            /\ journal[j.fid].ent = j.ent /\ journal[j.fid].mode = j.mode
        BY <2>j, <2>f
      <3>3. x.fid = j.fid => x.ent = j.ent /\ x.mode = j.mode
        BY <3>2
      <3> QED
        BY <3>1, <3>3 DEF Replays
    <2>9. j.fid \in 1..MaxForgets
      BY <2>2 DEF Replays
    <2>10. JournalInv'
      BY <2>1 DEF AloneInv, JournalInv, UnfinishedIsListed
    <2>11. OwnJournal(p)'
      <3>1. journal[j.fid].status = "in_progress" /\ journal[j.fid].ent = j.ent
        BY <2>j, <2>f
      <3>2. u.op # "confirm" /\ u.pc \notin {"guard", "journal"}
        BY <2>4, <2>5
      <3>3. \A x \in u.todo :
              /\ journal[x.fid] = [ent |-> x.ent, mode |-> x.mode, status |-> "in_progress"]
              /\ x.fid # u.fid
        BY <2>4, <2>7, <2>8
      <3>4. journal' = journal /\ torn' = torn
        BY <2>1
      <3>5. u.fid \in 1..MaxForgets /\ journal[u.fid].status = "in_progress"
            /\ journal[u.fid].ent = u.ent
        BY <2>4, <2>9, <3>1
      <3> QED
        BY <2>6, <3>2, <3>3, <3>4, <3>5 DEF OwnJournal
    <2>12. ConfirmReach(p)'
      BY <1>0, <2>4, <2>6 DEF ConfirmReach
    <2> QED
      BY <1>0, <2>1, <2>6, <2>10, <2>11, <2>12, OthersIdle
  <1>6. CASE RecoverEnds(p)
    <2>1. ~Pc(p, "idle") /\ Return(p) /\ UNCHANGED <<journal, forgets, torn>>
      BY <1>6 DEF RecoverEnds, Pc
    <2> QED
      BY <1>0, <2>1, ReturnAlone
  <1> QED
    BY <1>0, <1>1, <1>2, <1>3, <1>4, <1>5, <1>6, DisposeAlone DEF JobStep

(* Every step keeps the invariant of operations that run one at a time. *)
LEMMA AloneStep ==
  ASSUME TypeOK, AloneInv, Overlap = FALSE, [Next]_vars
  PROVE  AloneInv'
  <1>1. CASE \E p \in Procs : Stop(p)
    <2>1. PICK p \in Procs : Stop(p)
      BY <1>1
    <2> QED
      BY <2>1, ReturnAlone DEF Stop
  <1>2. CASE UNCHANGED vars
    <2>1. JournalInv'
      BY <1>2 DEF AloneInv, JournalInv, UnfinishedIsListed, vars
    <2>2. Sole'
      BY <1>2 DEF AloneInv, Sole, Pc, vars
    <2>3. ASSUME NEW p \in Procs PROVE OwnJournal(p)' /\ ConfirmReach(p)'
      <3>1. OwnJournal(p) /\ ConfirmReach(p)
        BY DEF AloneInv
      <3>2. OwnJournal(p)'
        BY <1>2, <3>1 DEF OwnJournal, vars
      <3>3. ConfirmReach(p)'
        BY <1>2, <3>1 DEF ConfirmReach, Reached, Hidden, RecordsOf, vars, store
      <3> QED
        BY <3>2, <3>3
    <2> QED
      BY <2>1, <2>2, <2>3 DEF AloneInv
  <1>3. CASE Propose \/ (\E e \in Entities : Edit(e)) \/ Tick
    <2>1. MayStart /\ UNCHANGED <<journal, forgets, torn, task>>
      BY <1>3 DEF Propose, Edit, Tick
    <2>2. \A p \in Procs : task'[p].pc = "idle" /\ task'[p].op = "none"
      BY <2>1, OpsFacts DEF MayStart, Pc, TypeOK, WellFormed
    <2>3. JournalInv'
      BY <2>1 DEF AloneInv, JournalInv, UnfinishedIsListed
    <2>4. \A p \in Procs : OwnJournal(p)' /\ ConfirmReach(p)'
      BY <2>2 DEF OwnJournal, ConfirmReach, Disposing
    <2>5. Sole'
      BY <2>2 DEF Sole, Pc
    <2> QED
      BY <2>3, <2>4, <2>5 DEF AloneInv
  <1> QED
    BY <1>1, <1>2, <1>3, RequestAlone, ServerAlone, JobAlone DEF Next

(* The invariant of operations that run one at a time: a forget is listed *)
(* before it disposes, and a confirm has removed what it passed.          *)
THEOREM AloneInvariant == ASSUME Overlap = FALSE PROVE Spec => []AloneInv
  <1>1. Init => AloneInv
    <2> SUFFICES ASSUME Init PROVE AloneInv
      OBVIOUS
    <2>1. \A p \in Procs : task[p].pc = "idle" /\ task[p].op = "none"
      BY DEF Init, Idle
    <2>2. JournalInv
      BY DEF Init, JournalInv, UnfinishedIsListed, NoEntry
    <2>3. \A p \in Procs : OwnJournal(p) /\ ConfirmReach(p)
      BY <2>1 DEF OwnJournal, ConfirmReach, Disposing
    <2>4. Sole
      BY <2>1 DEF Sole, Pc
    <2> QED
      BY <2>2, <2>3, <2>4 DEF AloneInv
  <1>2. TypeOK /\ AloneInv /\ [Next]_vars => AloneInv'
    BY AloneStep
  <1> QED
    BY <1>1, <1>2, TypeCorrect, PTL DEF Spec

(* Write-ahead: when operations run one at a time, whatever a stopped forget *)
(* has begun to dispose of is still listed for recovery, for every number of *)
(* entities, ids of one confirm, forgets and stops.                          *)
THEOREM WriteAhead == ASSUME Overlap = FALSE PROVE Spec => []UnfinishedIsListed
  <1>1. AloneInv => UnfinishedIsListed
    BY DEF AloneInv, JournalInv
  <1> QED
    BY <1>1, AloneInvariant, PTL

(* An id is reported as forgotten only when nothing of it is left, also after *)
(* earlier attempts on it stopped half-way.                                    *)
THEOREM ReportedIsForgotten == ASSUME Overlap = FALSE PROVE Spec => ConfirmIsComplete
  <1>1. TypeOK /\ AloneInv /\ [Next]_vars
          => [\A p \in Servers : JournalDone(p) => Forgotten(task[p].mode, task[p].ent)]_vars
    <2> SUFFICES ASSUME TypeOK, AloneInv, NEW p \in Servers, JournalDone(p)
                 PROVE  Forgotten(task[p].mode, task[p].ent)
      OBVIOUS
    <2>0. p \in Procs
      BY DEF Procs
    <2>1. task[p].pc = "done" /\ WellFormed(task[p])
      BY <2>0 DEF JournalDone, Pc, TypeOK
    <2>2. task[p].op = "confirm"
      BY <2>0, <2>1, OpsFacts DEF AloneInv, ConfirmReach, WellFormed
    <2>3. Reached(task[p]) /\ task[p].ent \in Entities /\ task[p].mode \in Modes
      BY <2>0, <2>1, <2>2, TaskFields DEF AloneInv, ConfirmReach, WellFormed, Between
    <2>4. derived[task[p].ent] = {}
      <3>1. derived[task[p].ent] \subseteq DerivedTables
        BY <2>3 DEF TypeOK, StoreType
      <3> QED
        BY <2>1, <2>3, <3>1 DEF Reached, DerivedTables
    <2>5. Hidden(task[p].mode, task[p].ent)
      BY <2>1, <2>3 DEF Reached
    <2> QED
      BY <2>4, <2>5 DEF Forgotten, Hidden, Typed
  <1> QED
    BY <1>1, AloneInvariant, TypeCorrect, PTL DEF Spec, ConfirmIsComplete

-----------------------------------------------------------------------------
(* What a replay has done when it has passed the entity itself: no row, or, *)
(* for a retraction, a record.                                              *)
Finished(m, e) == Exists(e) => m = "retract" /\ RecordsOf(e) # {}

(* How far the job has come with the journal row it replays. A retraction   *)
(* goes through the teardown to its record, a hard forget through the node  *)
(* to the row, and only what recovery found finished skips both.            *)
ReplayAt(p) ==
    task[p].op = "recover" =>
        /\ task[p].pc \in {"out", "in", "read", "find", "set", "record"} => task[p].mode = "retract"
        /\ task[p].pc \in {"node", "row"} => task[p].mode = "hard"
        /\ task[p].pc \in DerivedTables \cup {"done"} => Finished(task[p].mode, task[p].ent)

ReplayInv == \A p \in Procs : ReplayAt(p)

(* The process that works does not disturb a replay, for it is alone. *)
LEMMA ReplayOthers ==
  ASSUME TypeOK, AloneInv, Overlap = FALSE, NEW p \in Procs, ~Pc(p, "idle") \/ MayStart,
         NEW u, task' = [task EXCEPT ![p] = u], ReplayAt(p)'
  PROVE  ReplayInv'
  <1>1. \A q \in Procs \ {p} : Pc(q, "idle") /\ task'[q] = task[q]
    BY Lone DEF TypeOK
  <1>2. \A q \in Procs \ {p} : task'[q].op = "none"
    BY <1>1, OpsFacts DEF Pc, TypeOK, WellFormed
  <1> QED
    BY <1>2 DEF ReplayInv, ReplayAt

(* A replay that goes from one point to the next keeps its entity and mode. *)
LEMMA ReplayGoto ==
  ASSUME TypeOK, ReplayInv, NEW p \in Procs, NEW l, Goto(p, l),
         task[p].op = "recover" =>
           \/ l \in {"out", "in", "read", "find", "set", "record"} /\ task[p].mode = "retract"
           \/ l = "row" /\ task[p].mode = "hard"
           \/ l \in DerivedTables \cup {"done"} /\ Finished(task[p].mode, task[p].ent)'
  PROVE  ReplayAt(p)'
  <1>1. /\ task'[p].pc = l /\ task'[p].op = task[p].op /\ task'[p].ent = task[p].ent
        /\ task'[p].mode = task[p].mode
    BY GotoFields
  <1>2. CASE task[p].op # "recover"
    BY <1>1, <1>2 DEF ReplayAt
  <1>3. CASE /\ task[p].op = "recover" /\ task[p].mode = "retract"
             /\ l \in {"out", "in", "read", "find", "set", "record"}
    BY <1>1, <1>3 DEF ReplayAt, DerivedTables
  <1>4. CASE task[p].op = "recover" /\ task[p].mode = "hard" /\ l = "row"
    BY <1>1, <1>4 DEF ReplayAt, DerivedTables
  <1>5. CASE /\ task[p].op = "recover" /\ l \in DerivedTables \cup {"done"}
             /\ Finished(task[p].mode, task[p].ent)'
    BY <1>1, <1>5 DEF ReplayAt, DerivedTables
  <1> QED
    BY <1>2, <1>3, <1>4, <1>5

(* A task of another operation replays nothing. *)
LEMMA NoReplay ==
  ASSUME TypeOK, NEW p \in Procs, NEW u, task' = [task EXCEPT ![p] = u],
         u.op # "recover" \/ u.pc = "recover"
  PROVE  ReplayAt(p)'
  <1>1. task'[p] = u
    BY DEF TypeOK
  <1> QED
    BY <1>1 DEF ReplayAt, DerivedTables

LEMMA ReturnReplay ==
  ASSUME TypeOK, NEW p \in Procs, Return(p)
  PROVE  ReplayAt(p)'
  <1>1. Idle.op # "recover"
    BY DEF Idle
  <1> QED
    BY <1>1, NoReplay DEF Return

(* The shared steps of a forget. *)
LEMMA DisposeReplay ==
  ASSUME TypeOK, ReplayInv, NEW p \in Procs, Dispose(p)
  PROVE  ReplayAt(p)'
  <1>0. /\ ReplayAt(p) /\ WellFormed(task[p]) /\ task[p] \in Tasks
        /\ task[p].pc \notin Between => task[p].ent \in Entities
    BY DEF ReplayInv, TypeOK, WellFormed
  <1>1. CASE TeardownOut(p) \/ TeardownIn(p)
    <2>1. PICK dir \in {"out", "in"}, next \in {"in", "node", "read"} :
            /\ Teardown(p, dir, next)
            /\ dir = "out" => next = "in"
            /\ dir = "in" => next = AfterTeardown(task[p].mode)
      BY <1>1 DEF TeardownOut, TeardownIn, AfterTeardown
    <2>2. task[p].pc = dir /\ Goto(p, next)
      BY <2>1 DEF Teardown, Pc
    <2>3. task[p].op = "recover" => task[p].mode = "retract" /\ next \in {"in", "read"}
      BY <1>0, <2>1, <2>2 DEF ReplayAt, AfterTeardown
    <2> QED
      BY <2>2, <2>3, ReplayGoto
  <1>2. CASE TeardownFails(p)
    BY <1>2, ReturnReplay DEF TeardownFails
  <1>3. CASE ReadState(p)
    <2> DEFINE v == NewState(task[p].op, state[task[p].ent])
               u == ReadTask(task[p], state[task[p].ent], v)
    <2>1. CASE Return(p)
      BY <2>1, ReturnReplay
    <2>2. CASE task' = [task EXCEPT ![p] = u]
      <3>1. u.pc = "find" /\ u.op = task[p].op /\ u.mode = task[p].mode
        BY <1>0 DEF Tasks, ReadTask
      <3> HIDE DEF u, v
      <3>2. task'[p] = u
        BY <2>2 DEF TypeOK
      <3>3. task[p].pc = "read"
        BY <1>3 DEF ReadState, Pc
      <3> QED
        BY <1>0, <3>1, <3>2, <3>3 DEF ReplayAt, DerivedTables
    <2> QED
      BY <1>3, <2>1, <2>2 DEF ReadState
  <1>4. CASE FindRow(p)
    <2>1. task[p].pc = "find" /\ (Return(p) \/ Goto(p, "set"))
      BY <1>4 DEF FindRow, Pc
    <2>2. task[p].op = "recover" => task[p].mode = "retract"
      BY <1>0, <2>1 DEF ReplayAt
    <2> QED
      BY <2>1, <2>2, ReturnReplay, ReplayGoto
  <1>5. CASE SetState(p)
    <2>1. task[p].pc = "set"
      BY <1>5 DEF SetState, Pc
    <2>2. task[p].op = "recover" => task[p].mode = "retract"
      BY <1>0, <2>1 DEF ReplayAt
    <2>3. CASE Return(p)
      BY <2>3, ReturnReplay
    <2>4. ASSUME ~Return(p) PROVE Goto(p, AfterSet(task[p].op))
      BY <1>5, <2>4 DEF SetState
    <2>5. task[p].op = "recover" => AfterSet(task[p].op) = "record"
      BY DEF AfterSet
    <2> QED
      BY <2>2, <2>3, <2>4, <2>5, ReplayGoto
  <1>6. CASE PutRecord(p)
    <2>1. task[p].pc = "record" /\ Goto(p, "confidence")
      BY <1>6 DEF PutRecord, Pc
    <2>2. task[p].op = "recover" => task[p].mode = "retract"
      BY <1>0, <2>1 DEF ReplayAt
    <2>3. \E r \in records' : r.ent = task[p].ent
      <3> DEFINE r == [ent |-> task[p].ent, at |-> task[p].at, prior |-> task[p].prior,
                       until |-> task[p].at + PurgeDays]
      <3>1. r \in records' /\ r.ent = task[p].ent
        BY <1>6 DEF PutRecord
      <3> QED
        BY <3>1
    <2>4. task'[p].ent = task[p].ent /\ task'[p].mode = task[p].mode
      BY <2>1, GotoFields
    <2>5. task[p].op = "recover" => Finished(task[p].mode, task[p].ent)'
      BY <2>2, <2>3, <2>4 DEF Finished, RecordsOf
    <2> QED
      BY <2>1, <2>5, ReplayGoto DEF DerivedTables
  <1>7. CASE DeleteNode(p)
    <2>1. task[p].pc = "node" /\ Goto(p, "row")
      BY <1>7 DEF DeleteNode, Pc
    <2> QED
      BY <1>0, <2>1, ReplayGoto DEF ReplayAt
  <1>8. CASE DeleteRow(p)
    <2>1. task[p].pc = "row" /\ Goto(p, "confidence")
      BY <1>8 DEF DeleteRow, Pc
    <2>2. task[p].ent \in Entities
      BY <1>0, <2>1 DEF Between
    <2>3. row'[task[p].ent] # "full"
      BY <1>8, <2>2 DEF DeleteRow, TypeOK, StoreType
    <2>4. task'[p].ent = task[p].ent
      BY <2>1, GotoFields
    <2>5. Finished(task[p].mode, task[p].ent)'
      BY <2>3, <2>4 DEF Finished, Exists
    <2> QED
      BY <2>1, <2>5, ReplayGoto DEF DerivedTables
  <1>9. CASE Invalidate(p)
    <2>1. PICK table \in DerivedTables, next \in {"temporal", "cache", "done", "unrecord"} :
            /\ DeleteDerived(p, table, next)
            /\ table = "cache" => next = AfterDerived(task[p].op)
            /\ table # "cache" => next # "unrecord"
      BY <1>9 DEF Invalidate, AfterDerived, DerivedTables
    <2>2. task[p].pc = table /\ Goto(p, next) /\ UNCHANGED <<row, records>>
      BY <2>1 DEF DeleteDerived, Pc
    <2>3. task'[p].ent = task[p].ent /\ task'[p].mode = task[p].mode
      BY <2>2, GotoFields
    <2>4. task[p].op = "recover" => next \in DerivedTables \cup {"done"}
      BY <2>1 DEF AfterDerived, DerivedTables
    <2>5. task[p].op = "recover" => Finished(task[p].mode, task[p].ent)
      BY <1>0, <2>2 DEF ReplayAt
    <2>6. task[p].op = "recover" => Finished(task[p].mode, task[p].ent)'
      BY <2>2, <2>3, <2>5 DEF Finished, Exists, RecordsOf
    <2> QED
      BY <2>2, <2>4, <2>6, ReplayGoto
  <1>10. CASE JournalDone(p)
    <2>1. task' = [task EXCEPT ![p] = DoneTask(task[p])]
      BY <1>10 DEF JournalDone
    <2>2. DoneTask(task[p]).op # "recover" \/ DoneTask(task[p]).pc = "recover"
      BY <1>0 DEF DoneTask, Tasks
    <2> QED
      BY <2>1, <2>2, NoReplay
  <1>11. CASE DeleteRecord(p)
    <2>1. task[p].pc = "unrecord"
      BY <1>11 DEF DeleteRecord, Pc
    <2>2. task[p].op # "recover"
      BY <1>0, <2>1, OpsFacts DEF WellFormed
    <2>3. CASE Return(p)
      BY <2>3, ReturnReplay
    <2>4. CASE task' = [task EXCEPT ![p] = PurgedTask(task[p])]
      <3>1. PurgedTask(task[p]).op # "recover"
        BY <1>0, <2>2 DEF PurgedTask, Tasks
      <3> QED
        BY <2>4, <3>1, NoReplay
    <2> QED
      BY <1>11, <2>3, <2>4 DEF DeleteRecord
  <1> QED
    BY <1>1, <1>2, <1>3, <1>4, <1>5, <1>6, <1>7, <1>8, <1>9, <1>10, <1>11 DEF Dispose

(* recover_entity_target decides from the row and the record, not from the *)
(* state the crashed forget may have set.                                  *)
LEMMA DecideReplay ==
  ASSUME TypeOK, NEW p \in Procs, RecoverOne(p)
  PROVE  ReplayAt(p)'
  <1> DEFINE t == task[p]
  <1>1. t.pc = "recover" /\ WellFormed(t) /\ t \in Tasks /\ UNCHANGED <<row, records>>
    BY DEF RecoverOne, Pc, TypeOK, store
  <1>2. t.op = "recover" /\ t.todo \subseteq Replays
    BY <1>1, OpsFacts DEF WellFormed, TodoType
  <1>3. PICK j \in t.todo : task' = [task EXCEPT ![p] = ReplayTask(t, j)]
    BY DEF RecoverOne
  <1>4. j.mode \in Modes /\ j.ent \in Entities
    BY <1>2 DEF Replays
  <1> DEFINE u == ReplayTask(t, j)
             l == RecoverFrom(j.mode, j.ent)
  <1>5. u.pc = l /\ u.op = "recover" /\ u.ent = j.ent /\ u.mode = j.mode
    BY <1>1, <1>2 DEF ReplayTask, Tasks
  <1>6. task'[p] = u
    BY <1>3 DEF TypeOK
  <1> HIDE DEF u
  <1>7. \/ l = "done" /\ Finished(j.mode, j.ent)
        \/ l = "out" /\ j.mode = "retract"
        \/ l = "node" /\ j.mode = "hard"
    BY <1>4 DEF RecoverFrom, Finished, Modes
  <1> HIDE DEF l
  <1>8. CASE l = "done" /\ Finished(j.mode, j.ent)
    <2>1. Finished(u.mode, u.ent)
      BY <1>5, <1>8
    <2>2. Finished(task[p].mode, task[p].ent)'
      BY <1>1, <1>6, <2>1 DEF Finished, Exists, RecordsOf
    <2> QED
      BY <1>5, <1>6, <1>8, <2>2 DEF ReplayAt
  <1>9. CASE (l = "out" /\ j.mode = "retract") \/ (l = "node" /\ j.mode = "hard")
    BY <1>5, <1>6, <1>9 DEF ReplayAt, DerivedTables
  <1> QED
    BY <1>7, <1>8, <1>9

(* The job's steps. *)
LEMMA JobReplay ==
  ASSUME TypeOK, ReplayInv, NEW p \in Procs, JobStep(p) \/ PurgeFails(p)
  PROVE  ReplayAt(p)'
  <1> DEFINE t == task[p]
  <1>0. WellFormed(t) /\ t \in Tasks /\ Idle \in Tasks
    BY IdleType DEF TypeOK
  <1>1. CASE JobStart(p)
    <2> DEFINE S == Visible({r \in records : r.until < now})
    <2>1. task' = [task EXCEPT ![p] = SweepTask(S)]
      BY <1>1 DEF JobStart
    <2> HIDE DEF S
    <2>2. SweepTask(S).op = "purge"
      BY <1>0 DEF SweepTask, Tasks
    <2> QED
      BY <2>1, <2>2, NoReplay
  <1>2. CASE PurgeOne(p)
    <2>1. t.op = "purge"
      BY <1>0, <1>2, OpsFacts DEF PurgeOne, Pc, WellFormed
    <2>2. PICK r \in t.todo : task' = [task EXCEPT ![p] = PurgeTask(t, r)]
      BY <1>2 DEF PurgeOne
    <2>3. PurgeTask(t, r).op = "purge"
      BY <1>0, <2>1 DEF PurgeTask, Tasks
    <2> QED
      BY <2>2, <2>3, NoReplay
  <1>3. CASE PurgeFails(p)
    <2>1. t.op = "purge" /\ task' = [task EXCEPT ![p] = FailedTask(t)]
      BY <1>3 DEF PurgeFails
    <2>2. FailedTask(t).op = "purge"
      BY <1>0, <2>1 DEF FailedTask, Tasks
    <2> QED
      BY <2>1, <2>2, NoReplay
  <1>4. CASE PurgeEnds(p)
    <2> DEFINE u == RecoverTask(Visible(Unfinished))
    <2>1. Return(p) \/ task' = [task EXCEPT ![p] = u]
      BY <1>4 DEF PurgeEnds
    <2>2. u.pc = "recover"
      BY <1>0 DEF RecoverTask, Tasks
    <2> HIDE DEF u
    <2> QED
      BY <2>1, <2>2, NoReplay, ReturnReplay
  <1>5. CASE RecoverEnds(p)
    BY <1>5, ReturnReplay DEF RecoverEnds
  <1> QED
    BY <1>1, <1>2, <1>3, <1>4, <1>5, DecideReplay, DisposeReplay DEF JobStep

(* A step of p is p's alone: it works, or nobody does. *)
LEMMA OneWorks ==
  ASSUME NEW p \in Procs,
         Request(p) \/ ServerStep(p) \/ JobStep(p) \/ PurgeFails(p) \/ Stop(p)
  PROVE  ~Pc(p, "idle") \/ MayStart
  <1>1. ASSUME Request(p) \/ JobStart(p) PROVE MayStart
    BY <1>1 DEF Request, Confirm, Restore, Shift, JobStart, Free
  <1>2. ASSUME Dispose(p) PROVE ~Pc(p, "idle")
    BY <1>2 DEF Dispose, TeardownOut, TeardownIn, Teardown, TeardownFails, ReadState, FindRow,
       SetState, PutRecord, DeleteNode, DeleteRow, Invalidate, DeleteDerived, JournalDone,
       DeleteRecord, Pc
  <1>3. ASSUME Guard(p) \/ JournalPut(p) \/ Audit(p) \/ Authority(p) PROVE ~Pc(p, "idle")
    BY <1>3 DEF Guard, JournalPut, Audit, Authority, Pc
  <1>4. ASSUME PurgeOne(p) \/ PurgeEnds(p) \/ RecoverOne(p) \/ RecoverEnds(p) PROVE ~Pc(p, "idle")
    BY <1>4 DEF PurgeOne, PurgeEnds, RecoverOne, RecoverEnds, Pc
  <1>5. ASSUME PurgeFails(p) \/ Stop(p) PROVE ~Pc(p, "idle")
    BY <1>5 DEF PurgeFails, Stop, Pc
  <1> QED
    BY <1>1, <1>2, <1>3, <1>4, <1>5 DEF ServerStep, JobStep

(* Every step keeps what a replay knows. *)
LEMMA ReplayStep ==
  ASSUME ForgetInv, AloneInv, AloneInv', ReplayInv, Overlap = FALSE, [Next]_vars
  PROVE  ReplayInv'
  <1>0. TypeOK /\ EdgeInv
    BY DEF ForgetInv
  <1>1. CASE \E p \in Procs : \/ p \in Servers /\ (Request(p) \/ ServerStep(p))
                              \/ p \in Jobs /\ (JobStep(p) \/ PurgeFails(p))
                              \/ Stop(p)
    <2>1. PICK p \in Procs : \/ p \in Servers /\ (Request(p) \/ ServerStep(p))
                             \/ p \in Jobs /\ (JobStep(p) \/ PurgeFails(p))
                             \/ Stop(p)
      BY <1>1
    <2>2. PICK t : task' = [task EXCEPT ![p] = t]
      BY <1>0, <2>1, RequestMoves, ServerMoves, JobMoves, FaultMoves DEF Moves
    <2>3. ~Pc(p, "idle") \/ MayStart
      BY <2>1, OneWorks
    <2>4. p \in Servers => ReplayAt(p)'
      BY DEF AloneInv, ConfirmReach, ReplayAt
    <2>5. Stop(p) => ReplayAt(p)'
      BY <1>0, ReturnReplay DEF Stop
    <2>6. ReplayAt(p)'
      BY <1>0, <2>1, <2>4, <2>5, JobReplay
    <2> QED
      BY <1>0, <2>2, <2>3, <2>6, ReplayOthers
  <1>2. CASE Propose \/ (\E e \in Entities : Edit(e)) \/ Tick \/ UNCHANGED vars
    <2>1. UNCHANGED <<task, row, records>>
      BY <1>2 DEF Propose, Edit, Tick, vars, store
    <2> QED
      BY <2>1 DEF ReplayInv, ReplayAt, Finished, Exists, RecordsOf
  <1> QED
    BY <1>1, <1>2 DEF Next, Procs

(* Whatever recover_unfinished_forgets reports as recovered is a row that   *)
(* is gone or, for a retraction, an entity without typed edges and with a   *)
(* retraction record, wherever the forget it replays had stopped.           *)
THEOREM RecoveredIsFinished == ASSUME Overlap = FALSE PROVE Spec => RecoveredIsDisposed
  <1>1. Init => ReplayInv
    <2>1. Idle.op # "recover"
      BY DEF Idle
    <2> QED
      BY <2>1 DEF Init, ReplayInv, ReplayAt
  <1>2. ForgetInv /\ AloneInv /\ AloneInv' /\ ReplayInv /\ [Next]_vars => ReplayInv'
    BY ReplayStep
  <1>3. ForgetInv /\ ReplayInv /\ AloneInv /\ [Next]_vars
          => [\A p \in Jobs : JournalDone(p) => Disposed(task[p].mode, task[p].ent)]_vars
    <2> SUFFICES ASSUME ForgetInv, ReplayInv, AloneInv, NEW p \in Jobs, JournalDone(p)
                 PROVE  Disposed(task[p].mode, task[p].ent)
      OBVIOUS
    <2>1. p \in Procs /\ p \notin Servers
      BY ForgetAssumption DEF Procs
    <2>2. task[p].pc = "done" /\ WellFormed(task[p])
      BY <2>1 DEF JournalDone, Pc, ForgetInv, TypeOK
    <2>3. task[p].op = "recover"
      BY <2>1, <2>2, OpsFacts DEF AloneInv, ConfirmReach, WellFormed
    <2>4. Finished(task[p].mode, task[p].ent)
      BY <2>1, <2>2, <2>3 DEF ReplayInv, ReplayAt
    <2> QED
      BY <2>4 DEF Finished, Disposed, ForgetInv, EdgeInv, RecordsOf, Typed
  <1> QED
    BY <1>1, <1>2, <1>3, InitInv, StepInv, AloneInvariant, PTL DEF Spec, RecoveredIsDisposed
=============================================================================
