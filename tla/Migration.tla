------------------------------ MODULE Migration ------------------------------
(***************************************************************************)
(* run_migrations (migration.rs): the bootstrap of a keyspace, its resume  *)
(* after an interrupted first run, the schema_version ledger with repair   *)
(* of lost objects, the pending migrations and the copy and swap of        *)
(* feedback_outcomes (version 36).                                         *)
(*                                                                         *)
(* A script is a sequence of statements that create or drop an object (a   *)
(* table, an index, a column or seed rows).  Every statement that changes  *)
(* the schema, the ledger or a row is one step, and the process may die    *)
(* between any two and start again, which also stands for a statement that *)
(* fails with or without its effect.                                       *)
(***************************************************************************)
EXTENDS Naturals, Sequences

CONSTANTS
    Runners,        \* processes that call run_migrations
    Objects,        \* schema objects
    Contract,       \* pre_versioning_tables
    Boot,           \* the statements of ddl/001 .. ddl/019
    Later,          \* the statements of ddl/020 .. ddl/029
    Migs,           \* MIGRATIONS, in order: [version, stmts]
    Baseline,       \* PRE_VERSIONING_BASELINE
    Swap,           \* the version of the copy and swap (36)
    Feedback, Staging,
    Rows,           \* rows of the tables
    Installs,       \* what a first start may find
    ProbeFails,     \* may the read of table_nonempty fail?
    MaxFaults       \* bound: deaths of a process

Shapes == {"none", "old", "new"}

Statements ==
    [op: {"create"}, obj: Objects, shape: {"old", "new"}]
        \cup [op: {"drop"}, obj: Objects] \cup [op: {"keyspace"}]

States == [keyspace: BOOLEAN, shape: [Objects -> Shapes],
           rows: [Objects -> SUBSET Rows], ledger: SUBSET Nat]

StmtsOf(m) == {m.stmts[j] : j \in 1..Len(m.stmts)}

Versions == {Migs[k].version : k \in 1..Len(Migs)}

ASSUME MGAssumption ==
    /\ Contract \subseteq Objects
    /\ Boot \in Seq(Statements) /\ Later \in Seq(Statements)
    /\ Migs \in Seq([version: Nat, stmts: Seq(Statements)])
    /\ Baseline \in Nat /\ Swap \in Versions
    /\ Feedback \in Objects /\ Staging \in Objects \ {Feedback}
    /\ Installs \subseteq States
    /\ \A s \in Installs : \A o \in Objects :
           (s.shape[o] = "none" \/ ~s.keyspace) => s.rows[o] = {}
    /\ \A script \in {Boot, Later} \cup {Migs[k].stmts : k \in 1..Len(Migs)} :
           \A j \in 1..Len(script) :
               script[j].op = "create" /\ script[j].obj = Feedback => script[j].shape = "new"
    /\ ProbeFails \in BOOLEAN /\ MaxFaults \in Nat

(* The versions increase from the baseline (a test of the registry); a
   migration that drops an object creates it again (ddl/030, ddl/033); only the
   swap makes the staging table. *)
ASSUME ScriptAssumption ==
    /\ \A a \in 1..Len(Migs) :
           /\ Baseline < Migs[a].version
           /\ \A b \in 1..Len(Migs) : a < b => Migs[a].version < Migs[b].version
           /\ \A n \in 1..Len(Migs[a].stmts) : Migs[a].stmts[n].op = "drop" =>
                  \E l \in (n + 1)..Len(Migs[a].stmts) :
                      Migs[a].stmts[l].op = "create" /\ Migs[a].stmts[l].obj = Migs[a].stmts[n].obj
           /\ \A s \in StmtsOf(Migs[a]) : s.op = "create" => s.obj # Staging
    /\ Staging \notin Contract

(* The swap is recorded after the staging table is dropped. *)
ASSUME InstallAssumption ==
    \A s \in Installs :
        Swap \in s.ledger /\ s.shape[Feedback] # "old" => s.rows[Staging] \subseteq s.rows[Feedback]

VARIABLES
    keyspace, shape, rows,      \* the keyspace
    ledger,                     \* schema_version
    pc, plan, i, k, applied,    \* a runner
    first,                      \* history: the install that was found
    faults                      \* deaths so far

dbVars     == <<keyspace, shape, rows, ledger>>
runnerVars == <<pc, plan, i, k, applied>>
vars == <<dbVars, runnerVars, first, faults>>

-----------------------------------------------------------------------------
Labels == {"start", "boot", "bootDrop", "recheck", "version", "baseline", "seed",
           "gap", "repair", "pending", "refuse", "stmts", "post", "record", "grants",
           "fbProbe", "fbCheck", "fbClear", "fbStaging", "fbStage",
           "fbDrop", "fbRecreate", "fbCopyBack", "fbDone",
           "ready", "refused", "failed"}

TypeOK ==
    /\ keyspace \in BOOLEAN
    /\ shape \in [Objects -> Shapes]
    /\ rows \in [Objects -> SUBSET Rows]
    /\ ledger \in SUBSET Nat
    /\ pc \in [Runners -> Labels]
    /\ plan \in [Runners -> {"greenfield", "resume"}]
    /\ i \in [Runners -> Nat] /\ k \in [Runners -> Nat]
    /\ applied \in [Runners -> SUBSET Nat]
    /\ first \in Installs
    /\ faults \in Nat

Init ==
    /\ first \in Installs
    /\ keyspace = first.keyspace /\ shape = first.shape
    /\ rows = first.rows /\ ledger = first.ledger
    /\ pc = [r \in Runners |-> "start"]
    /\ plan = [r \in Runners |-> "resume"]
    /\ i = [r \in Runners |-> 1] /\ k = [r \in Runners |-> 1]
    /\ applied = [r \in Runners |-> {}]
    /\ faults = 0

-----------------------------------------------------------------------------
Missing == {o \in Contract : shape[o] = "none"}

Goto(r, label) == pc' = [pc EXCEPT ![r] = label]

(* The effect of one statement; "already exists" is tolerated. *)
Exec(s) ==
    CASE s.op = "create" ->
             /\ shape' = [shape EXCEPT ![s.obj] = IF @ = "none" THEN s.shape ELSE @]
             /\ UNCHANGED <<keyspace, rows>>
      [] s.op = "drop" ->
             /\ shape' = [shape EXCEPT ![s.obj] = "none"]
             /\ rows' = [rows EXCEPT ![s.obj] = {}]
             /\ keyspace' = keyspace
      [] OTHER ->
             keyspace' = TRUE /\ UNCHANGED <<shape, rows>>

Create(o) == Exec([op |-> "create", obj |-> o, shape |-> "new"])

Drop(o) == Exec([op |-> "drop", obj |-> o])

-----------------------------------------------------------------------------
(* ensure_bootstrap_complete *)

(* Mutant: the keyspace alone tells that the bootstrap ran. *)
ClassifyByKeyspace(r) ==
    /\ pc[r] = "start"
    /\ i' = [i EXCEPT ![r] = 1]
    /\ plan' = [plan EXCEPT ![r] = "greenfield"]
    /\ Goto(r, IF keyspace THEN "version" ELSE "boot")
    /\ UNCHANGED <<dbVars, k, applied, first, faults>>

(* classify_bootstrap_state, from the keyspace and the tables that are there. *)
Classify(r) ==
    /\ pc[r] = "start"
    /\ i' = [i EXCEPT ![r] = 1]
    /\ plan' = [plan EXCEPT ![r] = IF keyspace THEN "resume" ELSE "greenfield"]
    /\ Goto(r, IF keyspace /\ Missing = {} THEN "version" ELSE "boot")
    /\ UNCHANGED <<dbVars, k, applied, first, faults>>

Script(r) == IF plan[r] = "resume" THEN Boot ELSE Boot \o Later

(* table_nonempty: a read that fails counts as an empty table. *)
NonemptyAnswers(o) == {rows[o] # {}} \cup (IF ProbeFails THEN {FALSE} ELSE {})

(* Mutant: the historic drop runs in a resume, too. *)
SkipNothing(r, s, populated) == FALSE

(* skip_destructive_on_resume *)
SkipDestructive(r, s, populated) == plan[r] = "resume" /\ s.op = "drop" /\ populated

(* apply_bootstrap_files; the probe of a table and its drop are two steps. *)
BootStatement(r) ==
    /\ pc[r] = "boot"
    /\ IF i[r] > Len(Script(r))
       THEN Goto(r, "recheck") /\ UNCHANGED <<keyspace, shape, rows, i>>
       ELSE LET s == Script(r)[i[r]] IN
            IF s.op = "drop"
            THEN /\ \E populated \in NonemptyAnswers(s.obj) :
                        IF SkipDestructive(r, s, populated)
                        THEN i' = [i EXCEPT ![r] = @ + 1] /\ pc' = pc
                        ELSE i' = i /\ Goto(r, "bootDrop")
                 /\ UNCHANGED <<keyspace, shape, rows>>
            ELSE Exec(s) /\ i' = [i EXCEPT ![r] = @ + 1] /\ pc' = pc
    /\ UNCHANGED <<ledger, plan, k, applied, first, faults>>

BootDrop(r) ==
    /\ pc[r] = "bootDrop"
    /\ Exec(Script(r)[i[r]])
    /\ i' = [i EXCEPT ![r] = @ + 1]
    /\ Goto(r, "boot")
    /\ UNCHANGED <<ledger, plan, k, applied, first, faults>>

Recheck(r) ==
    /\ pc[r] = "recheck"
    /\ Goto(r, IF Missing = {} THEN "version" ELSE "failed")
    /\ UNCHANGED <<dbVars, plan, i, k, applied, first, faults>>

-----------------------------------------------------------------------------
(* run_migrations: the ledger *)

Newer == \E v \in ledger : \A w \in Versions : v > w

ReadVersion(r) ==
    /\ pc[r] = "version"
    /\ Goto(r, IF ledger = {} THEN "baseline" ELSE IF Newer THEN "refused" ELSE "gap")
    /\ UNCHANGED <<dbVars, plan, i, k, applied, first, faults>>

(* adoption_baseline_is_provable *)
CheckBaseline(r) ==
    /\ pc[r] = "baseline"
    /\ Goto(r, IF Missing = {} THEN "seed" ELSE "failed")
    /\ UNCHANGED <<dbVars, plan, i, k, applied, first, faults>>

SeedBaseline(r) ==
    /\ pc[r] = "seed"
    /\ ledger' = ledger \cup {Baseline}
    /\ Goto(r, "gap")
    /\ UNCHANGED <<keyspace, shape, rows, plan, i, k, applied, first, faults>>

ReadApplied(r) ==
    /\ pc[r] = "gap"
    /\ applied' = [applied EXCEPT ![r] = ledger]
    /\ k' = [k EXCEPT ![r] = 1]
    /\ Goto(r, "repair")
    /\ UNCHANGED <<dbVars, plan, i, first, faults>>

(* Mutant: a ledger row is taken for the object it stands for. *)
PostconditionLedger(m) == m.version \in ledger \/ m.version # Swap

(* migration_postcondition_satisfied: ddl_postconditions, and for the swap the
   probe that writes a row with a uuid. *)
Postcondition(m) ==
    /\ \A s \in StmtsOf(m) : s.op = "create" => shape[s.obj] # "none"
    /\ m.version = Swap => shape[Feedback] = "new"

Repair(r) ==
    /\ pc[r] = "repair"
    /\ IF k[r] > Len(Migs)
       THEN k' = [k EXCEPT ![r] = 1] /\ Goto(r, "pending") /\ UNCHANGED <<ledger, applied>>
       ELSE LET m == Migs[k[r]]
                lost == m.version \in applied[r] /\ ~Postcondition(m)
            IN  /\ ledger' = IF lost THEN ledger \ {m.version} ELSE ledger
                /\ applied' = IF lost THEN [applied EXCEPT ![r] = @ \ {m.version}] ELSE applied
                /\ k' = [k EXCEPT ![r] = @ + 1]
                /\ pc' = pc
    /\ UNCHANGED <<keyspace, shape, rows, plan, i, first, faults>>

-----------------------------------------------------------------------------
(* run_migrations: the pending migrations *)

NextPending(r) ==
    /\ pc[r] = "pending"
    /\ IF k[r] > Len(Migs) THEN Goto(r, "grants") /\ k' = k
       ELSE LET v == Migs[k[r]].version IN
            IF v \in applied[r] THEN k' = [k EXCEPT ![r] = @ + 1] /\ pc' = pc
            ELSE Goto(r, IF v = Swap THEN "fbProbe" ELSE "refuse") /\ k' = k
    /\ UNCHANGED <<dbVars, plan, i, applied, first, faults>>

(* refuse_unsafe_destruction, unless the operator opted in. *)
Refuse(r) ==
    /\ pc[r] = "refuse"
    /\ LET dropped == {s.obj : s \in {t \in StmtsOf(Migs[k[r]]) : t.op = "drop"}} IN
       \E nonempty \in {f \in [dropped -> BOOLEAN] : \A o \in dropped : f[o] \in NonemptyAnswers(o)} :
           Goto(r, IF \E o \in dropped : nonempty[o] THEN "refused" ELSE "stmts")
    /\ i' = [i EXCEPT ![r] = 1]
    /\ UNCHANGED <<dbVars, plan, k, applied, first, faults>>

(* entity_warmth, which version 25 makes sure of before its ALTER, is in Contract. *)
Statement(r) ==
    /\ pc[r] = "stmts"
    /\ LET m == Migs[k[r]] IN
       IF i[r] > Len(m.stmts)
       THEN Goto(r, "post") /\ UNCHANGED <<keyspace, shape, rows, i>>
       ELSE Exec(m.stmts[i[r]]) /\ i' = [i EXCEPT ![r] = @ + 1] /\ pc' = pc
    /\ UNCHANGED <<ledger, plan, k, applied, first, faults>>

CheckPost(r) ==
    /\ pc[r] = "post"
    /\ Goto(r, IF Postcondition(Migs[k[r]]) THEN "record" ELSE "failed")
    /\ UNCHANGED <<dbVars, plan, i, k, applied, first, faults>>

RecordVersion(r) ==
    /\ pc[r] = "record"
    /\ ledger' = ledger \cup {Migs[k[r]].version}
    /\ k' = [k EXCEPT ![r] = @ + 1]
    /\ Goto(r, "pending")
    /\ UNCHANGED <<keyspace, shape, rows, plan, i, applied, first, faults>>

(* apply_roles_grants and its verification *)
Grants(r) ==
    /\ pc[r] = "grants"
    /\ Goto(r, "ready")
    /\ UNCHANGED <<dbVars, plan, i, k, applied, first, faults>>

-----------------------------------------------------------------------------
(* apply_feedback_outcomes_query_id_uuid_migration *)

RunnerOnly(r) == UNCHANGED <<ledger, plan, i, k, applied, first, faults>>

(* feedback_outcomes_uuid_write_probe, then the type of the column; a table
   that is missing is created. *)
FbProbe(r) ==
    /\ pc[r] = "fbProbe"
    /\ Goto(r, IF shape[Feedback] = "old" THEN "fbClear" ELSE "fbCheck")
    /\ Create(Feedback) /\ RunnerOnly(r)

(* Rows an interrupted swap left in the staging table are copied first. *)
FbCheck(r) ==
    /\ pc[r] = "fbCheck"
    /\ Goto(r, IF shape[Staging] = "none" THEN "post" ELSE "fbCopyBack")
    /\ UNCHANGED <<keyspace, shape, rows>> /\ RunnerOnly(r)

FbClear(r) ==
    pc[r] = "fbClear" /\ Drop(Staging) /\ Goto(r, "fbStaging") /\ RunnerOnly(r)

FbStaging(r) ==
    pc[r] = "fbStaging" /\ Create(Staging) /\ Goto(r, "fbStage") /\ RunnerOnly(r)

(* copy_feedback_outcomes_rows: one row per step; a missing table is an error.
   The counts compared afterwards are those of the rows just copied: they differ
   only when two processes swap at once, and are left out. *)
Copy(r, src, dst, next) ==
    IF "none" \in {shape[src], shape[dst]} THEN Goto(r, "failed") /\ rows' = rows
    ELSE IF rows[src] \subseteq rows[dst] THEN Goto(r, next) /\ rows' = rows
    ELSE /\ \E x \in rows[src] \ rows[dst] : rows' = [rows EXCEPT ![dst] = @ \cup {x}]
         /\ pc' = pc

FbStage(r) ==
    /\ pc[r] = "fbStage"
    /\ Copy(r, Feedback, Staging, "fbDrop")
    /\ UNCHANGED <<keyspace, shape>> /\ RunnerOnly(r)

FbDrop(r) ==
    pc[r] = "fbDrop" /\ Drop(Feedback) /\ Goto(r, "fbRecreate") /\ RunnerOnly(r)

FbRecreate(r) ==
    pc[r] = "fbRecreate" /\ Create(Feedback) /\ Goto(r, "fbCopyBack") /\ RunnerOnly(r)

FbCopyBack(r) ==
    /\ pc[r] = "fbCopyBack"
    /\ Copy(r, Staging, Feedback, "fbDone")
    /\ UNCHANGED <<keyspace, shape>> /\ RunnerOnly(r)

FbDone(r) ==
    pc[r] = "fbDone" /\ Drop(Staging) /\ Goto(r, "post") /\ RunnerOnly(r)

-----------------------------------------------------------------------------
(* The process dies, at any point, and starts again. *)
Die(r) ==
    /\ faults < MaxFaults
    /\ faults' = faults + 1
    /\ Goto(r, "start")
    /\ applied' = [applied EXCEPT ![r] = {}]
    /\ UNCHANGED <<dbVars, plan, i, k, first>>

Step(r) ==
    \/ Classify(r) \/ BootStatement(r) \/ BootDrop(r) \/ Recheck(r)
    \/ ReadVersion(r) \/ CheckBaseline(r) \/ SeedBaseline(r) \/ ReadApplied(r)
    \/ Repair(r) \/ NextPending(r) \/ Refuse(r) \/ Statement(r)
    \/ CheckPost(r) \/ RecordVersion(r) \/ Grants(r)
    \/ FbProbe(r) \/ FbCheck(r) \/ FbClear(r) \/ FbStaging(r)
    \/ FbStage(r) \/ FbDrop(r) \/ FbRecreate(r) \/ FbCopyBack(r) \/ FbDone(r)

Next == \E r \in Runners : Step(r) \/ Die(r)

Spec == Init /\ [][Next]_vars

(* A started process goes on with its migrations until it returns. *)
LiveSpec == Spec /\ \A r \in Runners : WF_vars(Step(r))

-----------------------------------------------------------------------------
(* The feedback of the install: a swap that was interrupted after the legacy
   table was dropped has left its rows in the staging table. *)
FirstFeedback ==
    first.rows[Feedback]
        \cup (IF first.shape[Feedback] = "old" THEN {} ELSE first.rows[Staging])

(* "a resume exists to create what is missing, never to delete" (resume_action),
   "legacy telemetry must be preserved" (ddl/036): no row of the install is
   lost, wherever the process died; a row of feedback_outcomes may be in the
   staging table for a while. *)
DataKept ==
    /\ \A o \in Objects \ {Feedback, Staging} : first.rows[o] \subseteq rows[o]
    /\ FirstFeedback \subseteq rows[Feedback] \cup rows[Staging]

(* The whole schema: every pre-versioning table and every object of a migration
   exists, every version is recorded, and all feedback is back in its table,
   which takes uuids. *)
Complete ==
    /\ \A o \in Contract : shape[o] # "none"
    /\ \A j \in 1..Len(Migs) : Migs[j].version \in ledger
    /\ \A j \in 1..Len(Migs) : \A s \in StmtsOf(Migs[j]) :
           s.op = "create" => shape[s.obj] # "none"
    /\ shape[Feedback] = "new" /\ FirstFeedback \subseteq rows[Feedback]

(* A start that returns Ok leaves the whole schema, also when the ledger named
   a version whose object was lost, which the repair makes again.  The shape a
   table has is not stated: a rebuilt table that was lost after its migration
   was recorded is made by the resumed bootstrap, in the older shape. *)
ReadySchema == \A r \in Runners : pc[r] = "ready" => Complete

(* An install that no migration must refuse. *)
Migratable ==
    /\ \A j \in 1..Len(Migs) : \A s \in StmtsOf(Migs[j]) :
           (s.op = "drop" /\ Migs[j].version \notin first.ledger) => first.rows[s.obj] = {}
    /\ \A v \in first.ledger : \E w \in Versions : v <= w

(* "so a partially applied migration is re-runnable to completion": whatever
   statement the process died at, later starts finish the migrations. *)
Converges == \A r \in Runners : Migratable ~> [](pc[r] = "ready")

=============================================================================
