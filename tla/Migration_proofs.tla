--------------------------- MODULE Migration_proofs ---------------------------
(***************************************************************************)
(* For every install, all scripts and any number of deaths, when one       *)
(* process migrates and the probes of a table do not fail: a start of the  *)
(* program loses no row of the install it finds (DataKept), and a start    *)
(* that returns Ok leaves the whole schema (ReadySchema).                  *)
(***************************************************************************)
EXTENDS Migration, TLAPS

(* The migration at hand is one of MIGRATIONS. *)
AtMigration == {"refuse", "stmts", "post", "record", "fbProbe", "fbCheck", "fbClear",
                "fbStaging", "fbStage", "fbDrop", "fbRecreate", "fbCopyBack", "fbDone"}

PosInv == \A r \in Runners :
    /\ i[r] >= 1 /\ k[r] >= 1
    /\ pc[r] \in AtMigration => k[r] <= Len(Migs)
    /\ pc[r] = "bootDrop" => i[r] <= Len(Script(r)) /\ Script(r)[i[r]].op = "drop"

(* What holds data is never taken for a greenfield. *)
PlanInv == first.keyspace => keyspace /\ \A r \in Runners : plan[r] = "resume"

(* The swap has not begun: all feedback is in the legacy table. *)
OldInv == shape[Feedback] = "old" => FirstFeedback \subseteq rows[Feedback]

(* A drop follows the probe that found its table empty. *)
DropInv == \A r \in Runners :
    /\ first.keyspace /\ pc[r] = "bootDrop" => rows[Script(r)[i[r]].obj] = {}
    /\ pc[r] = "stmts" =>
           \A s \in StmtsOf(Migs[k[r]]) : s.op = "drop" => rows[s.obj] = {}

(* The table the swap drops has all its rows in the other one. *)
SwapInv == \A r \in Runners :
    /\ pc[r] \in {"fbClear", "fbStaging", "fbStage"} => shape[Feedback] = "old"
    /\ pc[r] = "fbDrop" => rows[Feedback] \subseteq rows[Staging]
    /\ pc[r] = "fbDone" => rows[Staging] \subseteq rows[Feedback]

Inv == TypeOK /\ PosInv /\ PlanInv /\ OldInv /\ DropInv /\ SwapInv /\ DataKept

(* One process migrates, and a probe of a table answers. *)
Alone == ProbeFails = FALSE /\ \A r, s \in Runners : r = s

-----------------------------------------------------------------------------
(* The statements *)

(* A statement creates or drops an object of the schema, or makes the keyspace. *)
LEMMA StatementKinds ==
    ASSUME NEW s \in Statements
    PROVE  \/ s.op = "create" /\ s.obj \in Objects /\ s.shape \in {"old", "new"}
           \/ s.op = "drop" /\ s.obj \in Objects
           \/ s.op = "keyspace"
BY DEF Statements

(* The statements of the scripts are statements, and none creates the legacy
   shape of feedback_outcomes. *)
Modern(s) == s \in Statements /\ (s.op = "create" /\ s.obj = Feedback => s.shape = "new")

LEMMA ElementOf ==
    ASSUME NEW T, NEW q \in Seq(T), NEW n \in 1..Len(q)
    PROVE  q[n] \in T
OBVIOUS

LEMMA MigrationStatements ==
    ASSUME NEW n \in 1..Len(Migs), NEW j \in 1..Len(Migs[n].stmts)
    PROVE  Modern(Migs[n].stmts[j]) /\ Migs[n].stmts[j] \in StmtsOf(Migs[n])
<1>0. Migs \in Seq([version: Nat, stmts: Seq(Statements)])
  BY MGAssumption
<1>1. Migs[n] \in [version: Nat, stmts: Seq(Statements)]
  BY <1>0, ElementOf
<1>2. Migs[n].stmts[j] \in Statements
  BY <1>1
<1>3. Migs[n].stmts \in {Boot, Later} \cup {Migs[m].stmts : m \in 1..Len(Migs)}
  OBVIOUS
<1>. QED BY <1>2, <1>3, MGAssumption DEF Modern, StmtsOf

LEMMA ScriptStatements ==
    ASSUME NEW r \in Runners, NEW j \in 1..Len(Script(r))
    PROVE  Modern(Script(r)[j])
<1>1. ASSUME NEW t \in {Boot, Later}, NEW n \in 1..Len(t) PROVE Modern(t[n])
  <2>1. t[n] \in Statements
    BY MGAssumption
  <2>. QED BY <2>1, MGAssumption DEF Modern
<1>2. CASE plan[r] = "resume"
  BY <1>1, <1>2 DEF Script
<1>3. CASE plan[r] # "resume"
  <2>1. Script(r) = Boot \o Later
    BY <1>3 DEF Script
  <2>2. Boot \in Seq(Statements) /\ Later \in Seq(Statements)
    BY MGAssumption
  <2>3. Len(Boot) \in Nat /\ Len(Later) \in Nat /\ Len(Script(r)) = Len(Boot) + Len(Later)
    BY <2>1, <2>2
  <2>4. CASE j <= Len(Boot)
    <3>1. Script(r)[j] = Boot[j]
      BY <2>1, <2>2, <2>3, <2>4
    <3>. QED BY <3>1, <1>1, <2>3, <2>4
  <2>5. CASE j > Len(Boot)
    <3>1. Script(r)[j] = Later[j - Len(Boot)]
      BY <2>1, <2>2, <2>3, <2>5
    <3>2. j - Len(Boot) \in 1..Len(Later)
      BY <2>3, <2>5
    <3>. QED BY <3>1, <3>2, <1>1
  <2>. QED BY <2>3, <2>4, <2>5
<1>. QED BY <1>2, <1>3

LEMMA LenNat ==
    /\ Len(Migs) \in Nat
    /\ \A n \in 1..Len(Migs) : Len(Migs[n].stmts) \in Nat
    /\ \A n \in 1..Len(Migs) : Migs[n].version \in Nat
    /\ \A r \in Runners : Len(Script(r)) \in Nat
<1>1. Migs \in Seq([version: Nat, stmts: Seq(Statements)])
  BY MGAssumption
<1>2. ASSUME NEW n \in 1..Len(Migs)
      PROVE  Migs[n].stmts \in Seq(Statements) /\ Migs[n].version \in Nat
  <2>1. Migs[n] \in [version: Nat, stmts: Seq(Statements)]
    BY <1>1, ElementOf
  <2>. QED BY <2>1
<1>3. Boot \in Seq(Statements) /\ Later \in Seq(Statements)
  BY MGAssumption
<1>4. Boot \o Later \in Seq(Statements)
  BY <1>3
<1>5. \A r \in Runners : Script(r) \in Seq(Statements)
  BY <1>3, <1>4 DEF Script
<1>. QED BY <1>1, <1>2, <1>5

(* A statement keeps the types; it deletes no rows but those of the table it
   drops, and does not bring the legacy shape back. *)
LEMMA ExecEffect ==
    ASSUME TypeOK, NEW s, Modern(s), Exec(s)
    PROVE  /\ keyspace' \in BOOLEAN /\ shape' \in [Objects -> Shapes]
           /\ rows' \in [Objects -> SUBSET Rows]
           /\ keyspace => keyspace'
           /\ \A o \in Objects : rows'[o] = IF s.op = "drop" /\ s.obj = o THEN {} ELSE rows[o]
           /\ shape'[Feedback] = "old" => shape[Feedback] = "old"
<1>. USE DEF TypeOK
<1>0. Feedback \in Objects
  BY MGAssumption
<1>1. CASE s.op = "create"
  <2>1. s.obj \in Objects /\ s.shape \in Shapes
    BY <1>1, StatementKinds DEF Modern, Shapes
  <2>2. /\ shape' = [shape EXCEPT ![s.obj] = IF @ = "none" THEN s.shape ELSE @]
        /\ UNCHANGED <<keyspace, rows>>
    BY <1>1 DEF Exec
  <2>3. shape' \in [Objects -> Shapes]
    BY <2>1, <2>2
  <2>4. shape'[Feedback] = "old" => shape[Feedback] = "old"
    BY <2>1, <2>2, <1>0, <1>1 DEF Modern
  <2>. QED BY <1>1, <2>2, <2>3, <2>4
<1>2. CASE s.op = "drop"
  <2>1. s.obj \in Objects
    BY <1>2, StatementKinds DEF Modern
  <2>2. /\ shape' = [shape EXCEPT ![s.obj] = "none"]
        /\ rows' = [rows EXCEPT ![s.obj] = {}]
        /\ keyspace' = keyspace
    BY <1>2 DEF Exec
  <2>. QED BY <1>0, <1>2, <2>1, <2>2 DEF Shapes
<1>3. CASE s.op = "keyspace"
  <2>1. keyspace' = TRUE /\ UNCHANGED <<shape, rows>>
    BY <1>3 DEF Exec
  <2>. QED BY <1>3, <2>1
<1>. QED BY <1>1, <1>2, <1>3, StatementKinds DEF Modern

LEMMA CreateEffect ==
    ASSUME TypeOK, NEW o \in Objects, Create(o)
    PROVE  /\ UNCHANGED <<keyspace, rows>> /\ shape' \in [Objects -> Shapes]
           /\ \A p \in Objects : shape'[p] =
                  IF p = o /\ shape[o] = "none" THEN "new" ELSE shape[p]
BY DEF TypeOK, Create, Exec, Shapes

LEMMA DropEffect ==
    ASSUME TypeOK, NEW o \in Objects, Drop(o)
    PROVE  /\ UNCHANGED keyspace
           /\ shape' \in [Objects -> Shapes] /\ rows' \in [Objects -> SUBSET Rows]
           /\ \A p \in Objects : /\ shape'[p] = IF p = o THEN "none" ELSE shape[p]
                                 /\ rows'[p] = IF p = o THEN {} ELSE rows[p]
BY DEF TypeOK, Drop, Exec, Shapes

(* A copy adds rows to its target and ends when none is missing. *)
LEMMA CopyEffect ==
    ASSUME TypeOK, NEW r \in Runners, NEW src \in Objects, NEW dst \in Objects \ {src},
           NEW next \in Labels, Copy(r, src, dst, next)
    PROVE  /\ rows' \in [Objects -> SUBSET Rows]
           /\ \A o \in Objects : rows[o] \subseteq rows'[o]
           /\ \/ pc' = [pc EXCEPT ![r] = "failed"]
              \/ pc' = [pc EXCEPT ![r] = next] /\ rows'[src] \subseteq rows'[dst]
              \/ pc' = pc
BY DEF TypeOK, Copy, Goto

-----------------------------------------------------------------------------
(* What keeps the data *)

(* An install without a keyspace holds no rows. *)
LEMMA NothingToLose ==
    ASSUME first \in Installs, ~first.keyspace, first' = first
    PROVE  DataKept' /\ OldInv'
<1>1. \A o \in Objects : first'.rows[o] = {}
  BY MGAssumption
<1>2. Feedback \in Objects /\ Staging \in Objects
  BY MGAssumption
<1>. QED BY <1>1, <1>2 DEF DataKept, OldInv, FirstFeedback

(* A step that takes no row away and does not bring the legacy shape back. *)
Quiet ==
    /\ first' = first
    /\ \A o \in Objects : rows[o] \subseteq rows'[o]
    /\ shape'[Feedback] = "old" => shape[Feedback] = "old"

LEMMA QuietKeeps ==
    ASSUME DataKept, OldInv, Quiet
    PROVE  DataKept' /\ OldInv'
<1>1. Feedback \in Objects /\ Staging \in Objects
  BY MGAssumption
<1>2. FirstFeedback' = FirstFeedback
  BY DEF Quiet, FirstFeedback
<1>3. rows[Feedback] \subseteq rows'[Feedback] /\ rows[Staging] \subseteq rows'[Staging]
  BY <1>1 DEF Quiet
<1>4. OldInv'
  BY <1>2, <1>3 DEF OldInv, Quiet
<1>5. \A o \in Objects \ {Feedback, Staging} : first'.rows[o] \subseteq rows'[o]
  BY DEF DataKept, Quiet
<1>6. (FirstFeedback \subseteq rows[Feedback] \cup rows[Staging])'
  BY <1>2, <1>3 DEF DataKept
<1>. QED BY <1>4, <1>5, <1>6 DEF DataKept

-----------------------------------------------------------------------------
LEMMA InitInv ==
    ASSUME Init
    PROVE  Inv
<1>. USE DEF Init
<1>1. first \in States
  BY MGAssumption
<1>2. TypeOK
  BY <1>1 DEF TypeOK, States, Labels
<1>3. PosInv
  <2>1. ASSUME NEW r \in Runners
        PROVE  i[r] >= 1 /\ k[r] >= 1 /\ pc[r] \notin AtMigration /\ pc[r] # "bootDrop"
    BY DEF AtMigration
  <2>. QED BY <2>1 DEF PosInv
<1>4. PlanInv /\ DropInv /\ SwapInv
  BY DEF PlanInv, DropInv, SwapInv
<1>5. OldInv
  BY DEF OldInv, FirstFeedback
<1>6. DataKept
  BY DEF DataKept, FirstFeedback
<1>. QED BY <1>2, <1>3, <1>4, <1>5, <1>6 DEF Inv

(* The steps that leave the keyspace and the ledger of the database alone. *)
LEMMA SameDb ==
    ASSUME Inv, UNCHANGED <<keyspace, shape, rows, first>>
    PROVE  DataKept' /\ OldInv'
<1>1. Quiet
  BY DEF Quiet
<1>. QED BY <1>1, QuietKeeps DEF Inv

LEMMA ClassifyStep ==
    ASSUME Inv, NEW r \in Runners, Classify(r)
    PROVE  Inv'
<1>. USE DEF Inv, Classify, dbVars
<1>1. DataKept' /\ OldInv'
  BY SameDb
<1>2. pc' = [pc EXCEPT ![r] = "version"] \/ pc' = [pc EXCEPT ![r] = "boot"]
  BY DEF Goto
<1>3. TypeOK'
  BY <1>2 DEF TypeOK, Labels
<1>4. PosInv'
  BY <1>2 DEF PosInv, TypeOK, AtMigration, Script
<1>5. PlanInv'
  BY DEF PlanInv, TypeOK
<1>6. DropInv' /\ SwapInv'
  BY <1>2, ZenonT(60) DEF DropInv, SwapInv, TypeOK, Script
<1>. QED BY <1>1, <1>3, <1>4, <1>5, <1>6

(* A drop of the bootstrap in a resume follows the probe of its table. *)
LEMMA BootStep ==
    ASSUME Inv, Alone, NEW r \in Runners, BootStatement(r) \/ BootDrop(r)
    PROVE  Inv'
<1>. USE DEF Inv
<1>a. UNCHANGED <<ledger, plan, k, applied, first, faults>>
  BY DEF BootStatement, BootDrop
<1>b. \A s \in Runners : s = r
  BY DEF Alone
<1>c. \A s \in Runners : Script(s)' = Script(s)
  BY <1>a DEF Script
<1>1. CASE pc[r] = "boot" /\ i[r] > Len(Script(r)) /\ Goto(r, "recheck")
           /\ UNCHANGED <<keyspace, shape, rows, i>>
  <2>1. pc' = [pc EXCEPT ![r] = "recheck"]
    BY <1>1 DEF Goto
  <2>2. TypeOK'
    BY <1>1, <1>a, <2>1 DEF TypeOK, Labels
  <2>3. PosInv'
    BY <1>1, <1>a, <1>c, <2>1 DEF PosInv, TypeOK, AtMigration
  <2>4. PlanInv' /\ DropInv' /\ SwapInv'
    BY <1>1, <1>a, <1>c, <2>1 DEF PlanInv, DropInv, SwapInv, TypeOK
  <2>5. DataKept' /\ OldInv'
    BY <1>1, <1>a, SameDb
  <2>. QED BY <2>2, <2>3, <2>4, <2>5
<1>2. CASE /\ pc[r] = "boot" /\ i[r] <= Len(Script(r)) /\ Script(r)[i[r]].op = "drop"
           /\ UNCHANGED <<keyspace, shape, rows>>
           /\ i' = i /\ Goto(r, "bootDrop")
           /\ plan[r] = "resume" => rows[Script(r)[i[r]].obj] = {}
  <2>1. pc' = [pc EXCEPT ![r] = "bootDrop"]
    BY <1>2 DEF Goto
  <2>2. TypeOK'
    BY <1>2, <1>a, <2>1 DEF TypeOK, Labels
  <2>3. PosInv'
    BY <1>2, <1>a, <1>c, <2>1 DEF PosInv, TypeOK, AtMigration
  <2>4. PlanInv' /\ SwapInv'
    BY <1>2, <1>a, <2>1 DEF PlanInv, SwapInv, TypeOK
  <2>5. DropInv'
    BY <1>2, <1>a, <1>b, <1>c, <2>1 DEF PlanInv, DropInv, TypeOK
  <2>6. DataKept' /\ OldInv'
    BY <1>2, <1>a, SameDb
  <2>. QED BY <2>2, <2>3, <2>4, <2>5, <2>6
<1>3. CASE /\ pc[r] = "boot" /\ i' = [i EXCEPT ![r] = @ + 1] /\ pc' = pc
           /\ UNCHANGED <<keyspace, shape, rows>>
  <2>1. TypeOK'
    BY <1>3, <1>a DEF TypeOK
  <2>2. PosInv'
    BY <1>3, <1>a, <1>b, <1>c DEF PosInv, TypeOK, AtMigration
  <2>3. PlanInv' /\ SwapInv' /\ DropInv'
    BY <1>3, <1>a, <1>b, <1>c DEF PlanInv, DropInv, SwapInv, TypeOK
  <2>4. DataKept' /\ OldInv'
    BY <1>3, <1>a, SameDb
  <2>. QED BY <2>1, <2>2, <2>3, <2>4
<1>4. ASSUME /\ pc[r] \in {"boot", "bootDrop"} /\ i[r] \in 1..Len(Script(r))
             /\ Exec(Script(r)[i[r]])
             /\ i' = [i EXCEPT ![r] = @ + 1] /\ pc' = [pc EXCEPT ![r] = "boot"]
             /\ Script(r)[i[r]].op = "drop" => pc[r] = "bootDrop"
      PROVE  Inv'
  <2>. DEFINE s == Script(r)[i[r]]
  <2>1. Modern(s)
    BY <1>4, ScriptStatements
  <2>2. /\ keyspace' \in BOOLEAN /\ shape' \in [Objects -> Shapes]
        /\ rows' \in [Objects -> SUBSET Rows]
        /\ keyspace => keyspace'
        /\ \A o \in Objects : rows'[o] = IF s.op = "drop" /\ s.obj = o THEN {} ELSE rows[o]
        /\ shape'[Feedback] = "old" => shape[Feedback] = "old"
    BY <1>4, <2>1, ExecEffect
  <2>3. TypeOK'
    BY <1>4, <1>a, <2>2 DEF TypeOK, Labels
  <2>4. PosInv'
    BY <1>4, <1>a, <1>b, <1>c DEF PosInv, TypeOK, AtMigration
  <2>5. PlanInv'
    BY <1>a, <2>2 DEF PlanInv
  <2>6. DropInv' /\ SwapInv'
    BY <1>4, <1>b DEF DropInv, SwapInv, TypeOK
  <2>7. DataKept' /\ OldInv'
    <3>1. CASE ~first.keyspace
      BY <3>1, <1>a, NothingToLose DEF TypeOK
    <3>2. CASE first.keyspace
      <4>1. \A o \in Objects : rows[o] \subseteq rows'[o]
        BY <1>4, <2>2, <3>2 DEF DropInv
      <4>. QED BY <1>a, <2>2, <4>1, QuietKeeps DEF Quiet
    <3>. QED BY <3>1, <3>2 DEF TypeOK
  <2>. QED BY <2>3, <2>4, <2>5, <2>6, <2>7
<1>5. CASE BootStatement(r)
  <2>1. CASE i[r] > Len(Script(r))
    BY <1>5, <2>1, <1>1 DEF BootStatement
  <2>2. CASE i[r] <= Len(Script(r)) /\ Script(r)[i[r]].op = "drop"
    <3>1. PICK populated \in NonemptyAnswers(Script(r)[i[r]].obj) :
              IF SkipDestructive(r, Script(r)[i[r]], populated)
              THEN i' = [i EXCEPT ![r] = @ + 1] /\ pc' = pc
              ELSE i' = i /\ Goto(r, "bootDrop")
      BY <1>5, <2>2, LenNat DEF BootStatement, PosInv, TypeOK
    <3>2. populated <=> rows[Script(r)[i[r]].obj] # {}
      BY <3>1 DEF NonemptyAnswers, Alone
    <3>3. pc[r] = "boot" /\ UNCHANGED <<keyspace, shape, rows>>
      BY <1>5, <2>2, LenNat DEF BootStatement, PosInv, TypeOK
    <3>. QED BY <1>2, <1>3, <2>2, <3>1, <3>2, <3>3 DEF SkipDestructive
  <2>3. CASE i[r] <= Len(Script(r)) /\ Script(r)[i[r]].op # "drop"
    <3>1. Exec(Script(r)[i[r]]) /\ i' = [i EXCEPT ![r] = @ + 1] /\ pc' = pc /\ pc[r] = "boot"
      BY <1>5, <2>3, LenNat DEF BootStatement, PosInv, TypeOK
    <3>2. pc' = [pc EXCEPT ![r] = "boot"]
      BY <3>1 DEF TypeOK
    <3>3. i[r] \in 1..Len(Script(r))
      BY <2>3, LenNat DEF PosInv, TypeOK
    <3>. QED BY <1>4, <2>3, <3>1, <3>2, <3>3
  <2>. QED BY <2>1, <2>2, <2>3, LenNat DEF TypeOK
<1>6. CASE BootDrop(r)
  <2>1. i[r] \in 1..Len(Script(r)) /\ Script(r)[i[r]].op = "drop"
    BY <1>6, LenNat DEF BootDrop, PosInv, TypeOK
  <2>. QED BY <1>4, <1>6, <2>1 DEF BootDrop, Goto
<1>. QED BY <1>5, <1>6

(* The steps that write no table: the plan, the ledger and the choice of the
   next migration. *)
LEMMA LedgerStep ==
    ASSUME Inv, NEW r \in Runners,
           \/ Recheck(r) \/ ReadVersion(r) \/ CheckBaseline(r) \/ SeedBaseline(r)
           \/ ReadApplied(r) \/ Repair(r) \/ CheckPost(r) \/ RecordVersion(r) \/ Grants(r)
    PROVE  Inv'
<1>. USE DEF Inv
<1>1. UNCHANGED <<keyspace, shape, rows, plan, i, first, faults>>
  BY DEF Recheck, ReadVersion, CheckBaseline, SeedBaseline, ReadApplied, Repair,
         CheckPost, RecordVersion, Grants, dbVars
<1>2. PICK label \in Labels \ {"bootDrop", "stmts", "fbClear", "fbStaging", "fbStage", "fbDrop", "fbDone"} :
          /\ pc' = [pc EXCEPT ![r] = label]
          /\ label \in AtMigration => pc[r] = "post" /\ k' = k
  <2>1. ASSUME NEW l \in {"version", "failed", "baseline", "refused", "gap", "seed", "repair",
                          "pending", "record", "ready"},
               Goto(r, l), l = "record" => pc[r] = "post" /\ k' = k
        PROVE  \E label \in Labels \ {"bootDrop", "stmts", "fbClear", "fbStaging", "fbStage", "fbDrop", "fbDone"} :
                  /\ pc' = [pc EXCEPT ![r] = label]
                  /\ label \in AtMigration => pc[r] = "post" /\ k' = k
    BY <2>1 DEF Goto, Labels, AtMigration
  <2>2. CASE Recheck(r) \/ ReadVersion(r) \/ CheckBaseline(r) \/ SeedBaseline(r)
    BY <2>1, <2>2 DEF Recheck, ReadVersion, CheckBaseline, SeedBaseline
  <2>3. CASE ReadApplied(r) \/ RecordVersion(r) \/ Grants(r)
    BY <2>1, <2>3 DEF ReadApplied, RecordVersion, Grants
  <2>4. CASE CheckPost(r)
    BY <2>1, <2>4 DEF CheckPost
  <2>5. CASE Repair(r)
    <3>1. CASE k[r] > Len(Migs)
      BY <2>1, <2>5, <3>1 DEF Repair
    <3>2. CASE ~(k[r] > Len(Migs))
      <4>1. pc' = [pc EXCEPT ![r] = "repair"]
        BY <2>5, <3>2 DEF Repair, TypeOK
      <4>. QED BY <4>1, <2>1 DEF Goto
    <3>. QED BY <3>1, <3>2
  <2>. QED BY <2>2, <2>3, <2>4, <2>5
<1>3. /\ k' \in [Runners -> Nat] /\ k'[r] >= 1
      /\ \A s \in Runners \ {r} : k'[s] = k[s]
  <2>1. k' = k \/ k' = [k EXCEPT ![r] = 1] \/ k' = [k EXCEPT ![r] = @ + 1]
    BY DEF Recheck, ReadVersion, CheckBaseline, SeedBaseline, ReadApplied, Repair,
           CheckPost, RecordVersion, Grants
  <2>. QED BY <2>1 DEF TypeOK, PosInv
<1>4. applied' \in [Runners -> SUBSET Nat]
  BY ZenonT(60) DEF Recheck, ReadVersion, CheckBaseline, SeedBaseline, ReadApplied, Repair,
         CheckPost, RecordVersion, Grants, TypeOK
<1>5. ledger' \in SUBSET Nat
  <2>1. CASE RecordVersion(r)
    <3>1. k[r] \in 1..Len(Migs)
      BY <2>1, LenNat DEF RecordVersion, PosInv, AtMigration, TypeOK
    <3>. QED BY <2>1, <3>1, LenNat DEF RecordVersion, TypeOK
  <2>2. CASE SeedBaseline(r)
    BY <2>2, MGAssumption DEF SeedBaseline, TypeOK
  <2>3. CASE Repair(r)
    BY <2>3 DEF Repair, TypeOK
  <2>4. CASE Recheck(r) \/ ReadVersion(r) \/ CheckBaseline(r) \/ ReadApplied(r) \/ CheckPost(r) \/ Grants(r)
    BY <2>4 DEF Recheck, ReadVersion, CheckBaseline, ReadApplied, CheckPost, Grants, TypeOK, dbVars
  <2>. QED BY <2>1, <2>2, <2>3, <2>4
<1>6. TypeOK'
  BY <1>1, <1>2, <1>3, <1>4, <1>5 DEF TypeOK
<1>7. \A s \in Runners : Script(s)' = Script(s)
  BY <1>1 DEF Script
<1>8. PosInv'
  BY <1>1, <1>2, <1>3, <1>7 DEF PosInv, TypeOK, AtMigration
<1>9. PlanInv' /\ DropInv' /\ SwapInv'
  BY <1>1, <1>2, <1>3, <1>7 DEF PlanInv, DropInv, SwapInv, TypeOK
<1>10. DataKept' /\ OldInv'
  BY <1>1, SameDb
<1>. QED BY <1>6, <1>8, <1>9, <1>10

LEMMA NextPendingStep ==
    ASSUME Inv, NEW r \in Runners, NextPending(r)
    PROVE  Inv'
<1>. USE DEF Inv
<1>1. UNCHANGED <<keyspace, shape, rows, ledger, plan, i, applied, first, faults>> /\ pc[r] = "pending"
  BY DEF NextPending, dbVars
<1>2. PICK l \in {"grants", "pending", "fbProbe", "refuse"} :
          /\ pc' = [pc EXCEPT ![r] = l]
          /\ l \in {"fbProbe", "refuse"} => k[r] <= Len(Migs) /\ k' = k
          /\ k' = k \/ k' = [k EXCEPT ![r] = @ + 1]
  <2>1. CASE k[r] > Len(Migs)
    BY <2>1 DEF NextPending, Goto
  <2>2. CASE ~(k[r] > Len(Migs)) /\ Migs[k[r]].version \in applied[r]
    <3>1. pc' = [pc EXCEPT ![r] = "pending"] /\ k' = [k EXCEPT ![r] = @ + 1]
      BY <2>2, <1>1 DEF NextPending, TypeOK
    <3>. QED BY <3>1
  <2>3. CASE ~(k[r] > Len(Migs)) /\ Migs[k[r]].version \notin applied[r]
    <3>1. k[r] <= Len(Migs)
      BY <2>3, LenNat DEF TypeOK
    <3>. QED BY <2>3, <3>1 DEF NextPending, Goto
  <2>. QED BY <2>1, <2>2, <2>3
<1>3. TypeOK'
  <2>1. l \in Labels
    BY DEF Labels
  <2>2. pc' \in [Runners -> Labels]
    BY <1>2, <2>1 DEF TypeOK
  <2>3. k' \in [Runners -> Nat]
    BY <1>2 DEF TypeOK
  <2>. QED BY <1>1, <2>2, <2>3 DEF TypeOK
<1>4. \A s \in Runners : Script(s)' = Script(s)
  BY <1>1 DEF Script
<1>5. PosInv'
  BY <1>1, <1>2, <1>4 DEF PosInv, TypeOK, AtMigration
<1>6. PlanInv' /\ DropInv' /\ SwapInv'
  BY <1>1, <1>2, <1>4 DEF PlanInv, DropInv, SwapInv, TypeOK
<1>7. DataKept' /\ OldInv'
  BY <1>1, SameDb
<1>. QED BY <1>3, <1>5, <1>6, <1>7

(* refuse_unsafe_destruction lets a migration run when every table it drops is
   empty. *)
LEMMA RefuseStep ==
    ASSUME Inv, Alone, NEW r \in Runners, Refuse(r)
    PROVE  Inv'
<1>. USE DEF Inv
<1>. DEFINE dropped == {s.obj : s \in {t \in StmtsOf(Migs[k[r]]) : t.op = "drop"}}
<1>1. /\ UNCHANGED <<keyspace, shape, rows, ledger, plan, k, applied, first, faults>>
      /\ pc[r] = "refuse" /\ i' = [i EXCEPT ![r] = 1]
  BY DEF Refuse, dbVars
<1>2. PICK nonempty \in [dropped -> BOOLEAN] :
          /\ \A o \in dropped : nonempty[o] \in NonemptyAnswers(o)
          /\ Goto(r, IF \E o \in dropped : nonempty[o] THEN "refused" ELSE "stmts")
  BY DEF Refuse
<1>3. \/ pc' = [pc EXCEPT ![r] = "refused"]
      \/ pc' = [pc EXCEPT ![r] = "stmts"] /\ \A o \in dropped : rows[o] = {}
  BY <1>2 DEF Goto, NonemptyAnswers, Alone
<1>4. TypeOK'
  BY <1>1, <1>3 DEF TypeOK, Labels
<1>5. \A s \in Runners : Script(s)' = Script(s) /\ s = r
  BY <1>1 DEF Script, Alone
<1>6. PosInv'
  BY <1>1, <1>3, <1>5 DEF PosInv, TypeOK, AtMigration
<1>7. PlanInv' /\ SwapInv'
  BY <1>1, <1>3 DEF PlanInv, SwapInv, TypeOK
<1>8. DropInv'
  BY <1>1, <1>3, <1>5 DEF DropInv, TypeOK
<1>9. DataKept' /\ OldInv'
  BY <1>1, SameDb
<1>. QED BY <1>4, <1>6, <1>7, <1>8, <1>9

LEMMA StatementStep ==
    ASSUME Inv, Alone, NEW r \in Runners, Statement(r)
    PROVE  Inv'
<1>. USE DEF Inv
<1>. DEFINE m == Migs[k[r]]
<1>a. UNCHANGED <<ledger, plan, k, applied, first, faults>> /\ pc[r] = "stmts"
  BY DEF Statement
<1>b. k[r] \in 1..Len(Migs) /\ Len(m.stmts) \in Nat
  BY <1>a, LenNat DEF PosInv, TypeOK, AtMigration
<1>c. \A s \in Runners : Script(s)' = Script(s) /\ s = r
  BY <1>a DEF Script, Alone
<1>1. CASE i[r] > Len(m.stmts)
  <2>1. pc' = [pc EXCEPT ![r] = "post"] /\ UNCHANGED <<keyspace, shape, rows, i>>
    BY <1>1 DEF Statement, Goto
  <2>2. TypeOK'
    BY <1>a, <2>1 DEF TypeOK, Labels
  <2>3. PosInv'
    BY <1>a, <1>b, <1>c, <2>1 DEF PosInv, TypeOK, AtMigration
  <2>4. PlanInv' /\ DropInv' /\ SwapInv'
    BY <1>a, <1>c, <2>1 DEF PlanInv, DropInv, SwapInv, TypeOK
  <2>5. DataKept' /\ OldInv'
    BY <1>a, <2>1, SameDb
  <2>. QED BY <2>2, <2>3, <2>4, <2>5
<1>2. CASE ~(i[r] > Len(m.stmts))
  <2>. DEFINE s == m.stmts[i[r]]
  <2>1. Exec(s) /\ i' = [i EXCEPT ![r] = @ + 1] /\ pc' = pc
    BY <1>2 DEF Statement
  <2>2. i[r] \in 1..Len(m.stmts)
    BY <1>2, <1>b DEF PosInv, TypeOK
  <2>3. Modern(s) /\ s \in StmtsOf(m)
    BY <1>b, <2>2, MigrationStatements
  <2>4. /\ keyspace' \in BOOLEAN /\ shape' \in [Objects -> Shapes]
        /\ rows' \in [Objects -> SUBSET Rows]
        /\ keyspace => keyspace'
        /\ \A o \in Objects : rows'[o] = IF s.op = "drop" /\ s.obj = o THEN {} ELSE rows[o]
        /\ shape'[Feedback] = "old" => shape[Feedback] = "old"
    BY <2>1, <2>3, ExecEffect
  <2>5. s.op = "drop" => rows[s.obj] = {}
    BY <1>a, <2>3 DEF DropInv
  <2>6. \A o \in Objects : rows'[o] = rows[o]
    BY <2>4, <2>5
  <2>7. rows' = rows
    BY <2>4, <2>6 DEF TypeOK
  <2>8. TypeOK'
    BY <1>a, <2>1, <2>4 DEF TypeOK
  <2>9. PosInv'
    BY <1>a, <1>c, <2>1 DEF PosInv, TypeOK, AtMigration
  <2>10. PlanInv'
    BY <1>a, <2>4 DEF PlanInv
  <2>11. DropInv' /\ SwapInv'
    BY <1>a, <1>c, <2>1, <2>7 DEF DropInv, SwapInv, TypeOK
  <2>12. DataKept' /\ OldInv'
    <3>1. Quiet
      BY <1>a, <2>4, <2>7 DEF Quiet
    <3>. QED BY <3>1, QuietKeeps
  <2>. QED BY <2>8, <2>9, <2>10, <2>11, <2>12
<1>. QED BY <1>1, <1>2

-----------------------------------------------------------------------------
(* The copy and swap *)

(* What the steps of the swap leave alone, and the label they end at. *)
LEMMA SwapFrame ==
    ASSUME Inv, Alone, NEW r \in Runners, RunnerOnly(r), pc[r] \in AtMigration,
           NEW label \in Labels \ {"bootDrop", "stmts"}, pc' = [pc EXCEPT ![r] = label],
           keyspace' = keyspace, shape' \in [Objects -> Shapes],
           rows' \in [Objects -> SUBSET Rows]
    PROVE  /\ TypeOK' /\ PosInv' /\ PlanInv' /\ DropInv'
           /\ \A s \in Runners : s = r /\ pc'[s] = label
<1>. USE DEF Inv, RunnerOnly
<1>1. \A s \in Runners : s = r /\ pc'[s] = label
  BY DEF Alone, TypeOK
<1>2. TypeOK'
  BY DEF TypeOK
<1>3. \A s \in Runners : Script(s)' = Script(s)
  BY DEF Script
<1>4. PosInv'
  BY <1>1, <1>3 DEF PosInv
<1>5. PlanInv'
  BY DEF PlanInv
<1>6. DropInv'
  BY <1>1 DEF DropInv
<1>. QED BY <1>1, <1>2, <1>4, <1>5, <1>6

LEMMA SwapStep ==
    ASSUME Inv, Alone, NEW r \in Runners,
           \/ FbProbe(r) \/ FbCheck(r) \/ FbClear(r) \/ FbStaging(r)
           \/ FbStage(r) \/ FbDrop(r) \/ FbRecreate(r) \/ FbCopyBack(r) \/ FbDone(r)
    PROVE  Inv'
<1>. USE DEF Inv
<1>a. Feedback \in Objects /\ Staging \in Objects /\ Feedback # Staging
  BY MGAssumption
<1>b. RunnerOnly(r) /\ first' = first
  BY DEF FbProbe, FbCheck, FbClear, FbStaging, FbStage, FbDrop, FbRecreate, FbCopyBack, FbDone,
         RunnerOnly
<1>c. pc[r] \in AtMigration
  BY DEF FbProbe, FbCheck, FbClear, FbStaging, FbStage, FbDrop, FbRecreate, FbCopyBack, FbDone,
         AtMigration
<1>d. FirstFeedback' = FirstFeedback
  BY <1>b DEF FirstFeedback
<1>1. CASE FbProbe(r)
  <2>1. PICK label \in {"fbClear", "fbCheck"} :
            pc' = [pc EXCEPT ![r] = label] /\ (label = "fbClear" => shape[Feedback] = "old")
    BY <1>1 DEF FbProbe, Goto
  <2>2. /\ UNCHANGED <<keyspace, rows>> /\ shape' \in [Objects -> Shapes]
        /\ \A p \in Objects : shape'[p] =
               IF p = Feedback /\ shape[Feedback] = "none" THEN "new" ELSE shape[p]
    BY <1>1, <1>a, CreateEffect DEF FbProbe
  <2>3. /\ TypeOK' /\ PosInv' /\ PlanInv' /\ DropInv'
        /\ \A s \in Runners : s = r /\ pc'[s] = label
    BY <1>b, <1>c, <2>1, <2>2, SwapFrame DEF Labels, TypeOK
  <2>4. SwapInv'
    BY <1>a, <2>1, <2>2, <2>3 DEF SwapInv
  <2>5. Quiet
    BY <1>a, <1>b, <2>2 DEF Quiet
  <2>. QED BY <2>3, <2>4, <2>5, QuietKeeps
<1>2. CASE FbCheck(r)
  <2>1. PICK label \in {"post", "fbCopyBack"} : pc' = [pc EXCEPT ![r] = label]
    BY <1>2 DEF FbCheck, Goto
  <2>2. UNCHANGED <<keyspace, shape, rows>>
    BY <1>2 DEF FbCheck
  <2>3. /\ TypeOK' /\ PosInv' /\ PlanInv' /\ DropInv'
        /\ \A s \in Runners : s = r /\ pc'[s] = label
    BY <1>b, <1>c, <2>1, <2>2, SwapFrame DEF Labels, TypeOK
  <2>4. SwapInv'
    BY <2>1, <2>3 DEF SwapInv
  <2>. QED BY <1>b, <2>2, <2>3, <2>4, SameDb
<1>3. CASE FbClear(r)
  <2>1. pc[r] = "fbClear" /\ pc' = [pc EXCEPT ![r] = "fbStaging"]
    BY <1>3 DEF FbClear, Goto
  <2>2. /\ UNCHANGED keyspace
        /\ shape' \in [Objects -> Shapes] /\ rows' \in [Objects -> SUBSET Rows]
        /\ \A p \in Objects : /\ shape'[p] = IF p = Staging THEN "none" ELSE shape[p]
                              /\ rows'[p] = IF p = Staging THEN {} ELSE rows[p]
    BY <1>3, <1>a, DropEffect DEF FbClear
  <2>3. /\ TypeOK' /\ PosInv' /\ PlanInv' /\ DropInv'
        /\ \A s \in Runners : s = r /\ pc'[s] = "fbStaging"
    BY <1>b, <1>c, <2>1, <2>2, SwapFrame DEF Labels
  <2>4. shape[Feedback] = "old"
    BY <2>1 DEF SwapInv
  <2>5. SwapInv'
    BY <1>a, <2>2, <2>3, <2>4 DEF SwapInv
  <2>6. OldInv'
    BY <1>a, <1>d, <2>2, <2>4 DEF OldInv
  <2>7. DataKept'
    BY <1>a, <1>b, <1>d, <2>2, <2>4 DEF DataKept, OldInv
  <2>. QED BY <2>3, <2>5, <2>6, <2>7
<1>4. CASE FbStaging(r)
  <2>1. pc[r] = "fbStaging" /\ pc' = [pc EXCEPT ![r] = "fbStage"]
    BY <1>4 DEF FbStaging, Goto
  <2>2. /\ UNCHANGED <<keyspace, rows>> /\ shape' \in [Objects -> Shapes]
        /\ \A p \in Objects : shape'[p] =
               IF p = Staging /\ shape[Staging] = "none" THEN "new" ELSE shape[p]
    BY <1>4, <1>a, CreateEffect DEF FbStaging
  <2>3. /\ TypeOK' /\ PosInv' /\ PlanInv' /\ DropInv'
        /\ \A s \in Runners : s = r /\ pc'[s] = "fbStage"
    BY <1>b, <1>c, <2>1, <2>2, SwapFrame DEF Labels, TypeOK
  <2>4. SwapInv'
    BY <1>a, <2>1, <2>2, <2>3 DEF SwapInv
  <2>5. Quiet
    BY <1>a, <1>b, <2>2 DEF Quiet
  <2>. QED BY <2>3, <2>4, <2>5, QuietKeeps
<1>5. CASE FbStage(r)
  <2>1. pc[r] = "fbStage" /\ UNCHANGED <<keyspace, shape>> /\ Copy(r, Feedback, Staging, "fbDrop")
    BY <1>5 DEF FbStage
  <2>2. /\ rows' \in [Objects -> SUBSET Rows]
        /\ \A o \in Objects : rows[o] \subseteq rows'[o]
        /\ \/ pc' = [pc EXCEPT ![r] = "failed"]
           \/ pc' = [pc EXCEPT ![r] = "fbDrop"] /\ rows'[Feedback] \subseteq rows'[Staging]
           \/ pc' = pc
    BY <1>a, <2>1, CopyEffect DEF Labels
  <2>3. PICK label \in {"failed", "fbDrop", "fbStage"} :
            /\ pc' = [pc EXCEPT ![r] = label]
            /\ label = "fbDrop" => rows'[Feedback] \subseteq rows'[Staging]
    <3>1. pc = [pc EXCEPT ![r] = "fbStage"]
      BY <2>1 DEF TypeOK
    <3>. QED BY <2>2, <3>1
  <2>4. /\ TypeOK' /\ PosInv' /\ PlanInv' /\ DropInv'
        /\ \A s \in Runners : s = r /\ pc'[s] = label
    BY <1>b, <1>c, <2>1, <2>2, <2>3, SwapFrame DEF Labels, TypeOK
  <2>5. SwapInv'
    BY <2>1, <2>3, <2>4 DEF SwapInv
  <2>6. Quiet
    BY <1>b, <2>1, <2>2 DEF Quiet
  <2>. QED BY <2>4, <2>5, <2>6, QuietKeeps
<1>6. CASE FbDrop(r)
  <2>1. pc[r] = "fbDrop" /\ pc' = [pc EXCEPT ![r] = "fbRecreate"]
    BY <1>6 DEF FbDrop, Goto
  <2>2. /\ UNCHANGED keyspace
        /\ shape' \in [Objects -> Shapes] /\ rows' \in [Objects -> SUBSET Rows]
        /\ \A p \in Objects : /\ shape'[p] = IF p = Feedback THEN "none" ELSE shape[p]
                              /\ rows'[p] = IF p = Feedback THEN {} ELSE rows[p]
    BY <1>6, <1>a, DropEffect DEF FbDrop
  <2>3. /\ TypeOK' /\ PosInv' /\ PlanInv' /\ DropInv'
        /\ \A s \in Runners : s = r /\ pc'[s] = "fbRecreate"
    BY <1>b, <1>c, <2>1, <2>2, SwapFrame DEF Labels
  <2>4. SwapInv' /\ OldInv'
    BY <1>a, <2>2, <2>3 DEF SwapInv, OldInv
  <2>5. rows[Feedback] \subseteq rows[Staging]
    BY <2>1 DEF SwapInv
  <2>6. DataKept'
    BY <1>a, <1>b, <1>d, <2>2, <2>5 DEF DataKept
  <2>. QED BY <2>3, <2>4, <2>6
<1>7. CASE FbRecreate(r)
  <2>1. pc[r] = "fbRecreate" /\ pc' = [pc EXCEPT ![r] = "fbCopyBack"]
    BY <1>7 DEF FbRecreate, Goto
  <2>2. /\ UNCHANGED <<keyspace, rows>> /\ shape' \in [Objects -> Shapes]
        /\ \A p \in Objects : shape'[p] =
               IF p = Feedback /\ shape[Feedback] = "none" THEN "new" ELSE shape[p]
    BY <1>7, <1>a, CreateEffect DEF FbRecreate
  <2>3. /\ TypeOK' /\ PosInv' /\ PlanInv' /\ DropInv'
        /\ \A s \in Runners : s = r /\ pc'[s] = "fbCopyBack"
    BY <1>b, <1>c, <2>1, <2>2, SwapFrame DEF Labels, TypeOK
  <2>4. SwapInv'
    BY <2>3 DEF SwapInv
  <2>5. Quiet
    BY <1>a, <1>b, <2>2 DEF Quiet
  <2>. QED BY <2>3, <2>4, <2>5, QuietKeeps
<1>8. CASE FbCopyBack(r)
  <2>1. pc[r] = "fbCopyBack" /\ UNCHANGED <<keyspace, shape>> /\ Copy(r, Staging, Feedback, "fbDone")
    BY <1>8 DEF FbCopyBack
  <2>2. /\ rows' \in [Objects -> SUBSET Rows]
        /\ \A o \in Objects : rows[o] \subseteq rows'[o]
        /\ \/ pc' = [pc EXCEPT ![r] = "failed"]
           \/ pc' = [pc EXCEPT ![r] = "fbDone"] /\ rows'[Staging] \subseteq rows'[Feedback]
           \/ pc' = pc
    BY <1>a, <2>1, CopyEffect DEF Labels
  <2>3. PICK label \in {"failed", "fbDone", "fbCopyBack"} :
            /\ pc' = [pc EXCEPT ![r] = label]
            /\ label = "fbDone" => rows'[Staging] \subseteq rows'[Feedback]
    <3>1. pc = [pc EXCEPT ![r] = "fbCopyBack"]
      BY <2>1 DEF TypeOK
    <3>. QED BY <2>2, <3>1
  <2>4. /\ TypeOK' /\ PosInv' /\ PlanInv' /\ DropInv'
        /\ \A s \in Runners : s = r /\ pc'[s] = label
    BY <1>b, <1>c, <2>1, <2>2, <2>3, SwapFrame DEF Labels, TypeOK
  <2>5. SwapInv'
    BY <2>1, <2>3, <2>4 DEF SwapInv
  <2>6. Quiet
    BY <1>b, <2>1, <2>2 DEF Quiet
  <2>. QED BY <2>4, <2>5, <2>6, QuietKeeps
<1>9. CASE FbDone(r)
  <2>1. pc[r] = "fbDone" /\ pc' = [pc EXCEPT ![r] = "post"]
    BY <1>9 DEF FbDone, Goto
  <2>2. /\ UNCHANGED keyspace
        /\ shape' \in [Objects -> Shapes] /\ rows' \in [Objects -> SUBSET Rows]
        /\ \A p \in Objects : /\ shape'[p] = IF p = Staging THEN "none" ELSE shape[p]
                              /\ rows'[p] = IF p = Staging THEN {} ELSE rows[p]
    BY <1>9, <1>a, DropEffect DEF FbDone
  <2>3. /\ TypeOK' /\ PosInv' /\ PlanInv' /\ DropInv'
        /\ \A s \in Runners : s = r /\ pc'[s] = "post"
    BY <1>b, <1>c, <2>1, <2>2, SwapFrame DEF Labels
  <2>4. SwapInv' /\ OldInv'
    BY <1>a, <1>d, <2>2, <2>3 DEF SwapInv, OldInv
  <2>5. rows[Staging] \subseteq rows[Feedback]
    BY <2>1 DEF SwapInv
  <2>6. DataKept'
    BY <1>a, <1>b, <1>d, <2>2, <2>5 DEF DataKept
  <2>. QED BY <2>3, <2>4, <2>6
<1>. QED BY <1>1, <1>2, <1>3, <1>4, <1>5, <1>6, <1>7, <1>8, <1>9

-----------------------------------------------------------------------------
LEMMA DieStep ==
    ASSUME Inv, NEW r \in Runners, Die(r)
    PROVE  Inv'
<1>. USE DEF Inv, Die, dbVars
<1>1. DataKept' /\ OldInv'
  BY SameDb
<1>2. pc' = [pc EXCEPT ![r] = "start"]
  BY DEF Goto
<1>3. TypeOK'
  BY <1>2 DEF TypeOK, Labels
<1>4. \A s \in Runners : Script(s)' = Script(s)
  BY DEF Script
<1>5. PosInv'
  BY <1>2, <1>4 DEF PosInv, TypeOK, AtMigration
<1>6. PlanInv' /\ DropInv' /\ SwapInv'
  BY <1>2, <1>4 DEF PlanInv, DropInv, SwapInv, TypeOK
<1>. QED BY <1>1, <1>3, <1>5, <1>6

LEMMA NextInv ==
    ASSUME Inv, Alone, [Next]_vars
    PROVE  Inv'
<1>1. CASE UNCHANGED vars
  <2>. USE <1>1 DEF vars, dbVars, runnerVars, Inv
  <2>1. DataKept' /\ OldInv'
    BY SameDb
  <2>2. TypeOK'
    BY DEF TypeOK
  <2>3. \A s \in Runners : Script(s)' = Script(s)
    BY DEF Script
  <2>4. PosInv' /\ PlanInv' /\ DropInv' /\ SwapInv'
    BY <2>3 DEF PosInv, PlanInv, DropInv, SwapInv
  <2>. QED BY <2>1, <2>2, <2>4
<1>2. CASE Next
  <2>1. PICK r \in Runners : Step(r) \/ Die(r)
    BY <1>2 DEF Next
  <2>. QED BY <2>1, ClassifyStep, BootStep, LedgerStep, NextPendingStep, RefuseStep,
              StatementStep, SwapStep, DieStep DEF Step
<1>. QED BY <1>1, <1>2

(* The inductive invariant holds in every reachable state, when one process
   migrates and its probes answer. *)
THEOREM Invariance ==
    ASSUME Alone
    PROVE  Spec => []Inv
<1>1. Init => Inv
  BY InitInv
<1>2. Inv /\ [Next]_vars => Inv'
  BY NextInv
<1>. QED BY <1>1, <1>2, PTL DEF Spec

(* run_migrations deletes no row of the install it found: a drop of the
   bootstrap or of a migration meets an empty table, and the swap of
   feedback_outcomes has every row in one of its two tables, wherever the
   process dies and however often it starts again. *)
THEOREM InstallIsKept ==
    ASSUME ProbeFails = FALSE, \A r, s \in Runners : r = s
    PROVE  Spec => []DataKept
<1>1. Alone
  BY DEF Alone
<1>2. Spec => []Inv
  BY <1>1, Invariance
<1>3. Inv => DataKept
  BY DEF Inv
<1>. QED BY <1>2, <1>3, PTL
-----------------------------------------------------------------------------
(* What a start that returns Ok leaves *)

(* The bootstrap is over; the ledger is settled and migrations are applied. *)
Ledgering == {"version", "baseline", "seed", "gap", "repair"}

Building == AtMigration \cup {"pending", "grants", "ready"}

Swapping == {"fbProbe", "fbCheck", "fbClear", "fbStaging", "fbStage", "fbDrop",
             "fbRecreate", "fbCopyBack", "fbDone"}

(* The migrations that were applied, by an earlier start or by this one. *)
Settled(r) == {j \in 1..Len(Migs) : j < k[r] \/ Migs[j].version \in applied[r]}

(* The migration at hand will create o. *)
Coming(r, o) ==
    pc[r] = "stmts" /\ \E b \in 1..Len(Migs[k[r]].stmts) :
        b >= i[r] /\ Migs[k[r]].stmts[b].op = "create" /\ Migs[k[r]].stmts[b].obj = o

There(r, o) == shape[o] # "none" \/ Coming(r, o) \/ (pc[r] = "fbRecreate" /\ o = Feedback)

(* The ledger has what this start found or recorded, and nothing else. *)
LedgerAt(r) ==
    /\ pc[r] = "repair" => applied[r] = ledger
    /\ pc[r] \in Building =>
           /\ applied[r] \subseteq ledger
           /\ \A j \in Settled(r) : Migs[j].version \in ledger
           /\ \A v \in ledger : v \in applied[r] \/ \E j \in Settled(r) : Migs[j].version = v
    /\ pc[r] \in {"grants", "ready"} => k[r] > Len(Migs)

(* The migration at hand was not applied; the swap has its own steps. *)
HandAt(r) ==
    /\ pc[r] \in AtMigration => Migs[k[r]].version \notin applied[r]
    /\ pc[r] \in Swapping => Migs[k[r]].version = Swap
    /\ pc[r] \in {"refuse", "stmts"} => Migs[k[r]].version # Swap
    /\ pc[r] = "record" => Postcondition(Migs[k[r]])

(* The tables of the bootstrap and the objects of the settled migrations
   exist, but for what the migration at hand is rebuilding. *)
ThereAt(r) ==
    /\ pc[r] \in Ledgering => \A o \in Contract : shape[o] # "none"
    /\ pc[r] = "repair" => \A j \in 1..Len(Migs) :
           j < k[r] /\ Migs[j].version \in applied[r] => Postcondition(Migs[j])
    /\ pc[r] \in Building =>
           /\ \A o \in Contract : There(r, o)
           /\ \A j \in Settled(r) : \A s \in StmtsOf(Migs[j]) : s.op = "create" => There(r, s.obj)
           /\ \A j \in Settled(r) : Migs[j].version = Swap =>
                  shape[Feedback] = "new" \/ (shape[Feedback] = "none" /\ Coming(r, Feedback))

(* Feedback is back before the swap is recorded. *)
BackAt(r) ==
    pc[r] \in {"post", "record"} /\ Migs[k[r]].version = Swap =>
        FirstFeedback \subseteq rows[Feedback]

BackInv ==
    /\ shape[Staging] = "none" => rows[Staging] = {}
    /\ Swap \in ledger => FirstFeedback \subseteq rows[Feedback]

ReadyInv ==
    BackInv /\ \A r \in Runners : LedgerAt(r) /\ HandAt(r) /\ ThereAt(r) /\ BackAt(r)

(* How a step of the one runner keeps it. *)
LEMMA OneRunner ==
    ASSUME Alone, NEW r \in Runners, BackInv', LedgerAt(r)', HandAt(r)', ThereAt(r)', BackAt(r)'
    PROVE  ReadyInv'
<1>1. \A q \in Runners : q = r
  BY DEF Alone
<1>. QED BY <1>1 DEF ReadyInv

(* Before the ledger is read and after an end that is not Ok, only the data
   matter. *)
LEMMA NotYet ==
    ASSUME Alone, NEW r \in Runners, BackInv', pc'[r] \notin Ledgering \cup Building
    PROVE  ReadyInv'
<1>1. LedgerAt(r)' /\ HandAt(r)' /\ ThereAt(r)' /\ BackAt(r)'
  BY DEF LedgerAt, HandAt, ThereAt, BackAt, Ledgering, Building, AtMigration, Swapping
<1>. QED BY <1>1, OneRunner

LEMMA SameBack ==
    ASSUME BackInv, UNCHANGED <<shape, rows, first>>, Swap \in ledger' => Swap \in ledger
    PROVE  BackInv'
BY DEF BackInv, FirstFeedback

(* The shape an object has after a statement. *)
LEMMA ExecShape ==
    ASSUME TypeOK, NEW s, Modern(s), Exec(s), NEW o \in Objects
    PROVE  shape'[o] = IF s.op = "create" /\ s.obj = o /\ shape[o] = "none" THEN s.shape
                       ELSE IF s.op = "drop" /\ s.obj = o THEN "none"
                       ELSE shape[o]
<1>. USE DEF TypeOK
<1>1. CASE s.op = "create"
  BY <1>1, StatementKinds DEF Exec, Modern
<1>2. CASE s.op = "drop"
  BY <1>2, StatementKinds DEF Exec, Modern
<1>3. CASE s.op = "keyspace"
  BY <1>3 DEF Exec
<1>. QED BY <1>1, <1>2, <1>3, StatementKinds DEF Modern

(* A statement of a script that drops only an empty table, or of an install
   without rows. *)
LEMMA ExecBack ==
    ASSUME Inv, BackInv, NEW s, Modern(s), Exec(s), UNCHANGED <<ledger, first>>,
           first.keyspace /\ s.op = "drop" => rows[s.obj] = {}
    PROVE  BackInv'
<1>0. TypeOK /\ Feedback \in Objects /\ Staging \in Objects /\ first \in Installs
  BY MGAssumption DEF Inv, TypeOK
<1>1. \A o \in Objects : rows'[o] = IF s.op = "drop" /\ s.obj = o THEN {} ELSE rows[o]
  BY <1>0, ExecEffect
<1>2. shape'[Staging] = "none" => shape[Staging] = "none" \/ (s.op = "drop" /\ s.obj = Staging)
  <2>1. shape'[Staging] = IF s.op = "create" /\ s.obj = Staging /\ shape[Staging] = "none" THEN s.shape
                          ELSE IF s.op = "drop" /\ s.obj = Staging THEN "none" ELSE shape[Staging]
    BY <1>0, ExecShape
  <2>. QED BY <2>1
<1>3. shape'[Staging] = "none" => rows'[Staging] = {}
  BY <1>0, <1>1, <1>2 DEF BackInv
<1>4. FirstFeedback' = FirstFeedback
  BY DEF FirstFeedback
<1>5. CASE first.keyspace
  <2>1. rows'[Feedback] = rows[Feedback]
    BY <1>0, <1>1, <1>5
  <2>. QED BY <1>3, <1>4, <2>1 DEF BackInv
<1>6. CASE ~first.keyspace
  <2>1. FirstFeedback = {}
    BY <1>0, <1>6, MGAssumption DEF FirstFeedback
  <2>. QED BY <1>3, <1>4, <2>1 DEF BackInv
<1>. QED BY <1>5, <1>6

LEMMA ReadyInit == Init => ReadyInv
<1>. SUFFICES ASSUME Init PROVE ReadyInv
  OBVIOUS
<1>0. Feedback \in Objects /\ Staging \in Objects /\ first \in Installs
  BY MGAssumption DEF Init
<1>1. BackInv
  BY <1>0, MGAssumption, InstallAssumption DEF Init, BackInv, FirstFeedback
<1>2. \A r \in Runners : LedgerAt(r) /\ HandAt(r) /\ ThereAt(r) /\ BackAt(r)
  BY DEF Init, LedgerAt, HandAt, ThereAt, BackAt, Ledgering, Building, AtMigration, Swapping
<1>. QED BY <1>1, <1>2 DEF ReadyInv

(* The bootstrap. *)
LEMMA BootReady ==
    ASSUME Inv, ReadyInv, Alone, NEW r \in Runners,
           Classify(r) \/ BootStatement(r) \/ BootDrop(r) \/ Recheck(r) \/ Die(r)
    PROVE  ReadyInv'
<1>0. TypeOK /\ BackInv /\ pc \in [Runners -> Labels]
  BY DEF Inv, ReadyInv, TypeOK
<1>1. CASE Classify(r) \/ Recheck(r)
  <2>1. BackInv' /\ UNCHANGED <<shape, rows, first>>
    BY <1>0, <1>1, SameBack DEF Classify, Recheck, dbVars
  <2>2. pc'[r] \in {"boot", "failed"} \/ (pc'[r] = "version" /\ Missing = {})
    BY <1>0, <1>1 DEF Classify, Recheck, Goto
  <2>3. CASE pc'[r] \in {"boot", "failed"}
    BY <2>1, <2>3, NotYet DEF Ledgering, Building, AtMigration
  <2>4. CASE pc'[r] = "version" /\ Missing = {}
    <3>1. \A o \in Contract : shape'[o] # "none"
      BY <2>1, <2>4 DEF Missing
    <3>2. LedgerAt(r)' /\ HandAt(r)' /\ ThereAt(r)' /\ BackAt(r)'
      BY <2>4, <3>1 DEF LedgerAt, HandAt, ThereAt, BackAt, Building, AtMigration, Swapping
    <3>. QED BY <2>1, <3>2, OneRunner
  <2>. QED BY <2>2, <2>3, <2>4
<1>2. CASE Die(r)
  <2>1. BackInv' /\ pc'[r] = "start"
    BY <1>0, <1>2, SameBack DEF Die, dbVars, Goto
  <2>. QED BY <2>1, NotYet DEF Ledgering, Building, AtMigration
<1>3. CASE BootStatement(r) \/ BootDrop(r)
  <2>1. pc'[r] \in {"boot", "bootDrop", "recheck"}
    BY <1>0, <1>3 DEF BootStatement, BootDrop, Goto
  <2>2. BackInv'
    <3>1. CASE UNCHANGED <<keyspace, shape, rows>>
      BY <1>0, <1>3, <3>1, SameBack DEF BootStatement, BootDrop
    <3>2. CASE /\ Exec(Script(r)[i[r]]) /\ i[r] <= Len(Script(r))
               /\ Script(r)[i[r]].op = "drop" => pc[r] = "bootDrop"
      <4>1. i[r] \in 1..Len(Script(r))
        BY <3>2, LenNat DEF Inv, TypeOK, PosInv
      <4>. DEFINE s == Script(r)[i[r]]
      <4>2. Modern(s)
        BY <4>1, ScriptStatements
      <4>3. first.keyspace /\ s.op = "drop" => rows[s.obj] = {}
        BY <3>2 DEF Inv, DropInv
      <4>4. Exec(s)
        BY <3>2
      <4>5. UNCHANGED <<ledger, first>>
        BY <1>3 DEF BootStatement, BootDrop
      <4>. HIDE DEF s
      <4>. QED BY <1>0, <4>2, <4>3, <4>4, <4>5, ExecBack
    <3>3. CASE BootStatement(r)
      <4>1. CASE i[r] > Len(Script(r))
        BY <3>1, <3>3, <4>1 DEF BootStatement
      <4>2. CASE ~(i[r] > Len(Script(r)))
        <5>1. i[r] <= Len(Script(r))
          BY <4>2, LenNat DEF Inv, TypeOK
        <5>. QED BY <3>1, <3>2, <3>3, <4>2, <5>1 DEF BootStatement
      <4>. QED BY <4>1, <4>2
    <3>4. CASE BootDrop(r)
      BY <3>2, <3>4 DEF BootDrop, Inv, PosInv
    <3>. QED BY <1>3, <3>3, <3>4
  <2>. QED BY <2>1, <2>2, NotYet DEF Ledgering, Building, AtMigration
<1>. QED BY <1>1, <1>2, <1>3

(* The ledger is read and repaired. *)
LEMMA SwapAboveBaseline == Swap # Baseline
<1>1. PICK n \in 1..Len(Migs) : Migs[n].version = Swap
  BY MGAssumption DEF Versions
<1>2. Baseline < Swap /\ Baseline \in Nat
  BY <1>1, ScriptAssumption, MGAssumption
<1>. QED BY <1>2

LEMMA LedgerReady ==
    ASSUME Inv, ReadyInv, Alone, NEW r \in Runners,
           ReadVersion(r) \/ CheckBaseline(r) \/ SeedBaseline(r) \/ ReadApplied(r)
    PROVE  ReadyInv'
<1>0. TypeOK /\ BackInv /\ pc \in [Runners -> Labels] /\ ThereAt(r)
  BY DEF Inv, ReadyInv, TypeOK
<1>1. UNCHANGED <<shape, rows, first>> /\ pc[r] \in {"version", "baseline", "seed", "gap"}
  BY DEF ReadVersion, CheckBaseline, SeedBaseline, ReadApplied, dbVars
<1>2. ledger' = ledger \/ ledger' = ledger \cup {Baseline}
  BY DEF ReadVersion, CheckBaseline, SeedBaseline, ReadApplied, dbVars
<1>3. BackInv'
  BY <1>0, <1>1, <1>2, SameBack, SwapAboveBaseline
<1>4. \A o \in Contract : shape'[o] # "none"
  BY <1>0, <1>1 DEF ThereAt, Ledgering
<1>5. CASE ReadVersion(r) \/ CheckBaseline(r) \/ SeedBaseline(r)
  <2>1. pc'[r] \in {"baseline", "seed", "gap", "refused", "failed"}
    BY <1>0, <1>5 DEF ReadVersion, CheckBaseline, SeedBaseline, Goto
  <2>2. LedgerAt(r)' /\ HandAt(r)' /\ ThereAt(r)' /\ BackAt(r)'
    BY <1>4, <2>1 DEF LedgerAt, HandAt, ThereAt, BackAt, Building, AtMigration, Swapping
  <2>. QED BY <1>3, <2>2, OneRunner
<1>6. CASE ReadApplied(r)
  <2>1. pc'[r] = "repair" /\ applied'[r] = ledger' /\ k'[r] = 1
    BY <1>0, <1>6 DEF ReadApplied, Goto, TypeOK, dbVars
  <2>2. \A j \in 1..Len(Migs) : ~(j < k'[r])
    BY <2>1
  <2>3. LedgerAt(r)' /\ HandAt(r)' /\ ThereAt(r)' /\ BackAt(r)'
    BY <1>4, <2>1, <2>2 DEF LedgerAt, HandAt, ThereAt, BackAt, Building, AtMigration, Swapping
  <2>. QED BY <1>3, <2>3, OneRunner
<1>. QED BY <1>5, <1>6

(* What a migration's postcondition says depends on the shapes alone. *)
LEMMA PostSame ==
    ASSUME NEW m, shape' = shape
    PROVE  Postcondition(m)' <=> Postcondition(m)
BY DEF Postcondition

LEMMA RepairReady ==
    ASSUME Inv, ReadyInv, Alone, NEW r \in Runners, Repair(r)
    PROVE  ReadyInv'
<1>0. TypeOK /\ BackInv /\ pc \in [Runners -> Labels] /\ ThereAt(r) /\ LedgerAt(r)
  BY DEF Inv, ReadyInv, TypeOK
<1>1. UNCHANGED <<keyspace, shape, rows, first>> /\ pc[r] = "repair"
  BY DEF Repair
<1>a. k[r] \in Nat /\ k[r] >= 1 /\ Len(Migs) \in Nat
  BY LenNat DEF Inv, TypeOK, PosInv
<1>2. \A o \in Contract : shape'[o] # "none"
  BY <1>0, <1>1 DEF ThereAt, Ledgering
<1>3. CASE k[r] > Len(Migs)
  <2>1. pc'[r] = "pending" /\ k'[r] = 1 /\ UNCHANGED <<ledger, applied>>
    BY <1>0, <1>3 DEF Repair, Goto, TypeOK
  <2>2. BackInv'
    BY <1>0, <1>1, <2>1, SameBack
  <2>3. \A j \in 1..Len(Migs) : j < k[r] /\ ~(j < k'[r])
    BY <1>3, <1>a, <2>1
  <2>4. \A j \in Settled(r)' : /\ j \in 1..Len(Migs) /\ Migs[j].version \in applied[r]
                               /\ Postcondition(Migs[j])
    BY <1>0, <1>1, <2>1, <2>3 DEF Settled, ThereAt
  <2>5. LedgerAt(r)'
    BY <1>0, <1>1, <2>1, <2>4 DEF LedgerAt
  <2>6. ThereAt(r)'
    BY <1>1, <1>2, <2>1, <2>4 DEF ThereAt, There, Postcondition, Ledgering
  <2>7. HandAt(r)' /\ BackAt(r)'
    BY <2>1 DEF HandAt, BackAt, AtMigration, Swapping
  <2>. QED BY <2>2, <2>5, <2>6, <2>7, OneRunner
<1>4. CASE ~(k[r] > Len(Migs))
  <2>. DEFINE m == Migs[k[r]]
              lost == m.version \in applied[r] /\ ~Postcondition(m)
  <2>1. /\ pc'[r] = "repair" /\ k'[r] = k[r] + 1
        /\ ledger' = IF lost THEN ledger \ {m.version} ELSE ledger
        /\ applied'[r] = IF lost THEN applied[r] \ {m.version} ELSE applied[r]
    BY <1>0, <1>1, <1>4 DEF Repair, TypeOK
  <2>2. BackInv'
    BY <1>0, <1>1, <2>1, SameBack
  <2>3. applied'[r] = ledger'
    BY <1>0, <1>1, <2>1 DEF LedgerAt
  <2>4. ASSUME NEW j \in 1..Len(Migs), j < k'[r], Migs[j].version \in applied'[r]
        PROVE  Postcondition(Migs[j])'
    <3>1. Migs[j].version \in applied[r]
      BY <2>1, <2>4
    <3>2. CASE j < k[r]
      BY <1>0, <1>1, <3>1, <3>2, PostSame DEF ThereAt
    <3>3. CASE j = k[r]
      BY <1>1, <2>1, <2>4, <3>1, <3>3, PostSame
    <3>. QED BY <1>a, <2>1, <2>4, <3>2, <3>3
  <2>5. ThereAt(r)'
    BY <1>2, <2>1, <2>4 DEF ThereAt, Building, AtMigration
  <2>6. LedgerAt(r)' /\ HandAt(r)' /\ BackAt(r)'
    BY <2>1, <2>3 DEF LedgerAt, HandAt, BackAt, Building, AtMigration, Swapping
  <2>. QED BY <2>2, <2>5, <2>6, OneRunner
<1>. QED BY <1>3, <1>4

-----------------------------------------------------------------------------
(* The migrations *)

(* Where nothing is being rebuilt, what has to be there is there. *)
LEMMA AllThere ==
    ASSUME NEW r \in Runners, ThereAt(r), pc[r] \in Building \ {"stmts", "fbRecreate"}
    PROVE  /\ \A o \in Contract : shape[o] # "none"
           /\ \A j \in Settled(r) : \A s \in StmtsOf(Migs[j]) : s.op = "create" => shape[s.obj] # "none"
           /\ \A j \in Settled(r) : Migs[j].version = Swap => shape[Feedback] = "new"
BY DEF ThereAt, There, Coming

LEMMA PendingReady ==
    ASSUME Inv, ReadyInv, Alone, NEW r \in Runners, NextPending(r) \/ Grants(r)
    PROVE  ReadyInv'
<1>0. /\ TypeOK /\ BackInv /\ pc \in [Runners -> Labels] /\ ThereAt(r) /\ LedgerAt(r)
      /\ k \in [Runners -> Nat]
  BY DEF Inv, ReadyInv, TypeOK
<1>1. UNCHANGED <<shape, rows, ledger, applied, first>> /\ pc[r] \in {"pending", "grants"}
  BY DEF NextPending, Grants, dbVars
<1>a. k[r] \in Nat /\ k[r] >= 1 /\ Len(Migs) \in Nat
  BY LenNat DEF Inv, TypeOK, PosInv
<1>2. BackInv'
  BY <1>0, <1>1, SameBack
<1>3. PICK l \in {"pending", "grants", "ready", "fbProbe", "refuse"} :
        /\ pc'[r] = l
        /\ l \in {"grants", "ready"} => k'[r] > Len(Migs)
        /\ l \in {"fbProbe", "refuse"} =>
              /\ k'[r] = k[r] /\ Migs[k[r]].version \notin applied[r]
              /\ l = "fbProbe" <=> Migs[k[r]].version = Swap
        /\ \/ k'[r] = k[r]
           \/ k'[r] = k[r] + 1 /\ k[r] <= Len(Migs) /\ Migs[k[r]].version \in applied[r]
  <2>1. CASE Grants(r)
    BY <1>0, <1>1, <2>1 DEF Grants, Goto, LedgerAt
  <2>2. CASE NextPending(r) /\ k[r] > Len(Migs)
    BY <1>0, <2>2 DEF NextPending, Goto
  <2>3. CASE NextPending(r) /\ ~(k[r] > Len(Migs)) /\ Migs[k[r]].version \in applied[r]
    <3>1. pc'[r] = "pending" /\ k'[r] = k[r] + 1
      BY <1>0, <2>3 DEF NextPending
    <3>. QED BY <1>a, <2>3, <3>1
  <2>4. CASE NextPending(r) /\ ~(k[r] > Len(Migs)) /\ Migs[k[r]].version \notin applied[r]
    <3>1. k'[r] = k[r] /\ pc'[r] = IF Migs[k[r]].version = Swap THEN "fbProbe" ELSE "refuse"
      BY <1>0, <2>4 DEF NextPending, Goto
    <3>. QED BY <2>4, <3>1
  <2>. QED BY <2>1, <2>2, <2>3, <2>4
<1>4. Settled(r)' = Settled(r)
  <2>1. \A j \in 1..Len(Migs) : j < k'[r] \/ Migs[j].version \in applied[r]
                            <=> j < k[r] \/ Migs[j].version \in applied[r]
    BY <1>a, <1>3
  <2>. QED BY <1>1, <2>1 DEF Settled
<1>5. pc[r] \in Building \ {"stmts", "fbRecreate"}
  BY <1>1 DEF Building
<1>6. LedgerAt(r)'
  BY <1>0, <1>1, <1>3, <1>4, <1>5 DEF LedgerAt, Building
<1>7. ThereAt(r)'
  BY <1>0, <1>1, <1>3, <1>4, <1>5, AllThere DEF ThereAt, There, Ledgering
<1>8. HandAt(r)' /\ BackAt(r)'
  BY <1>1, <1>3 DEF HandAt, BackAt, AtMigration, Swapping
<1>. QED BY <1>2, <1>6, <1>7, <1>8, OneRunner

LEMMA RefuseReady ==
    ASSUME Inv, ReadyInv, Alone, NEW r \in Runners, Refuse(r)
    PROVE  ReadyInv'
<1>0. /\ TypeOK /\ BackInv /\ pc \in [Runners -> Labels] /\ ThereAt(r) /\ LedgerAt(r) /\ HandAt(r)
  BY DEF Inv, ReadyInv, TypeOK
<1>1. UNCHANGED <<shape, rows, ledger, applied, k, first>> /\ pc[r] = "refuse"
  BY DEF Refuse, dbVars
<1>2. BackInv'
  BY <1>0, <1>1, SameBack
<1>3. pc'[r] \in {"refused", "stmts"}
  BY <1>0 DEF Refuse, Goto
<1>4. CASE pc'[r] = "refused"
  BY <1>2, <1>4, NotYet DEF Ledgering, Building, AtMigration
<1>5. CASE pc'[r] = "stmts"
  <2>1. Settled(r)' = Settled(r)
    BY <1>1 DEF Settled
  <2>2. pc[r] \in Building \ {"stmts", "fbRecreate"}
    BY <1>1 DEF Building, AtMigration
  <2>3. LedgerAt(r)'
    BY <1>0, <1>1, <1>5, <2>1, <2>2 DEF LedgerAt, Building
  <2>4. ThereAt(r)'
    BY <1>0, <1>1, <1>5, <2>1, <2>2, AllThere DEF ThereAt, There, Ledgering
  <2>5. HandAt(r)' /\ BackAt(r)'
    BY <1>0, <1>1, <1>5 DEF HandAt, BackAt, AtMigration, Swapping
  <2>. QED BY <1>2, <2>3, <2>4, <2>5, OneRunner
<1>. QED BY <1>3, <1>4, <1>5

(* A statement of a migration takes away only what a later one brings back. *)
LEMMA StatementReady ==
    ASSUME Inv, ReadyInv, Alone, NEW r \in Runners, Statement(r)
    PROVE  ReadyInv'
<1>. DEFINE q == Migs[k[r]].stmts
<1>0. /\ TypeOK /\ BackInv /\ pc \in [Runners -> Labels] /\ ThereAt(r) /\ LedgerAt(r) /\ HandAt(r)
      /\ i \in [Runners -> Nat] /\ Feedback \in Objects
  BY MGAssumption DEF Inv, ReadyInv, TypeOK
<1>1. UNCHANGED <<ledger, applied, k, first>> /\ pc[r] = "stmts"
  BY DEF Statement
<1>a. k[r] \in 1..Len(Migs) /\ Len(q) \in Nat /\ i[r] \in Nat /\ i[r] >= 1
  BY <1>1, LenNat DEF Inv, PosInv, TypeOK, AtMigration
<1>b. Settled(r)' = Settled(r)
  BY <1>1 DEF Settled
<1>2. CASE i[r] > Len(q)
  <2>1. pc'[r] = "post" /\ UNCHANGED <<shape, rows>>
    BY <1>0, <1>2 DEF Statement, Goto
  <2>2. \A o : ~Coming(r, o)
    BY <1>2, <1>a DEF Coming
  <2>3. BackInv'
    BY <1>0, <1>1, <2>1, SameBack
  <2>4. LedgerAt(r)'
    BY <1>0, <1>1, <1>b, <2>1 DEF LedgerAt, Building, AtMigration
  <2>5. ThereAt(r)'
    BY <1>0, <1>1, <1>b, <2>1, <2>2 DEF ThereAt, There, Ledgering, Building, AtMigration
  <2>6. HandAt(r)' /\ BackAt(r)'
    BY <1>0, <1>1, <2>1 DEF HandAt, BackAt, AtMigration, Swapping
  <2>. QED BY <2>3, <2>4, <2>5, <2>6, OneRunner
<1>3. CASE ~(i[r] > Len(q))
  <2>. DEFINE s == q[i[r]]
  <2>1. Exec(s) /\ i'[r] = i[r] + 1 /\ pc' = pc
    BY <1>0, <1>3 DEF Statement
  <2>2. i[r] \in 1..Len(q)
    BY <1>3, <1>a
  <2>3. Modern(s) /\ s \in StmtsOf(Migs[k[r]])
    BY <1>a, <2>2, MigrationStatements
  <2>4. s.op = "drop" => \E b \in 1..Len(q) : b >= i[r] + 1 /\ q[b].op = "create" /\ q[b].obj = s.obj
    <3>1. s.op = "drop" => \E b \in (i[r] + 1)..Len(q) : q[b].op = "create" /\ q[b].obj = s.obj
      BY <1>a, <2>2, ScriptAssumption
    <3>2. \A b \in (i[r] + 1)..Len(q) : b \in 1..Len(q) /\ b >= i[r] + 1
      BY <1>a
    <3>. QED BY <3>1, <3>2
  <2>5. \A o : Coming(r, o)' <=> \E b \in 1..Len(q) : b >= i[r] + 1 /\ q[b].op = "create" /\ q[b].obj = o
    BY <1>1, <2>1 DEF Coming
  <2>6. \A o : Coming(r, o) => Coming(r, o)' \/ (s.op = "create" /\ s.obj = o)
    <3>. SUFFICES ASSUME NEW o, Coming(r, o) PROVE Coming(r, o)' \/ (s.op = "create" /\ s.obj = o)
      OBVIOUS
    <3>1. PICK b \in 1..Len(q) : b >= i[r] /\ q[b].op = "create" /\ q[b].obj = o
      BY DEF Coming
    <3>2. b = i[r] \/ b >= i[r] + 1
      BY <1>a, <3>1
    <3>. QED BY <2>5, <3>1, <3>2
  <2>7. \A o : s.op = "drop" /\ s.obj = o => Coming(r, o)'
    BY <2>4, <2>5
  <2>8. \A o \in Objects :
          shape'[o] = IF s.op = "create" /\ s.obj = o /\ shape[o] = "none" THEN s.shape
                      ELSE IF s.op = "drop" /\ s.obj = o THEN "none" ELSE shape[o]
    BY <1>0, <2>1, <2>3, ExecShape
  <2>9. s.op = "create" => s.shape # "none"
    BY <2>3, StatementKinds, SMTT(30) DEF Modern
  <2>10. ASSUME NEW o \in Objects, There(r, o) PROVE There(r, o)'
    BY <1>1, <2>1, <2>6, <2>7, <2>8, <2>9, <2>10 DEF There
  <2>11. BackInv'
    <3>1. s.op = "drop" => rows[s.obj] = {}
      BY <1>1, <2>3 DEF Inv, DropInv
    <3>. HIDE DEF s
    <3>. QED BY <1>0, <1>1, <2>1, <2>3, <3>1, ExecBack
  <2>12. LedgerAt(r)'
    BY <1>0, <1>1, <1>b, <2>1 DEF LedgerAt
  <2>13. pc[r] \in Building /\ pc'[r] = "stmts"
    BY <1>1, <2>1 DEF Building, AtMigration
  <2>14. \A o \in Contract : There(r, o)'
    BY <1>0, <2>10, <2>13, MGAssumption DEF ThereAt
  <2>15. ASSUME NEW j \in Settled(r), NEW t \in StmtsOf(Migs[j]), t.op = "create"
         PROVE  There(r, t.obj)'
    <3>1. PICK n \in 1..Len(Migs[j].stmts) : t = Migs[j].stmts[n]
      BY DEF StmtsOf
    <3>2. j \in 1..Len(Migs)
      BY DEF Settled
    <3>3. t.obj \in Objects
      BY <2>15, <3>1, <3>2, MigrationStatements, StatementKinds DEF Modern
    <3>. QED BY <1>0, <2>10, <2>13, <2>15, <3>3 DEF ThereAt
  <2>16. ASSUME NEW j \in Settled(r), Migs[j].version = Swap
         PROVE  shape'[Feedback] = "new" \/ (shape'[Feedback] = "none" /\ Coming(r, Feedback)')
    <3>1. shape[Feedback] = "new" \/ (shape[Feedback] = "none" /\ Coming(r, Feedback))
      BY <1>0, <2>13, <2>16 DEF ThereAt
    <3>2. s.op = "create" /\ s.obj = Feedback => s.shape = "new"
      BY <2>3 DEF Modern
    <3>. QED BY <1>0, <2>6, <2>7, <2>8, <3>1, <3>2
  <2>17. ThereAt(r)'
    BY <1>b, <2>13, <2>14, <2>15, <2>16 DEF ThereAt, Ledgering
  <2>18. HandAt(r)' /\ BackAt(r)'
    BY <1>0, <1>1, <2>1 DEF HandAt, BackAt, AtMigration, Swapping
  <2>. QED BY <2>11, <2>12, <2>17, <2>18, OneRunner
<1>. QED BY <1>2, <1>3

LEMMA RecordReady ==
    ASSUME Inv, ReadyInv, Alone, NEW r \in Runners, CheckPost(r) \/ RecordVersion(r)
    PROVE  ReadyInv'
<1>0. /\ TypeOK /\ BackInv /\ pc \in [Runners -> Labels] /\ k \in [Runners -> Nat]
      /\ ThereAt(r) /\ LedgerAt(r) /\ HandAt(r) /\ BackAt(r)
  BY DEF Inv, ReadyInv, TypeOK
<1>1. UNCHANGED <<shape, rows, applied, first>> /\ pc[r] \in {"post", "record"}
  BY DEF CheckPost, RecordVersion, dbVars
<1>a. k[r] \in 1..Len(Migs) /\ Len(Migs) \in Nat
  BY <1>1, LenNat DEF Inv, PosInv, TypeOK, AtMigration
<1>b. pc[r] \in Building \ {"stmts", "fbRecreate"}
  BY <1>1 DEF Building, AtMigration
<1>c. FirstFeedback' = FirstFeedback
  BY <1>1 DEF FirstFeedback
<1>2. CASE CheckPost(r)
  <2>1. /\ UNCHANGED <<k, ledger>> /\ pc[r] = "post"
        /\ pc'[r] = "failed" \/ (pc'[r] = "record" /\ Postcondition(Migs[k[r]]))
    BY <1>0, <1>2 DEF CheckPost, Goto, dbVars
  <2>2. BackInv'
    BY <1>0, <1>1, <2>1, SameBack
  <2>3. CASE pc'[r] = "failed"
    BY <2>2, <2>3, NotYet DEF Ledgering, Building, AtMigration
  <2>4. CASE pc'[r] = "record" /\ Postcondition(Migs[k[r]])
    <3>1. Settled(r)' = Settled(r)
      BY <1>1, <2>1 DEF Settled
    <3>2. LedgerAt(r)'
      BY <1>0, <1>1, <1>b, <2>1, <2>4, <3>1 DEF LedgerAt, Building
    <3>3. ThereAt(r)'
      BY <1>0, <1>1, <1>b, <2>4, <3>1, AllThere DEF ThereAt, There, Ledgering
    <3>4. HandAt(r)'
      BY <1>0, <1>1, <2>1, <2>4 DEF HandAt, AtMigration, Swapping, Postcondition
    <3>5. BackAt(r)'
      BY <1>0, <1>1, <1>c, <2>1 DEF BackAt
    <3>. QED BY <2>2, <3>2, <3>3, <3>4, <3>5, OneRunner
  <2>. QED BY <2>1, <2>3, <2>4
<1>3. CASE RecordVersion(r)
  <2>. DEFINE v == Migs[k[r]].version
  <2>1. ledger' = ledger \cup {v} /\ k'[r] = k[r] + 1 /\ pc'[r] = "pending" /\ pc[r] = "record"
    BY <1>0, <1>3 DEF RecordVersion, Goto
  <2>2. BackInv'
    BY <1>0, <1>1, <1>c, <2>1 DEF BackInv, BackAt
  <2>3. Settled(r)' = Settled(r) \cup {k[r]}
    <3>1. \A j \in 1..Len(Migs) : j < k'[r] <=> j < k[r] \/ j = k[r]
      BY <1>a, <2>1
    <3>. QED BY <1>1, <1>a, <3>1 DEF Settled
  <2>4. LedgerAt(r)'
    <3>1. /\ applied[r] \subseteq ledger
          /\ \A j \in Settled(r) : Migs[j].version \in ledger
          /\ \A w \in ledger : w \in applied[r] \/ \E j \in Settled(r) : Migs[j].version = w
      BY <1>0, <1>b DEF LedgerAt
    <3>2. /\ applied'[r] \subseteq ledger'
          /\ \A j \in Settled(r)' : Migs[j].version \in ledger'
      BY <1>1, <2>1, <2>3, <3>1
    <3>3. \A w \in ledger' : w \in applied'[r] \/ \E j \in Settled(r)' : Migs[j].version = w
      BY <1>1, <2>1, <2>3, <3>1
    <3>. QED BY <2>1, <3>2, <3>3 DEF LedgerAt
  <2>5. ThereAt(r)'
    <3>1. Postcondition(Migs[k[r]])
      BY <1>0, <2>1 DEF HandAt
    <3>2. /\ \A o \in Contract : shape[o] # "none"
          /\ \A j \in Settled(r)' : \A s \in StmtsOf(Migs[j]) : s.op = "create" => shape[s.obj] # "none"
          /\ \A j \in Settled(r)' : Migs[j].version = Swap => shape[Feedback] = "new"
      BY <1>0, <1>b, <2>3, <3>1, AllThere DEF Postcondition
    <3>. QED BY <1>1, <2>1, <3>2 DEF ThereAt, There, Ledgering
  <2>6. HandAt(r)' /\ BackAt(r)'
    BY <2>1 DEF HandAt, BackAt, AtMigration, Swapping
  <2>. QED BY <2>2, <2>4, <2>5, <2>6, OneRunner
<1>. QED BY <1>2, <1>3

(* While the swap runs it is not recorded. *)
LEMMA SwapUnrecorded ==
    ASSUME Inv, NEW r \in Runners, LedgerAt(r), HandAt(r), pc[r] \in Swapping
    PROVE  Swap \notin ledger /\ \A j \in Settled(r) : Migs[j].version # Swap
<1>1. pc[r] \in AtMigration /\ pc[r] \in Building
  BY DEF Swapping, AtMigration, Building
<1>2. k[r] \in 1..Len(Migs) /\ Migs[k[r]].version = Swap /\ Swap \notin applied[r]
  BY <1>1, LenNat DEF HandAt, Inv, PosInv, TypeOK
<1>3. ASSUME NEW j \in Settled(r) PROVE Migs[j].version # Swap
  <2>1. j \in 1..Len(Migs) /\ (j < k[r] \/ Migs[j].version \in applied[r])
    BY DEF Settled
  <2>2. CASE j < k[r]
    <3>1. Migs[j].version < Migs[k[r]].version
      BY <1>2, <2>1, <2>2, ScriptAssumption
    <3>2. Migs[j].version \in Nat /\ Migs[k[r]].version \in Nat
      BY <1>2, <2>1, LenNat
    <3>. QED BY <1>2, <3>1, <3>2
  <2>. QED BY <1>2, <2>1, <2>2
<1>. QED BY <1>1, <1>2, <1>3 DEF LedgerAt

(* A step of the swap keeps the rest: what is settled is neither table, or is
   on its way back. *)
LEMMA SwapKeeps ==
    ASSUME Inv, Inv', ReadyInv, Alone, NEW r \in Runners, pc[r] \in Swapping, RunnerOnly(r),
           pc'[r] \in Swapping \cup {"post"},
           \A o \in Objects \ {Staging} :
               shape[o] # "none" \/ (pc[r] = "fbRecreate" /\ o = Feedback) =>
                   shape'[o] # "none" \/ (pc'[r] = "fbRecreate" /\ o = Feedback),
           shape'[Staging] = "none" => rows'[Staging] = {},
           pc'[r] = "post" => rows'[Staging] = {}
    PROVE  ReadyInv'
<1>0. ThereAt(r) /\ LedgerAt(r) /\ HandAt(r)
  BY DEF ReadyInv
<1>1. UNCHANGED <<ledger, k, applied, first>>
  BY DEF RunnerOnly
<1>2. Swap \notin ledger /\ \A j \in Settled(r) : Migs[j].version # Swap
  BY <1>0, SwapUnrecorded
<1>3. pc[r] \in Building /\ pc'[r] \in Building /\ pc[r] # "stmts" /\ pc'[r] \in AtMigration
  BY DEF Swapping, Building, AtMigration
<1>4. Settled(r)' = Settled(r)
  BY <1>1 DEF Settled
<1>5. LedgerAt(r)'
  BY <1>0, <1>1, <1>3, <1>4 DEF LedgerAt, Swapping
<1>6. HandAt(r)'
  BY <1>0, <1>1 DEF HandAt, Swapping, AtMigration
<1>7. ASSUME NEW o \in Objects \ {Staging}, There(r, o) PROVE There(r, o)'
  BY <1>3, <1>7 DEF There, Coming
<1>8. \A o \in Contract : There(r, o)'
  BY <1>0, <1>3, <1>7, MGAssumption, ScriptAssumption DEF ThereAt
<1>9. ASSUME NEW j \in Settled(r), NEW t \in StmtsOf(Migs[j]), t.op = "create"
      PROVE  There(r, t.obj)'
  <2>1. PICK n \in 1..Len(Migs[j].stmts) : t = Migs[j].stmts[n]
    BY DEF StmtsOf
  <2>2. j \in 1..Len(Migs)
    BY DEF Settled
  <2>3. t.obj \in Objects
    BY <1>9, <2>1, <2>2, MigrationStatements, StatementKinds DEF Modern
  <2>4. t.obj # Staging
    BY <1>9, <2>2, ScriptAssumption
  <2>. QED BY <1>0, <1>3, <1>7, <1>9, <2>3, <2>4 DEF ThereAt
<1>10. ThereAt(r)'
  BY <1>2, <1>3, <1>4, <1>8, <1>9 DEF ThereAt, Ledgering, Swapping
<1>11. BackInv'
  BY <1>1, <1>2 DEF BackInv
<1>12. BackAt(r)'
  BY DEF BackAt, Inv, DataKept, Swapping
<1>. QED BY <1>5, <1>6, <1>10, <1>11, <1>12, OneRunner

LEMMA SwapReady ==
    ASSUME Inv, Inv', ReadyInv, Alone, NEW r \in Runners,
           \/ FbProbe(r) \/ FbCheck(r) \/ FbClear(r) \/ FbStaging(r)
           \/ FbStage(r) \/ FbDrop(r) \/ FbRecreate(r) \/ FbCopyBack(r) \/ FbDone(r)
    PROVE  ReadyInv'
<1>0. /\ TypeOK /\ BackInv /\ pc \in [Runners -> Labels] /\ shape \in [Objects -> Shapes]
      /\ rows \in [Objects -> SUBSET Rows]
      /\ Feedback \in Objects /\ Staging \in Objects /\ Feedback # Staging
  BY MGAssumption DEF Inv, ReadyInv, TypeOK
<1>1. RunnerOnly(r) /\ pc[r] \in Swapping
  BY DEF FbProbe, FbCheck, FbClear, FbStaging, FbStage, FbDrop, FbRecreate, FbCopyBack, FbDone,
         Swapping
<1>2. shape[Staging] = "none" => rows[Staging] = {}
  BY <1>0 DEF BackInv
<1>3. CASE FbProbe(r)
  <2>1. pc'[r] \in {"fbClear", "fbCheck"} /\ pc[r] = "fbProbe"
    BY <1>0, <1>3 DEF FbProbe, Goto
  <2>2. /\ rows' = rows
        /\ \A p \in Objects : shape'[p] = IF p = Feedback /\ shape[Feedback] = "none" THEN "new" ELSE shape[p]
    BY <1>0, <1>3, CreateEffect DEF FbProbe
  <2>. QED BY <1>0, <1>1, <1>2, <2>1, <2>2, SwapKeeps DEF Swapping
<1>4. CASE FbCheck(r)
  <2>1. /\ pc'[r] = "fbCopyBack" \/ (pc'[r] = "post" /\ shape[Staging] = "none")
        /\ pc[r] = "fbCheck" /\ UNCHANGED <<shape, rows>>
    BY <1>0, <1>4 DEF FbCheck, Goto
  <2>. QED BY <1>0, <1>1, <1>2, <2>1, SwapKeeps DEF Swapping
<1>5. CASE FbClear(r) \/ FbDone(r)
  <2>1. pc'[r] \in {"fbStaging", "post"} /\ pc[r] \in {"fbClear", "fbDone"}
    BY <1>0, <1>5 DEF FbClear, FbDone, Goto
  <2>2. \A p \in Objects : /\ shape'[p] = IF p = Staging THEN "none" ELSE shape[p]
                           /\ rows'[p] = IF p = Staging THEN {} ELSE rows[p]
    BY <1>0, <1>5, DropEffect DEF FbClear, FbDone
  <2>. QED BY <1>0, <1>1, <2>1, <2>2, SwapKeeps DEF Swapping
<1>6. CASE FbStaging(r)
  <2>1. pc'[r] = "fbStage" /\ pc[r] = "fbStaging"
    BY <1>0, <1>6 DEF FbStaging, Goto
  <2>2. /\ rows' = rows
        /\ \A p \in Objects : shape'[p] = IF p = Staging /\ shape[Staging] = "none" THEN "new" ELSE shape[p]
    BY <1>0, <1>6, CreateEffect DEF FbStaging
  <2>. QED BY <1>0, <1>1, <1>2, <2>1, <2>2, SwapKeeps DEF Swapping
<1>7. CASE FbDrop(r)
  <2>1. pc'[r] = "fbRecreate" /\ pc[r] = "fbDrop"
    BY <1>0, <1>7 DEF FbDrop, Goto
  <2>2. \A p \in Objects : /\ shape'[p] = IF p = Feedback THEN "none" ELSE shape[p]
                           /\ rows'[p] = IF p = Feedback THEN {} ELSE rows[p]
    BY <1>0, <1>7, DropEffect DEF FbDrop
  <2>. QED BY <1>0, <1>1, <1>2, <2>1, <2>2, SwapKeeps DEF Swapping
<1>8. CASE FbRecreate(r)
  <2>1. pc'[r] = "fbCopyBack" /\ pc[r] = "fbRecreate"
    BY <1>0, <1>8 DEF FbRecreate, Goto
  <2>2. /\ rows' = rows
        /\ \A p \in Objects : shape'[p] = IF p = Feedback /\ shape[Feedback] = "none" THEN "new" ELSE shape[p]
    BY <1>0, <1>8, CreateEffect DEF FbRecreate
  <2>. QED BY <1>0, <1>1, <1>2, <2>1, <2>2, SwapKeeps DEF Swapping
<1>9. CASE FbStage(r) \/ FbCopyBack(r)
  <2>1. /\ UNCHANGED shape /\ pc[r] \in {"fbStage", "fbCopyBack"}
        /\ pc'[r] \in {"failed", "fbDrop", "fbDone"} \/ pc' = pc
    BY <1>0, <1>9 DEF FbStage, FbCopyBack, Copy, Goto
  <2>2. shape[Staging] = "none" => rows' = rows
    BY <1>9 DEF FbStage, FbCopyBack, Copy
  <2>3. CASE pc'[r] = "failed"
    <3>1. Swap \notin ledger' /\ first' = first
      BY <1>1, SwapUnrecorded DEF ReadyInv, RunnerOnly
    <3>2. BackInv'
      BY <1>2, <2>1, <2>2, <3>1 DEF BackInv
    <3>. QED BY <2>3, <3>2, NotYet DEF Ledgering, Building, AtMigration
  <2>4. CASE pc'[r] \in {"fbDrop", "fbDone"} \/ pc' = pc
    <3>1. pc'[r] \in Swapping /\ pc'[r] # "post" /\ pc[r] # "fbRecreate"
      BY <2>1, <2>4 DEF Swapping
    <3>. QED BY <1>0, <1>1, <1>2, <2>1, <2>2, <3>1, SwapKeeps
  <2>. QED BY <2>1, <2>3, <2>4
<1>. QED BY <1>3, <1>4, <1>5, <1>6, <1>7, <1>8, <1>9

LEMMA ReadyInvariance ==
    ASSUME Alone
    PROVE  Spec => [](Inv /\ ReadyInv)
<1>1. Spec => []Inv
  BY Invariance
<1>2. Init => ReadyInv
  BY ReadyInit
<1>3. Inv /\ Inv' /\ ReadyInv /\ [Next]_vars => ReadyInv'
  <2>. SUFFICES ASSUME Inv, Inv', ReadyInv, [Next]_vars PROVE ReadyInv'
    OBVIOUS
  <2>1. CASE UNCHANGED vars
    BY <2>1 DEF vars, dbVars, runnerVars, ReadyInv, BackInv, LedgerAt, HandAt, ThereAt, BackAt,
                There, Coming, Settled, Postcondition, FirstFeedback
  <2>2. ASSUME NEW r \in Runners, Step(r) \/ Die(r) PROVE ReadyInv'
    BY <2>2, BootReady, LedgerReady, RepairReady, PendingReady, RefuseReady, StatementReady,
       RecordReady, SwapReady DEF Step
  <2>. QED BY <2>1, <2>2 DEF Next
<1>. QED BY <1>1, <1>2, <1>3, PTL DEF Spec

LEMMA ReadyIsComplete ==
    ASSUME Inv, ReadyInv, NEW r \in Runners, pc[r] = "ready"
    PROVE  Complete
<1>1. LedgerAt(r) /\ ThereAt(r) /\ BackInv /\ pc[r] \in Building \ {"stmts", "fbRecreate"}
  BY DEF ReadyInv, Building
<1>2. k[r] > Len(Migs) /\ k[r] \in Nat /\ Len(Migs) \in Nat
  BY <1>1, LenNat DEF LedgerAt, Inv, TypeOK
<1>3. \A j \in 1..Len(Migs) : j \in Settled(r)
  BY <1>2 DEF Settled
<1>4. \A j \in 1..Len(Migs) : Migs[j].version \in ledger
  BY <1>1, <1>3 DEF LedgerAt
<1>5. PICK j \in 1..Len(Migs) : Migs[j].version = Swap
  BY MGAssumption DEF Versions
<1>6. shape[Feedback] = "new"
  BY <1>1, <1>3, <1>5, AllThere
<1>7. FirstFeedback \subseteq rows[Feedback]
  BY <1>1, <1>4, <1>5 DEF BackInv
<1>. QED BY <1>1, <1>3, <1>4, <1>6, <1>7, AllThere DEF Complete

(* A start that returned Ok has the whole schema: for every install, also one
   that lost tables or rows of the ledger, all scripts and any number of deaths,
   when one process migrates and its probes answer, no table of the bootstrap and
   no object of a migration is missing, every version is recorded and the
   feedback is back in a table that takes uuids. *)
THEOREM ReadyIsWhole ==
    ASSUME ProbeFails = FALSE, \A r, s \in Runners : r = s
    PROVE  Spec => []ReadySchema
<1>1. Spec => [](Inv /\ ReadyInv)
  BY ReadyInvariance DEF Alone
<1>2. Inv /\ ReadyInv => ReadySchema
  BY ReadyIsComplete DEF ReadySchema
<1>. QED BY <1>1, <1>2, PTL

=============================================================================
