-------------------------------- MODULE Forget --------------------------------
(***************************************************************************)
(* Candidate-confirmed forgetting: propose -> confirm -> forget, restore,  *)
(* and the maintenance job that purges expired retractions and replays     *)
(* journal rows a crash left in progress.                                  *)
(*                                                                         *)
(* One forget touches five stores (graph, entity_store, confidence,        *)
(* temporal, derived cache) plus the retraction and journal tables, with   *)
(* no transaction around them.  Every storage call is one step of this     *)
(* module; a process may stop between any two of them, because it died or  *)
(* because the call returned an error.  Servers handle requests (forget,   *)
(* restore_forgotten, promote_memory, demote_memory), Jobs are runs of the *)
(* decay-forget batch job, a different process on the same database.       *)
(***************************************************************************)
EXTENDS Naturals, Sequences, FiniteSets

CONSTANTS
    Servers,      \* request handlers of the MCP server
    Jobs,         \* processes that run the decay-forget job
    Entities,     \* entities of the one tenant that is modelled
    NoEnt,        \* no entity yet
    Tenant,       \* that tenant
    JobTenant,    \* tenant_id purge and recovery are called with
    JobGraph,     \* and whether their storage has a GraphClient
    Overlap,      \* requests, jobs and the clock interleave
    Lifecycle,    \* promote_memory and demote_memory are called
    HighImpact,   \* high_impact_edge_threshold, in kinds of edges
    TokenTtl,     \* token_ttl_seconds
    PurgeDays,    \* retract_purge_days
    MaxTime,      \* bound: last value of the clock
    MaxForgets,   \* bound: confirmed forgets
    MaxTokens,    \* bound: proposals
    MaxSelect,    \* bound: length of selected_ids
    MaxEdits,     \* bound: content changes of one entity
    MaxFaults     \* bound: crashes and failed storage calls

ASSUME ForgetAssumption ==
    /\ Servers \cap Jobs = {} /\ NoEnt \notin Entities
    /\ JobGraph \in BOOLEAN /\ Overlap \in BOOLEAN /\ Lifecycle \in BOOLEAN
    /\ HighImpact \in Nat /\ TokenTtl \in Nat /\ PurgeDays \in Nat
    /\ MaxTime \in Nat /\ MaxForgets \in Nat /\ MaxTokens \in Nat
    /\ MaxSelect \in Nat /\ MaxEdits \in Nat /\ MaxFaults \in Nat

VARIABLES
    now,
    row,        \* entity_store: "full", "none", or "ghost" (key and state only)
    state,      \* its state column
    content,    \* what entity_content_hash covers, as a version number
    edges,      \* kinds of edges at the entity: typed "out" and "in", "legacy"
    derived,    \* tables with rows about the entity
    records,    \* retraction table
    journal,    \* forget_journal, one row per forget id
    forgets,    \* forget ids given out
    negative,   \* entities with the authority of a forgotten one
    tokens,     \* proposals handed out
    torn,       \* history: the forget that began to dispose of e, 0 when done
    faults,     \* history: stops so far
    task        \* what each process is doing

store == <<row, state, content, edges, derived, records, negative>>
vars  == <<now, store, journal, forgets, tokens, torn, faults, task>>

Procs  == Servers \cup Jobs
States == {"active", "dormant", "silent", "unavailable"}
Modes  == {"retract", "hard"}
EdgeKinds == {"out", "in", "legacy"}
DerivedTables == {"confidence", "temporal", "cache"}

Retrievable(st) == st # "unavailable"

(* entity_get_by_id finds the row only when its required columns are there *)
Exists(e) == row[e] = "full"

RecordsOf(e) == {r \in records : r.ent = e}

(* clustering order retracted_at DESC, LIMIT 1 *)
IsLatest(r) == \A q \in RecordsOf(r.ent) : q.at <= r.at

Selections == UNION {[1..n -> Entities] : n \in 1..MaxSelect}

-----------------------------------------------------------------------------
(* The locals of a running operation. *)
NoEntry == [ent |-> NoEnt, mode |-> "retract", status |-> "absent"]

Idle == [pc |-> "idle", op |-> "none", ids |-> <<>>, hash |-> [e \in {} |-> 0], ack |-> FALSE,
         mode |-> "retract", fid |-> 0, at |-> 0, ent |-> NoEnt, prior |-> "active",
         val |-> "active", todo |-> {}, ok |-> FALSE, bad |-> FALSE]

Pc(p, label) == task[p].pc = label

Goto(p, label) == task' = [task EXCEPT ![p] = [task[p] EXCEPT !.pc = label]]

Return(p) == task' = [task EXCEPT ![p] = Idle]

(* Without Overlap an operation runs, or stops, before anything else moves. *)
MayStart == Overlap \/ \A p \in Procs : Pc(p, "idle")

Free(p) == Pc(p, "idle") /\ MayStart

Graph(p) == p \in Servers \/ JobGraph

Init ==
    /\ now = 0
    /\ row = [e \in Entities |-> "full"]
    /\ state \in [Entities -> {"active", "dormant"}]
    /\ content = [e \in Entities |-> 0]
    /\ edges = [e \in Entities |-> EdgeKinds]
    /\ derived = [e \in Entities |-> DerivedTables]
    /\ records = {}
    /\ journal = [f \in 1..MaxForgets |-> NoEntry]
    /\ forgets = 0
    /\ negative = {}
    /\ tokens = {}
    /\ torn = [e \in Entities |-> 0]
    /\ faults = 0
    /\ task = [p \in Procs |-> Idle]
-----------------------------------------------------------------------------
(* propose: search and hash, nothing is written.  The search returns       *)
(* retrievable entities only.                                              *)
Propose ==
    /\ Cardinality(tokens) < MaxTokens
    /\ MayStart
    /\ \E S \in SUBSET {e \in Entities : Exists(e) /\ Retrievable(state[e])} :
         /\ S # {}
         /\ tokens' = tokens \cup {[hash |-> [e \in S |-> content[e]], created |-> now]}
    /\ UNCHANGED <<now, store, journal, forgets, torn, faults, task>>

(* decode and the subset check; now is read once and used throughout. *)
ConfirmTask(t, ids, m, ack) ==
    [Idle EXCEPT !.pc = "guard", !.op = "confirm", !.ids = ids, !.hash = t.hash,
                 !.ack = ack, !.mode = m, !.fid = forgets + 1, !.at = now]

Confirm(p) ==
    /\ Free(p)
    /\ forgets < MaxForgets
    /\ \E t \in tokens, ids \in Selections, m \in Modes, ack \in BOOLEAN :
         /\ now - t.created <= TokenTtl
         /\ \A i \in DOMAIN ids : ids[i] \in DOMAIN t.hash
         /\ task' = [task EXCEPT ![p] = ConfirmTask(t, ids, m, ack)]
    /\ forgets' = forgets + 1
    /\ UNCHANGED <<now, store, journal, tokens, torn, faults>>

(* The loop over selected_ids: skip what changed or needs acknowledgement. *)
Passes(p, e) ==
    /\ Exists(e)
    /\ content[e] = task[p].hash[e]
    /\ Cardinality(edges[e]) >= HighImpact => task[p].ack

SkipTask(t)   == [t EXCEPT !.ids = Tail(t.ids)]
SelectTask(t) == [t EXCEPT !.pc = "journal", !.ent = Head(t.ids), !.ids = Tail(t.ids)]

Guard(p) ==
    /\ Pc(p, "guard")
    /\ LET t == task[p] IN
         IF t.ids = <<>>
         THEN Goto(p, "audit")
         ELSE task' = [task EXCEPT ![p] =
                IF Passes(p, Head(t.ids)) THEN SelectTask(t) ELSE SkipTask(t)]
    /\ UNCHANGED <<now, store, journal, forgets, tokens, torn, faults>>

(* Mutant: one journal row per forget, written for the first id only. *)
JournalPutOnce(p) ==
    /\ Pc(p, "journal")
    /\ journal' = [journal EXCEPT ![task[p].fid] =
         IF @.status # "absent" THEN @
         ELSE [ent |-> task[p].ent, mode |-> task[p].mode, status |-> "in_progress"]]
    /\ Goto(p, "out")
    /\ UNCHANGED <<now, store, forgets, tokens, torn, faults>>

(* forget_journal_put: the key is (created_at, forget_id), the same for all *)
(* selected ids, so the row of the previous id is overwritten.              *)
JournalPut(p) ==
    /\ Pc(p, "journal")
    /\ journal' = [journal EXCEPT ![task[p].fid] =
         [ent |-> task[p].ent, mode |-> task[p].mode, status |-> "in_progress"]]
    /\ Goto(p, "out")
    /\ UNCHANGED <<now, store, forgets, tokens, torn, faults>>

-----------------------------------------------------------------------------
(* teardown_typed_edges: outbound, then inbound.  Storage without a graph   *)
(* client cannot delete an edge it found.                                   *)
AfterTeardown(m) == IF m = "hard" THEN "node" ELSE "read"

Teardown(p, dir, next) ==
    /\ Pc(p, dir)
    /\ Graph(p) \/ dir \notin edges[task[p].ent]
    /\ edges' = [edges EXCEPT ![task[p].ent] = @ \ {dir}]
    /\ torn' = [torn EXCEPT ![task[p].ent] = task[p].fid]
    /\ Goto(p, next)
    /\ UNCHANGED <<now, row, state, content, derived, records, negative, journal,
                   forgets, tokens, faults>>

TeardownOut(p) == Teardown(p, "out", "in")
TeardownIn(p)  == Teardown(p, "in", AfterTeardown(task[p].mode))

TeardownFails(p) ==
    /\ \E dir \in {"out", "in"} : Pc(p, dir) /\ dir \in edges[task[p].ent]
    /\ ~Graph(p)
    /\ Return(p)
    /\ UNCHANGED <<now, store, journal, forgets, tokens, torn, faults>>

Promoted(st) == CASE st = "unavailable" -> "silent"
                  [] st = "silent"      -> "dormant"
                  [] OTHER              -> "active"
Demoted(st)  == CASE st = "active"  -> "dormant"
                  [] st = "dormant" -> "silent"
                  [] OTHER          -> "unavailable"

NewState(op, st) == CASE op = "promote" -> Promoted(st)
                      [] op = "demote"  -> Demoted(st)
                      [] OTHER          -> "unavailable"

ReadTask(t, st, v) == [t EXCEPT !.pc = "find", !.prior = st, !.val = v]

(* The read by id of retract_entity, promote_memory and demote_memory. *)
ReadState(p) ==
    /\ Pc(p, "read")
    /\ LET t == task[p]
           v == NewState(t.op, state[t.ent])
       IN IF ~Exists(t.ent) \/ (t.op \in {"promote", "demote"} /\ v = state[t.ent])
          THEN Return(p)
          ELSE task' = [task EXCEPT ![p] = ReadTask(t, state[t.ent], v)]
    /\ UNCHANGED <<now, store, journal, forgets, tokens, torn, faults>>

(* entity_update_state: SELECT session_id, then an UPDATE, which in CQL     *)
(* inserts the key when the row has gone meanwhile.                         *)
FindRow(p) ==
    /\ Pc(p, "find")
    /\ IF row[task[p].ent] = "none" THEN Return(p) ELSE Goto(p, "set")
    /\ UNCHANGED <<now, store, journal, forgets, tokens, torn, faults>>

AfterSet(op) == CASE op \in {"confirm", "recover"} -> "record"
                  [] op = "restore"                -> "unrecord"
                  [] OTHER                         -> "return"

SetState(p) ==
    /\ Pc(p, "set")
    /\ LET t == task[p] IN
         /\ state' = [state EXCEPT ![t.ent] = t.val]
         /\ row' = [row EXCEPT ![t.ent] = IF @ = "none" THEN "ghost" ELSE @]
         /\ IF AfterSet(t.op) = "return" THEN Return(p) ELSE Goto(p, AfterSet(t.op))
    /\ UNCHANGED <<now, content, edges, derived, records, negative, journal, forgets,
                   tokens, torn, faults>>

(* retraction_put: the key is (object_id, retracted_at). *)
PutRecord(p) ==
    /\ Pc(p, "record")
    /\ LET t == task[p] IN
         records' = {r \in records : ~(r.ent = t.ent /\ r.at = t.at)}
                      \cup {[ent |-> t.ent, at |-> t.at, prior |-> t.prior,
                             until |-> t.at + PurgeDays]}
    /\ Goto(p, "confidence")
    /\ UNCHANGED <<now, row, state, content, edges, derived, negative, journal, forgets,
                   tokens, torn, faults>>

(* hard_delete_entity: DETACH DELETE of the node, then the row. *)
DeleteNode(p) ==
    /\ Pc(p, "node")
    /\ edges' = [edges EXCEPT ![task[p].ent] = IF Graph(p) THEN {} ELSE @]
    /\ torn' = IF task[p].op = "purge" THEN torn
               ELSE [torn EXCEPT ![task[p].ent] = task[p].fid]
    /\ Goto(p, "row")
    /\ UNCHANGED <<now, row, state, content, derived, records, negative, journal,
                   forgets, tokens, faults>>

DeleteRow(p) ==
    /\ Pc(p, "row")
    /\ row' = [row EXCEPT ![task[p].ent] = IF @ = "full" THEN "none" ELSE @]
    /\ Goto(p, "confidence")
    /\ UNCHANGED <<now, state, content, edges, derived, records, negative, journal,
                   forgets, tokens, torn, faults>>

(* invalidate_derived, and the same three calls of hard_delete_entity. *)
AfterDerived(op) == IF op = "purge" THEN "unrecord" ELSE "done"

DeleteDerived(p, table, next) ==
    /\ Pc(p, table)
    /\ derived' = [derived EXCEPT ![task[p].ent] = @ \ {table}]
    /\ Goto(p, next)
    /\ UNCHANGED <<now, row, state, content, edges, records, negative, journal, forgets,
                   tokens, torn, faults>>

(* Mutant: the derived cache is not invalidated. *)
InvalidateNoCache(p) ==
    \/ DeleteDerived(p, "confidence", "temporal")
    \/ DeleteDerived(p, "temporal", AfterDerived(task[p].op))

Invalidate(p) ==
    \/ DeleteDerived(p, "confidence", "temporal")
    \/ DeleteDerived(p, "temporal", "cache")
    \/ DeleteDerived(p, "cache", AfterDerived(task[p].op))

-----------------------------------------------------------------------------
(* forget_journal_update_status(completed), then the next id or entry. *)
DoneTask(t) == IF t.op = "confirm"
               THEN [t EXCEPT !.pc = "guard", !.todo = @ \cup {t.ent}]
               ELSE [t EXCEPT !.pc = "recover"]

JournalDone(p) ==
    /\ Pc(p, "done")
    /\ LET t == task[p] IN
         /\ journal' = [journal EXCEPT ![t.fid] = [@ EXCEPT !.status = "completed"]]
         /\ torn' = [e \in Entities |-> IF e = t.ent /\ torn[e] = t.fid THEN 0 ELSE torn[e]]
         /\ task' = [task EXCEPT ![p] = DoneTask(t)]
    /\ UNCHANGED <<now, store, forgets, tokens, faults>>

(* audit_put, then apply_forget_authority for what was forgotten. *)
Audit(p) ==
    /\ Pc(p, "audit")
    /\ Goto(p, "authority")
    /\ UNCHANGED <<now, store, journal, forgets, tokens, torn, faults>>

Authority(p) ==
    /\ Pc(p, "authority")
    /\ negative' = negative \cup task[p].todo
    /\ Return(p)
    /\ UNCHANGED <<now, row, state, content, edges, derived, records, journal, forgets,
                   tokens, torn, faults>>

-----------------------------------------------------------------------------
(* restore_entity: latest record, state back to prior_state, record away. *)
RestoreTask(r) ==
    [Idle EXCEPT !.pc = "find", !.op = "restore", !.ent = r.ent, !.val = r.prior, !.at = r.at]

Restore(p) ==
    /\ Free(p)
    /\ \E r \in records :
         /\ IsLatest(r)
         /\ task' = [task EXCEPT ![p] = RestoreTask(r)]
    /\ UNCHANGED <<now, store, journal, forgets, tokens, torn, faults>>

PurgedTask(t) == [t EXCEPT !.pc = "purge", !.ok = TRUE]

DeleteRecord(p) ==
    /\ Pc(p, "unrecord")
    /\ LET t == task[p] IN
         /\ records' = {r \in records : ~(r.ent = t.ent /\ r.at = t.at)}
         /\ IF t.op = "restore" THEN Return(p)
            ELSE task' = [task EXCEPT ![p] = PurgedTask(t)]
    /\ UNCHANGED <<now, row, state, content, edges, derived, negative, journal, forgets,
                   tokens, torn, faults>>

(* promote_memory and demote_memory. *)
ShiftTask(e, o) == [Idle EXCEPT !.pc = "read", !.op = o, !.ent = e]

Shift(p) ==
    /\ Lifecycle
    /\ Free(p)
    /\ \E e \in Entities, o \in {"promote", "demote"} :
         task' = [task EXCEPT ![p] = ShiftTask(e, o)]
    /\ UNCHANGED <<now, store, journal, forgets, tokens, torn, faults>>

(* Another tool rewrites what the content hash covers. *)
Edit(e) ==
    /\ Exists(e) /\ content[e] < MaxEdits
    /\ MayStart
    /\ content' = [content EXCEPT ![e] = @ + 1]
    /\ UNCHANGED <<now, row, state, edges, derived, records, negative, journal, forgets,
                   tokens, torn, faults, task>>

-----------------------------------------------------------------------------
(* run_decay_and_forget: purge_expired_retractions lists once, then works   *)
(* through the list; an empty list is what another tenant's context gives,  *)
(* and the job makes up a new tenant_id for each run.  JobTenant = Tenant   *)
(* is the purge and the recovery as their unit tests call them.             *)
Visible(S) == IF JobTenant = Tenant THEN S ELSE {}

SweepTask(S) == [Idle EXCEPT !.pc = "purge", !.op = "purge", !.todo = S]

JobStart(p) ==
    /\ Free(p)
    /\ task' = [task EXCEPT ![p] = SweepTask(Visible({r \in records : r.until < now}))]
    /\ UNCHANGED <<now, store, journal, forgets, tokens, torn, faults>>

PurgeTask(t, r) == [t EXCEPT !.pc = "node", !.ent = r.ent, !.at = r.at, !.todo = @ \ {r}]

PurgeOne(p) ==
    /\ Pc(p, "purge")
    /\ \E r \in task[p].todo : task' = [task EXCEPT ![p] = PurgeTask(task[p], r)]
    /\ UNCHANGED <<now, store, journal, forgets, tokens, torn, faults>>

(* A failed record is logged and the sweep goes on. *)
FailedTask(t) == [t EXCEPT !.pc = "purge", !.bad = TRUE]

PurgeFails(p) ==
    /\ task[p].op = "purge"
    /\ task[p].pc \notin {"purge", "idle"}
    /\ faults < MaxFaults
    /\ faults' = faults + 1
    /\ task' = [task EXCEPT ![p] = FailedTask(task[p])]
    /\ UNCHANGED <<now, store, journal, forgets, tokens, torn>>

(* Nothing purged although there was work: an error, and recovery is not    *)
(* reached.  Otherwise recover_unfinished_forgets lists the journal; its    *)
(* restore windows start now.                                               *)
Replay(f) == [fid |-> f, ent |-> journal[f].ent, mode |-> journal[f].mode]

Unfinished == {Replay(f) : f \in {g \in 1..MaxForgets : journal[g].status = "in_progress"}}

RecoverTask(S) == [Idle EXCEPT !.pc = "recover", !.op = "recover", !.at = now, !.todo = S]

PurgeEnds(p) ==
    /\ Pc(p, "purge")
    /\ task[p].todo = {}
    /\ IF task[p].bad /\ ~task[p].ok
       THEN Return(p)
       ELSE task' = [task EXCEPT ![p] = RecoverTask(Visible(Unfinished))]
    /\ UNCHANGED <<now, store, journal, forgets, tokens, torn, faults>>

(* Mutant: recovery goes straight to the entity. *)
RecoverFromEntity(m, e) ==
    CASE ~Exists(e)                               -> "done"
      [] m = "retract" /\ RecordsOf(e) # {}       -> "done"
      [] Exists(e) /\ m = "retract" /\ RecordsOf(e) = {} -> "read"
      [] OTHER                                    -> "node"

(* Mutant: an entity that is hidden is taken for retracted. *)
RecoverFromHidden(m, e) ==
    CASE ~Exists(e)                               -> "done"
      [] Exists(e) /\ m = "retract" /\ ~Retrievable(state[e]) -> "done"
      [] Exists(e) /\ m = "retract" /\ Retrievable(state[e])  -> "out"
      [] OTHER                                    -> "node"

(* recover_entity_target: what is already disposed of is skipped. *)
RecoverFrom(m, e) ==
    CASE ~Exists(e)                               -> "done"
      [] m = "retract" /\ RecordsOf(e) # {}       -> "done"
      [] Exists(e) /\ m = "retract" /\ RecordsOf(e) = {} -> "out"
      [] OTHER                                    -> "node"

ReplayTask(t, j) ==
    [t EXCEPT !.pc = RecoverFrom(j.mode, j.ent), !.ent = j.ent, !.fid = j.fid,
              !.mode = j.mode, !.todo = @ \ {j}]

RecoverOne(p) ==
    /\ Pc(p, "recover")
    /\ \E j \in task[p].todo : task' = [task EXCEPT ![p] = ReplayTask(task[p], j)]
    /\ UNCHANGED <<now, store, journal, forgets, tokens, torn, faults>>

RecoverEnds(p) ==
    /\ Pc(p, "recover")
    /\ task[p].todo = {}
    /\ Return(p)
    /\ UNCHANGED <<now, store, journal, forgets, tokens, torn, faults>>

-----------------------------------------------------------------------------
(* The process dies, or the storage call returns an error that ? passes on. *)
Stop(p) ==
    /\ ~Pc(p, "idle")
    /\ faults < MaxFaults
    /\ faults' = faults + 1
    /\ Return(p)
    /\ UNCHANGED <<now, store, journal, forgets, tokens, torn>>

Tick ==
    /\ MayStart
    /\ now < MaxTime
    /\ now' = now + 1
    /\ UNCHANGED <<store, journal, forgets, tokens, torn, faults, task>>

(* The steps of one forget, shared by confirm, recovery and purge. *)
Dispose(p) ==
    \/ TeardownOut(p) \/ TeardownIn(p) \/ TeardownFails(p)
    \/ ReadState(p) \/ FindRow(p) \/ SetState(p) \/ PutRecord(p)
    \/ DeleteNode(p) \/ DeleteRow(p) \/ Invalidate(p)
    \/ JournalDone(p) \/ DeleteRecord(p)

ServerStep(p) == Guard(p) \/ JournalPut(p) \/ Audit(p) \/ Authority(p) \/ Dispose(p)

JobStep(p) == \/ JobStart(p) \/ PurgeOne(p) \/ PurgeEnds(p)
              \/ RecoverOne(p) \/ RecoverEnds(p) \/ Dispose(p)

Request(p) == Confirm(p) \/ Restore(p) \/ Shift(p)

Next ==
    \/ Propose
    \/ \E e \in Entities : Edit(e)
    \/ \E p \in Servers : Request(p) \/ ServerStep(p)
    \/ \E p \in Jobs : JobStep(p) \/ PurgeFails(p)
    \/ \E p \in Procs : Stop(p)
    \/ Tick

Spec == Init /\ [][Next]_vars

(* A request that was accepted is worked on, and the job is scheduled again *)
(* and again (the batch schedule runs nightly).                             *)
FairSpec ==
    /\ Spec
    /\ \A p \in Servers : WF_vars(ServerStep(p))
    /\ \A p \in Jobs : WF_vars(JobStep(p))

-----------------------------------------------------------------------------
TaskPcs == {"idle", "guard", "journal", "out", "in", "read", "find", "set", "record",
            "node", "row", "done", "audit", "authority", "unrecord", "purge", "recover"}
              \cup DerivedTables

TaskOps == {"none", "confirm", "restore", "promote", "demote", "purge", "recover"}

Hashes == UNION {[S -> 0..MaxEdits] : S \in SUBSET Entities}

Records == [ent: Entities, at: Nat, prior: States, until: Nat]

Entries == [ent: Entities \cup {NoEnt}, mode: Modes,
            status: {"absent", "in_progress", "completed"}]

Replays == [fid: 1..MaxForgets, ent: Entities, mode: Modes]

Tasks == [pc: TaskPcs, op: TaskOps, ids: Seq(Entities), hash: Hashes, ack: BOOLEAN,
          mode: Modes, fid: 0..MaxForgets, at: Nat, ent: Entities \cup {NoEnt},
          prior: States, val: States, todo: SUBSET (Records \cup Replays \cup Entities),
          ok: BOOLEAN, bad: BOOLEAN]

(* Program points at which no entity is being worked on. *)
Between == {"idle", "guard", "audit", "authority", "purge", "recover"}

(* The operations that pass through a program point. *)
OpsAt(l) ==
    CASE l = "idle"                                        -> {"none"}
      [] l \in {"guard", "journal", "audit", "authority"}  -> {"confirm"}
      [] l \in {"out", "in", "record", "done"}             -> {"confirm", "recover"}
      [] l \in {"read"}               -> {"confirm", "recover", "promote", "demote"}
      [] l \in {"find", "set"}        -> {"confirm", "recover", "promote", "demote", "restore"}
      [] l \in {"node", "row"} \cup DerivedTables          -> {"confirm", "recover", "purge"}
      [] l = "unrecord"                                    -> {"restore", "purge"}
      [] l = "purge"                                       -> {"purge"}
      [] OTHER                                             -> {"recover"}

(* What a task keeps in todo: ids it forgot, records to purge, entries to replay. *)
TodoType(o) == CASE o = "purge"   -> Records
                 [] o = "recover" -> Replays
                 [] OTHER         -> Entities

WellFormed(t) ==
    /\ t \in Tasks
    /\ t.op \in OpsAt(t.pc)
    /\ t.todo \subseteq TodoType(t.op)
    /\ t.pc \notin Between => t.ent \in Entities

StoreType ==
    /\ now \in Nat /\ forgets \in 0..MaxForgets /\ faults \in Nat
    /\ row \in [Entities -> {"full", "none", "ghost"}]
    /\ state \in [Entities -> States]
    /\ content \in [Entities -> 0..MaxEdits]
    /\ edges \in [Entities -> SUBSET EdgeKinds]
    /\ derived \in [Entities -> SUBSET DerivedTables]
    /\ records \subseteq Records
    /\ journal \in [1..MaxForgets -> Entries]
    /\ negative \subseteq Entities
    /\ tokens \subseteq [hash: Hashes, created: Nat]
    /\ torn \in [Entities -> 0..MaxForgets]

(* Types of the tables and of the running operations. *)
TypeOK ==
    /\ StoreType
    /\ task \in [Procs -> Tasks]
    /\ \A p \in Procs : WellFormed(task[p])
    /\ \A f \in 1..MaxForgets : journal[f].status = "in_progress" => journal[f].ent \in Entities
    /\ \A r, q \in records : (r.ent = q.ent /\ r.at = q.at) => r = q

(* Write-ahead: whatever a forget has begun to dispose of and not reported  *)
(* done is named by its own journal row, and that row is still listed as    *)
(* unfinished, so recovery will find it.  The rows of the ids of one        *)
(* confirm overwrite each other and recovery completes rows too.            *)
UnfinishedIsListed ==
    \A e \in Entities : torn[e] # 0 =>
        /\ journal[torn[e]].status = "in_progress"
        /\ journal[torn[e]].ent = e

(* A confirm that reports an id as forgotten leaves nothing of it behind,   *)
(* also when earlier attempts on it stopped half-way: no typed edge, no     *)
(* derived row, and the entity gone (hard) or hidden with a record          *)
(* (retract).                                                               *)
Forgotten(m, e) ==
    /\ edges[e] \cap {"out", "in"} = {}
    /\ derived[e] = {}
    /\ IF m = "hard" THEN row[e] # "full" /\ edges[e] = {}
       ELSE row[e] = "full" => state[e] = "unavailable" /\ RecordsOf(e) # {}

ConfirmIsComplete ==
    [][\A p \in Servers : JournalDone(p) => Forgotten(task[p].mode, task[p].ent)]_vars

(* recover_unfinished_forgets, called with the tenant's own context, takes  *)
(* an entity for disposed of from what a crash left of it.  Whatever it     *)
(* reports as recovered, also what it skips, is out of the graph: the row   *)
(* is gone, or (retract) no typed edge is left and a retraction record      *)
(* stands, so that a crash between hiding the entity and writing that       *)
(* record never passes for a finished forget.  What the record says of the  *)
(* prior state, and the derived rows, are not part of this.                 *)
Disposed(m, e) ==
    Exists(e) => m = "retract" /\ RecordsOf(e) # {} /\ edges[e] \cap {"out", "in"} = {}

RecoveredIsDisposed ==
    [][\A p \in Jobs : JournalDone(p) => Disposed(task[p].mode, task[p].ent)]_vars

(* Typed edges are torn down before the entity is hidden: an entity with a  *)
(* retraction record, written by confirm or by recovery, has no typed edge. *)
RecordImpliesTorn ==
    \A e \in Entities : RecordsOf(e) # {} => edges[e] \cap {"out", "in"} = {}

(* "Replay any forget operations left in_progress by a crash mid-forget so  *)
(* the system converges" (run_decay_and_forget): every forget a crash left  *)
(* unfinished is eventually completed by a later run of the job.            *)
JournalConverges ==
    \A f \in 1..MaxForgets : journal[f].status = "in_progress" ~> journal[f].status = "completed"
=============================================================================
