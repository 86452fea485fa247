# A TLA+ verification of ferrosa-memory

ferrosa-memory is a memory server for agents: an MCP server in Rust over a
Cassandra-compatible store and a graph store, with batch jobs, a peer-to-peer
tool that sends sealed packs of memory to a contact, and a control listener for
a phone. Several replicas of the server run against one cluster; there are no
transactions over more than one row, so most of what has to be right is right
because of the order of single statements, of lightweight transactions (LWT,
`... IF ...`), and of what is replayed after a crash.

This directory holds TLA+ models of the parts in which that order matters, the
TLC configurations that check them, and TLAPS proofs of their main properties.

Names in `code font` are definitions of the modules or of the source; paths are
relative to the repository (`core` = `crates/ferrosa-memory-core/src`, `sync` =
`crates/ferrosa-memory-sync/src`, `mcp` = `crates/ferrosa-memory-mcp/src`, `batch`
= `crates/ferrosa-memory-batch/src`).

## 1. The system's parts

"Hard" names what a test hardly reaches. Status: **M** modelled, **P** partly
modelled, **next** planned (section 8), **-** not planned, with the reason.

| Part (source) | State | Operations | Interacts with | Hard | What makes it correct | Status |
|---|---|---|---|---|---|---|
| Consolidation lease queue (`core/cql_storage.rs`, `mcp/main.rs`, `core/dispatch.rs`) | `consolidation_requests`, `consolidation_runs`; the locals of each replica's worker | upsert, stream pending and expired, claim, renew, complete, run log | write tools insert; every replica's worker claims; `dream` does the work | interleaved replicas, clocks that differ, crashes, lost LWT replies, expiry | each claim counted once; a lease is only taken after it expired; finished once, by its owner; a request gets finished | **M** |
| Forget workflow (`core/forget.rs`, `core/entity.rs`, `batch/main.rs`) | entity rows and states, typed edges, derived rows, `retraction`, `forget_journal`, tokens | propose, confirm, restore, promote, demote, purge, recover | server and nightly job on one database; graph store | a stop between any two of ten calls, replay of what is under way, stale lists, stale content | confirmed means complete; what is half done is journalled; edges go before the entity is hidden; restore undoes | **P** |
| Pack transfer (`sync/peer_session.rs`, `peer_transport*.rs`, `learner_ingest.rs`, `peer_cli.rs`, p2p commands of `sync/main.rs`) | two drivers, message handler, channel, the learner's directory with `versions.json` | offer, accept, hello, ready, chunks, apply, acknowledge | broker; two processes; concurrent receives share the directory | frames in flight at close, deaths, timeouts, replays, overlapping applies | a success is true on both sides, no byte before binding, no version goes back, nobody hangs | **P** |
| Control command plane (`core/control_store.rs`, `sync/control_session.rs`, `control_frame.rs`, `codex_runtime.rs`, `listener.rs`) | cursor row, event log, command rows, note sequences, the tmux pane of the agent | reserve cursors, append, replay, insert / update command, launch, wait, capture, note open / append / commit, session audit | phones, agent, several sessions on one store | LWT with unknown outcome, process dying between store and launch, repeated frames, a page read while cursors are reserved | cursors are given once; a command runs at most once; no task waits forever; log and row agree; no batch passes an event over | **P** |
| Knowledge lifecycle (`core/knowledge.rs`, `core/bin/session-claims.rs`, `sync/knowledge_view.rs`) | item and version rows, queue rows by state and by expiry | propose, decide, file the claims of a session, page, claims view | reviewers on phones, the end-of-session hook | unindex, write, index are separate statements; the hook walks queues that decisions change | an item is in the queues of its state and no other; a deliverable is filed once; the claims view shows what awaits a person | **P** |
| Schema migrations (`core/migration*.rs`) | `schema_version`, the schema, staging tables | bootstrap, resume, repair, apply, copy and swap, backfill | whatever install is found; replicas that start together | a death between any two of a hundred statements, a ledger that is ahead of the schema | no row lost, a successful start has the whole schema, every restart gets there | **P** |
| Reconnecting storage (`mcp/main.rs`) | handle, reconnect task, health | reconnect, call, readiness | all tools | calls during reconnection | ready means connected | next |
| Backoff and retry gate (`core/poll_backoff.rs`, `sync/retry_gate.rs`) | delay, failures | next delay, reset | worker, cluster views | limits | bounded, reset by success | next |
| Note sharing (`core/note_share.rs`, handlers of `core/dispatch.rs`) | durable share row, read counter, audit rows; a ledger in every process | create, read (load, replace, begin, fetch, complete, audit, count), revoke | recipients and owner in several processes | stale snapshots over newer entries, revocation between begin and complete, failed counter | content never leaves uncounted; a share that ended stays ended; a revoked read is dropped | **P** |
| Session tasks (`core/session_task.rs`) | task, alias, focus stack, events | start, push, update, alias | one session's tools | several rows without a transaction | no finished task in focus | next |
| Temporal facts (`core/temporal.rs`) | facts with validity | write, invalidate | tools | read then write by two writers | one current fact per entity | next |
| Task board order, Datalog (`sync/task_board.rs`, `core/datalog.rs`) | none | pure functions | views, rules | ties, cycles | equal to a naive definition | next |
| In-process consolidation queue (`core/dispatch.rs`) | a bounded deque | push | smart ingest | it is never drained | see section 7 | - one operation |
| Other records: folds, memo, plans, turns, segments, intentions, skills, artifacts, tiers | rows | put, get, review | tools | little | | - single-row handlers |
| Ingestion and retrieval | rows, vectors | ingest, search, rank | models, stores | numeric | | - floating point and text |
| Remote teaching and pull (`core/remotes`) | one request | preview, commit | policies | | | - sequential, pure policy |
| Graph client, CQL and in-memory storage | tables | statements | everything | | | their statements are steps of the models above |
| Auth, tenants, quota, audit, transports, telemetry, dashboard | configuration, sockets | | | | | - input and output |
| Pack sealing, signalling client, coordinator, shell extension | | | transfer, phone | | | - cryptography, HTTP, process control; the transfer model has their outcomes |
| Command line, setup tools, evaluation harness | files | | | | | - single-user tools |

`PROJECT.json` lists the parts one by one with their files.

## 2. Modules

| Module | What it is |
|---|---|
| `LeasedJob` | Abstract specification: a job is opened once, granted to one holder after another, each grant under the next epoch, and closed once by the holder of that moment. |
| `ConsolidationLease` | The queue and the worker loop; implements `LeasedJob` (`ImplementsLeasedJob`). |
| `Forget` | The forget workflow, restore, lifecycle tools and the maintenance job. |
| `PackTransfer` | Teacher, learner, message handler, channel and landing directory. |
| `RemoteCommand` | Abstract specification: what the controller that sends a command is promised. Stored once; an agent announced, then started once, then called running; one outcome told, success only of what ran; the row settles once, on the outcome that was told. |
| `ControlPlane` | Implements `RemoteCommand` (`ImplementsRemoteCommand`). Cursor allocator, event log, command rows, agent and note commands, the pane, the session audit, subscribed devices. |
| `NoteShare` | One share with its durable rows and the ledgers of the owner's processes. |
| `Migration` | `run_migrations` from any install, with deaths between statements. |
| `Knowledge` | Items, versions and queues; reviews and the filing of claims. |
| `MC...` | Instances for TLC: model values, clock skews, pack sizes. |
| `..._proofs` | Theorems and TLAPS proofs, one module per component. |

A definition whose comment starts with "Mutant" is a plausible mistake in the
definition that follows it. It is used nowhere in the specification; replacing
the definition by it has to break a property, which shows that the property
depends on that piece of code.

### ConsolidationLease

One variable function per local of `consolidation_worker_loop`, indexed by
replica; `pc` says before which statement the worker is.

| Code | Model |
|---|---|
| `consolidation_request_upsert` behind a successful write tool | `WriteTool`, `Upserted` |
| the loop's wake-up and the stream task (two queries: pending rows, expired leases at the time the pass began) | `Wake`, `ScanPending`, `ScanStale`, `ScanFails`, `Take`, `PassDone` |
| `consolidation_request_claim`: read, choose the `IF`, LWT | `ClaimRead`, `ClaimIf`, `ClaimRow`, `ClaimApply` |
| the audit row of the run | `RunLog`, `FinalLog` |
| `renew_lease_if_due` and `run_consolidation_with_lease` (decay, dream, prune) | `Gate`, `RenewDue`, `Renew`, `Work` |
| `consolidation_request_complete`: read, check, LWT | `CompleteRead`, `CompleteIf`, `FinishedRow`, `CompleteApply` |
| death of the process; a restart takes a new `lease_owner` uuid | `Crash`, `Restart`, `Me` |

`Utc::now()` on a replica is `now + Skew[w]`. A storage call may fail, and an LWT
whose reply is lost may have been applied: both outcomes are disjuncts of the
action. `grants` and `finishers` are history variables; `dirty` says that a write
is not covered by a dream that succeeded. The worker's idle backoff is left out:
it may poll at any time. What the phases compute is left out. `Take` reads the clock
once, where the code reads it for `lease_expires` (`mcp/main.rs:3163`) and again for the
claim (`core/cql_storage.rs:8380`), a moment later.

### Forget

Every storage call is one step; `task[p]` holds the locals of the operation that
process `p` runs, `task[p].pc` the call it is about to make. `Stop` ends an
operation before any call, because the process died or because the call returned
an error that `?` passes on.

| Code | Model |
|---|---|
| `propose` | `Propose` (retrievable entities, content hashes, creation time) |
| `confirm`: token, selection, guards, journal | `Confirm`, `Guard`, `Passes`, `JournalPut` |
| `teardown_typed_edges`, which fails on storage without a graph client when there is an edge | `TeardownOut`, `TeardownIn`, `TeardownFails` |
| `retract_entity`: read, `entity_update_state` (a read and an upsert), `retraction_put` | `ReadState`, `FindRow`, `SetState`, `PutRecord` |
| `hard_delete_entity`, `invalidate_derived` | `DeleteNode`, `DeleteRow`, `Invalidate` |
| journal status, audit, authority | `JournalDone`, `Audit`, `Authority` |
| `restore_entity`, `promote_memory`, `demote_memory` | `Restore`, `DeleteRecord`, `Shift` |
| `run_decay_and_forget`: `purge_expired_retractions`, `recover_unfinished_forgets` | `JobStart`, `PurgeOne`, `PurgeFails`, `PurgeEnds`, `RecoverOne`, `RecoverFrom`, `RecoverEnds` |

The content hash is a version number, edges are three kinds (typed out, typed in,
legacy), derived rows are three tables. `row[e]` distinguishes a full row, no row
and a "ghost": the key and state an `UPDATE` leaves when the row went away between
the two statements of `entity_update_state`. `torn` is a history variable: which
forget has begun to dispose of an entity and not reported it done. The constants
`JobTenant` and `JobGraph` are how the job is wired; `Overlap = FALSE` makes
operations run one after another (each still stopped anywhere).

### PackTransfer

| Code | Model |
|---|---|
| `run_teacher_session` | `TeacherOffer` ... `TeacherComplete`, `TeacherGiveUp`, `TeacherTimeout` |
| `run_learner_session` | `LearnerAccept` ... `LearnerClosed`, `LearnerTimeout` |
| `InboundRouter`, `PackReceiver`, reassembly | `Receive` (`Accepts`, `Completes`) |
| `ingest_pack`, `DirPackApplyStore` (stage, rename, read and rewrite `versions.json`) | `ApplyCheck`, `ApplyStage`, `ApplyRename`, `ApplyRead`, `ApplyWrite`, `ApplyFails` |
| a process dies | `TeacherDies`, `LearnerDies` |

The channel delivers in order while both ends live; an end that closes or dies
takes any suffix of its undelivered frames with it, and a send to an end that is
gone is lost or fails. The pack is a number of chunks and a version. A hello that
does not verify, or a failing file operation, is a fault. `crossed` remembers that
two applies were under way at once, `upset` that a side died or timed out while
its peer was active. ICE, DTLS, the key agreement and the AEAD are below the model.

### ControlPlane

A writer is a task of the listener: a control session that serves one frame at a
time, the task that waits for the agent of a command (named by the command), or
the task that records the beginning of a session. `pc[w]` is the statement the
task is about to make; the two calls every task shares, `reserve_cursor_block` and
`update_command`, are the same actions for all of them.

| Code | Model |
|---|---|
| `reserve_cursor_block`: read, compare and set with a fresh token, read back after an unknown answer, 32 attempts | `ReadCursor`, `ApplyCursor` (`Reserve`, `Unanswered`, `Retry`), `CheckCursor` (`OwnBlock`) |
| `append_event`, `append_control_event`, `validate_payload` | `AppendEvent` (`TooLarge`), `Record` |
| `put_command_if_absent` and the branch on a duplicate id | `Put`, `Accepted` |
| `update_command`: read, validate the transition, LWT | `ReadRow`, `ApplyRow` (`Allowed`, `NewRow`, `Updated`) |
| `start_turn` over the tmux pane, `wait`, `capture_result`, `parse_codex_jsonl` | `Launch`, `Respawn`, `TurnEnds`, `Wait`, `Capture` |
| `open_note`, `append_note`, `commit_note` with `note_sequences` | `NoteStep` (`InSequence`, `TooManyNotes`) |
| a subscription: `high_water`, then the page, then the cut to the frame size | `ReadHighWater`, `Deliver` (`Replay`, `FirstOf`, `BatchEnd`) |
| `spawn_session_audit` | a writer of `Audits`, with a block of `AuditBlock` |
| the listener dies and comes back | `Crash` |

An LWT is applied or not, and its answer arrives or is lost (`Unanswered`); the pane
survives a crash. The pane has `completed` and `error`, which
is what `parse_codex_jsonl` folds out of its screen and scrollback: a respawn leaves both,
and the turns above may or may not have left the 5000 lines. An append of an
outcome may be refused for its size (`TooLarge`), and a lost race for a cursor may be the
last of the 32 attempts (`Retry`). `handed`, `turns` and `delivered` are history variables.
What a command says, the authorisation of a device and the WebRTC session are left
out.

`CommandOf(c)` is what a controller can see of a command: the state and result of its
row, the turns its agent was given, its events. That is the refinement mapping to
`RemoteCommand`, in which there are no sessions, blocks, panes or statements.

### NoteShare

Every statement and every locked section of the in-memory ledger is a step of a
request; requests of one process interleave between them.

| Code | Model |
|---|---|
| `handle_note_share_create` | `Persist`, `Insert` |
| `handle_note_share_read`: `note_share_get` (two queries), `replace`, `begin_read`, the content, `complete_read`, `note_share_record_read` (audit, counter) | `LoadRow`, `LoadCounter`, `Replace` (`Refreshed`), `Begin` (`Authorized`), `Fetch`, `Complete`, `Audit`, `Count` |
| `handle_note_share_revoke` | `RevokeRow`, `RevokeLocal` (`Revoked`) |
| expiry, failed statements, restart of a process | `Expire`, `Fails`, `Restart` |

### Migration

A script is a sequence of statements that create or drop an object; `shape[o]` says
whether an object is missing, in the shape of an early script, or in its last
shape. `first` is the install that was found.

| Code | Model |
|---|---|
| `classify_bootstrap_state`, `apply_bootstrap`, `resume_bootstrap` | `Classify`, `Script`, `BootStatement`, `SkipDestructive`, `BootDrop`, `Recheck` |
| `current_version`, adoption of an old install, downgrade protection | `ReadVersion`, `CheckBaseline`, `SeedBaseline`, `Newer` |
| repair of ledger rows whose object is gone | `ReadApplied`, `Repair`, `Postcondition` |
| the pending migrations | `NextPending`, `Refuse`, `Statement`, `CheckPost`, `RecordVersion`, `Grants` |
| copy and swap of `feedback_outcomes` (version 36) | `FbProbe` ... `FbDone`, `Copy` |
| death at any statement | `Die` |

### Knowledge

A worker is a review request, or a run of `session-claims`, which goes through the list
of deliverables found in its transcripts. The list may name one twice: it is sorted by
time before neighbours with the same url are merged.
A worker makes one statement per step and may fail at any of them; a run then goes on
with the rest of its list or ends.

| Code | Model |
|---|---|
| `already_filed`: the walk over the queues, page by page | `FileStart` (`Found`), `Walk` (`PageIds`, `Newest`, `Partitions`) |
| the loop over the list, `propose`: item, version, index | `Claim`, `GoOn`, `ProposeItem`, `ProposeVersion`, `IndexState`, `IndexExpiry`, `Finish` |
| `decide`: read and `transition`, unindex, item, index | `DecideStart`, `ReadItem` (`Legal`), `UnindexState`, `UnindexExpiry`, `DecideItem`, `IndexState`, `IndexExpiry` |
| the claims view | `ClaimRows` |

`raced`, `failed`, `torn` and `filedBy` are history variables: on which deliverables two
workers met, on which one failed halfway, which items have not been put right since,
and which run filed an item. Two claims of one run are no meeting. `ClaimRows` leaves out
the row limit of the view (20 by default, at most 50): see section 7.

## 3. Runs

Distinct states are rounded. `violation` runs check one sentence the repository
itself says; section 6 quotes them.

| Run | Config | Properties | States | What it shows |
|---|---|---|---|---|
| lease_queue | `Lease_queue` | `TypeOK`, `AttemptCountExact`, `CompletionFenced`, `RunLogBacked`, `OneConsolidator`, `NoLiveSteal`, `ImplementsLeasedJob`, `RequestFinishes` | 851 k | Runs of any length, crashes and lost replies: fencing holds, the queue implements `LeasedJob`, two replicas work on one session only when one has outlasted its lease, and every request ends as completed or failed. |
| lease_rewrite | `Lease_rewrite` | `WritesConsolidated` violated | | A write after completion is never consolidated. |
| forget_sequential | `Forget_sequential` | `UnfinishedIsListed`, `RecordImpliesTorn`, `ConfirmIsComplete`, `RecoveredIsDisposed` | 2.1 M | A confirmed forget is complete, whatever stopped, was retried, restored, promoted or purged before; what a replay reports is out of the graph, gone or with a record; edges go before records; the journal names whatever is half disposed of. |
| forget_job | `Forget_job` | `JournalConverges` violated | | The job as it is wired never completes a forget that a crash left in progress. |
| transfer_pair | `Transfer_pair` | `ReceiptTrue`, `BindFirst`, `OutcomesAgree`, `LedgerMonotone`, `SessionEnds` | 154 k | Two receives of one pack into one directory, with one fault anywhere. |
| control_agents | `Control_agents` | `NeverExecutesTwice`, `LogTellsOneStory`, `ImplementsRemoteCommand`, `TasksReturn` | 118 k | Two sessions repeat the frames of two agent commands over one pane, with a lost answer, a failure or a crash; each command keeps what `RemoteCommand` promises, and no task waits forever. |
| control_log | `Control_log` | `CursorsUnique`, `NoReplayMerged`, `BatchOmitsNothing` | 2.5 M | Session, audit task and device share the log; appends of one note are replayed. |
| control_replay | `Control_replay` | `NothingSkipped` violated | | A subscription between a reservation and its append moves a device past the event. |
| share_safety | `Share_safety` | `TypeOK`, `DeliveredCounted`, `EndIsFinal`, `RevokedReadDropped`, `ReservationKept` | 450 k | Three reads and two revocations in two processes, with a failure or restart. |
| migrate_safety | `Migrate_safety` | `DataKept`, `ReadySchema`, `Converges` | 62 k | 91 installs, three deaths at any statement. |
| knowledge_safety | `Knowledge_safety` | `QueuesAgree`, `FiledOnce`, `ClaimsShown` | 1.7 M | Two runs over a list that names a deliverable twice and a decision interleave, with one failure and a midnight. |
| knowledge_decide | `Knowledge_decide` | `RejectionStands` violated | | An approval that read the item before it was rejected replaces the rejection. |

### Bounds and why they are enough

*Lease.* Two replicas and one session: rows of different sessions share nothing
but the worker that handles them one at a time. `LeaseSecs` is 2 units so
that renewal (due after `LeaseSecs \div 2`), expiry and takeover fall on different
instants; `MaxTime` 3 leaves room for a lease, its expiry and a takeover. `WriteTime` ends
the write tools (late enough for a second write while the first request is under way) and
`FaultTime` the crashes and errors early enough for the rest to happen; `MaxCrash` is 1
for each replica. A phase may take any time: the clock ticks while it runs, so runs
outlast their lease. The clocks agree in the runs (`NoSkew`); the theorems are for any skew.

*Forget.* One entity with two forgets, a selection of two (the same id twice
included), one edit and two stops. Two forgets are the least in which a retry meets
the remains of the first; `MaxTime` 2 lets a token (`TokenTtl` 1) expire and a restore
window (`PurgeDays` 0) pass. `HighImpact` 3 makes the acknowledgement matter while all
edges are there and not after a partial teardown. Entities share only the journal
key of one confirm, and the second selection of the same id overwrites that row too.

*Transfer.* Two sessions, one pack, versions 1 and 2 in any combination. The pack
of the first session has 2 or 4 chunks, that of the second 2 or 3: 2 fit
everywhere, 3 are more than the learner's assembler holds (`Limit` 2, the 64 MiB),
4 more than the teacher sends (`MaxChunks` 3, the 8192 chunks). One fault. The
command line creates a new pack id with version 1 for every share; the library
takes any, and replays and upgrades are what its checks are for. `EmbeddingDims` has the
0 of the `share` command, with which the seal always fails (section 7), and 768, the value
of a valid manifest in the library's tests.

*Control.* Two sessions are the least in which a frame is repeated while its first
copy is under way, and two commands the least that compete for the pane. `MaxCursor` 4
holds the two events of both commands and makes a reservation at the end of the
space fail when an answer was lost. control_log has the audit's block of 2 against
blocks of 1, pages of 2 events, and the same append under two command ids with a
commit between or after. One fault of any kind.

*Share.* A limit of one; two reads in one process, one in the other, a revocation
in each: stale snapshots, reservations and revocations can meet within a process
and across. The two reads of one process are interchangeable (symmetry; no temporal
formula is checked).

*Migration.* One object of each kind the code treats differently: a plain table, one
that an early script drops and recreates, one a migration rebuilds, the swapped
table and its staging table, seeds, and an object of a later migration. Two rows
per table, so that a copy can stop halfway. Three deaths: the
second strikes the recovery from the first, the third what the second start made of it.
The installs include the ones the repair is for: version 20 or 30 recorded, its table gone.
`ProbeFails = FALSE` and one runner: see section 7.

*Knowledge.* Two deliverables, one of them twice in the list and the other between, and
three items: a run can file each, and one twice. Two runs, so that a second filing by a
later run is possible; one decision by a person, approvals from the forge (`Outcomes`;
a rejection is the same statements without the new expiry); a page of one row, so that a walk has a next page; a
horizon of two days and claims of one. `Days` are counted, the hour is not.
knowledge_decide has one item and two decisions.

`CHECK_DEADLOCK FALSE` is set where the system may stop: all forgets of the bound
are done, both drivers of each session have returned, all commands or requests are
served, the migrations have run.

### Fairness

*Lease* (`LiveSpec`): tokio polls the worker task and its stream task, and the
clock advances. Write tools, crashes, errors and restarts by themselves are not
fair; a worker's `Restart` is part of its own steps, since the supervisor restarts
the process. *Forget* (`FairSpec`): a server works on a request it accepted, and the
job is started again (the schedule is nightly). Faults are finite; the counterexample of
forget_job is one in which the job runs forever, not one in which it stops. *Transfer*: the
drivers and the handler are polled and their deadlines pass (every wait of
`peer_session.rs` is under a timeout). A learner need not accept. *Control*
(`LiveSpec`): the runtime polls every task. That a turn ends is not assumed: `wait`
gives up by itself. *Migration* (`LiveSpec`): a started process goes on with its next
statement; deaths are finite.

## 4. What is proved

The theorems hold for every number of replicas, sessions, entities, packs, chunks,
deliverables, scripts and faults, every clock skew and every value of the switches,
from the named assumptions of the modules:

| Assumption | What it says |
|---|---|
| `ConsAssumption` | skews and bounds are naturals, a lease is not 0, the null owner is no process |
| `ForgetAssumption` | servers and jobs are different processes, bounds are naturals |
| `SessionAssumption`, `BoundAssumption` | every session has a pack and positive sizes |
| `CPAssumption` | sessions, commands and audits are different tasks, blocks and pages are not empty, "no event" is none |
| `NSAssumption` | reads and revocations are different requests, each in one process |
| `KNAssumption` | every deliverable's band is walked, a claim expires within the view's horizon, a page is not empty |
| `MGAssumption` | scripts are sequences of statements; a table that does not exist holds no row; `feedback_outcomes` is created with uuids |
| `ScriptAssumption` | versions increase strictly above the baseline (the test `registry_versions_are_monotonic_and_unique`), a migration creates again what it drops (`ddl/030`, `ddl/033`), only the swap makes its staging table |
| `InstallAssumption` | an install that has recorded the swap keeps no feedback in the staging table alone |

Five theorems have a hypothesis of their own, without which the property is false
(sections 5 and 7); it is written in the theorem.

| Theorem | Statement | Hypothesis |
|---|---|---|
| `ConsolidationLease_proofs!TypeCorrect`, `LeaseInvariant` | `TypeOK`, and the invariant `LeaseInv` | |
| `AttemptCount` | `AttemptCountExact` | |
| `LiveLeaseKept` | `NoLiveSteal` (an action property) | |
| `Fenced`, `LogBacked` | `CompletionFenced`, `RunLogBacked` | |
| `Refinement` | `Spec => Job!Spec`: the queue implements `LeasedJob` | |
| `OneAtATime` | `OneConsolidator` | |
| `Forget_proofs!TypeCorrect` | `TypeOK` | |
| `TornBeforeRecord` | `RecordImpliesTorn` | |
| `WriteAhead` | `UnfinishedIsListed` | operations do not overlap |
| `ReportedIsForgotten`, `RecoveredIsFinished` | `ConfirmIsComplete`, `RecoveredIsDisposed` (action properties) | operations do not overlap |
| `PackTransfer_proofs!TypeCorrect` | `TypeOK` | |
| `Receipts` | `ReceiptTrue` | |
| `BoundBeforeBytes` | `BindFirst` | |
| `SameOutcome` | `OutcomesAgree` | |
| `LedgerForward` | `LedgerMonotone` (an action property) | |
| `ControlPlane_proofs!TypeCorrect`, `Invariance` | `TypeOK`, and the invariant `Inv` | |
| `CursorsNeverReused` | `CursorsUnique` | |
| `StartedOnce` | `NeverExecutesTwice` | |
| `NothingOmitted` | `BatchOmitsNothing` (an action property) | |
| `OneStory` | `LogTellsOneStory` | |
| `MergedOnce` | `NoReplayMerged` | |
| `StageInvariance` | the invariant `StageInv` | |
| `CommandRefinement` | `Spec => Command!Spec`: the control plane implements `RemoteCommand` | |
| `NoteShare_proofs!TypeCorrect`, `Invariance` | `TypeOK`, and the invariant `Inv` | |
| `DeliveredIsCounted` | `DeliveredCounted` | |
| `EndStays` | `EndIsFinal` | |
| `RevocationCuts` | `RevokedReadDropped` | |
| `ReservationStays` | `ReservationKept` | |
| `Migration_proofs!InstallIsKept` | `DataKept` | one process migrates, its probes answer |
| `ReadyIsWhole` | `ReadySchema`: a start that returns Ok left every table, object and ledger row of the schema in place | the same |
| `Knowledge_proofs!TypeCorrect`, `Invariance` | `TypeOK`, and the invariant `Inv` | |
| `QueuesStayTrue` | `QueuesAgree` | |
| `ClaimFiledOnce` | `FiledOnce` | |
| `ClaimsViewTrue` | `ClaimsShown` | |

*Lease.* The claim writes an `attempt_count` computed from an earlier read, and its
`IF` compares only the state and, for a leased row, the expiry. Why is that
enough? `SnapInv`: a snapshot is never newer than its row, and if the row was
granted again since, its expiry is strictly later. A grant writes an expiry later
than the one it replaces, because the one replaced had expired on the claimant's
clock and a lease is not 0; a renewal never moves it back (`LeaseEndInv`, since an
owner's clock only advances). So equal expiry means no grant in between, and the
count is exact. `FenceInv` adds that who holds, or has finished, was granted
(`LogInv`). `JobSimulated` maps each step to `Open`, `Grant`, `Close` or a stutter.

*One consolidator.* `HeldInv`: while a worker believes it holds a session, the row has
moved on, and if it is leased, to whomever, it is leased for at least a lease from when
that worker began, because grants and renewals only move the expiry forward. A second
worker that comes to hold was granted, so that lease had expired on its clock: the first
has outlasted its lease. No bound on the length of a run or on the skew is needed.

*Forget.* `EdgeInv` says at which points of a disposal which typed edges are gone
(`TornDown`), for confirm and recovery alike; other processes only remove edges,
so nobody else's step can falsify it. The work is in the types: the same program
points serve seven operations, and `OpsAt` says which operation can be where.

*Forgets one after another.* `AloneInv`: one process works at a time, what was begun and
not reported has its journal row, a confirm that runs has its own (`OwnJournal`), and
`Reached` says how far the confirm has come at each point. An operation that stops
leaves the journal as it is; the next one may move an entity, and no listed row needs it
to stay. `ReplayInv` does the same for the job: a retraction is replayed through its
record, a hard forget through the row, and recovery skips both only for an entity without
a row or with a record (`DecideReplay`). The state column, which the crashed forget may
already have set, decides nothing.

*Transfer.* The teacher's success is the end of a chain: rename, health flag,
`Applied`, acknowledgement, `Complete`. `LandedInv` states that each link presupposes
the applied file, that files stay, and that `versions.json`, and any copy a flip
has read, name existing files (a pack of the recorded version is acknowledged
without a write). `OwnInv` is the exclusivity that holds until two applies overlap;
`BindInv` is what each program point and each frame knows of the two hello checks.
The equal outcomes need where the last three frames of the dialogue are (`AgreeInv`): an
acknowledgement on its way has a teacher that waits for `Complete`, and a learner that
succeeded has sent it. The ledger needs `FlipInv`: until two applies overlap, an apply
under way is for a newer version, and what it is about to write back is the ledger as it
is.

*Control.* When the answer of a reservation is lost the task reads the row back and
takes the block if the high water and the token are its own. `CursorInv` says why
that is safe: nothing above the high water was handed out, a task that is about to
reserve under its own token has not reserved since it read, and a block still under
its owner's token was given to nobody. That an agent starts once needs three facts
about the tasks (`RunInv`, `OneTask`, `TaskInv`): a command in anyone's hands and a
command that was started have their row, so an insert that is applied finds neither;
a command is in the hands of one task; and only a task that accepted the command and
has not launched it yet gets to the respawn. A batch that is cut omits nothing
because `FirstOf` keeps whatever lies below an element it keeps (`CutPage`). That a
nonempty set of cursors has a first and a last element is induction; it comes from the
library's theorem that `<` is well founded on the naturals, which needs no operator
parameter (`SmallestCursor`, `LargestCursor`).

That the log tells one story of a command is `LogAt`: a task that has yet to record the
outcome finds at most the acceptance in the log, below the cursor it is about to use, and
a task that sets the row has recorded the outcome at its cursor. It rests on `OneTask` and
on `CursorInv`, because an event is appended at a cursor nobody else was given. `NotesInv`: the next sequence number of a note is above those that were
merged.

*Commands as the controller sees them.* The control plane takes some twenty statements
for what `RemoteCommand` does in six steps. Only four actions show: `Put` is `Store`,
`AppendEvent` is `Announce` or `Report`, `Respawn` is `Start`, `ApplyRow` is `Run` or
`Settle`; every other step leaves `CommandOf` as it was. The proof has to know, at each
of the four, in which stage the command is, although the task read it several statements
earlier. `StageInv`: a command in the hands of a task is open; it is queued until its own
task says that it runs, and running before its task says that it succeeded; an agent was
announced before anything else happens to it; an open row has no result. With `OneTask`
(nobody else moves the row in between), `LogAt` (the outcome told is the one the row is
set to) and `CursorInv` (an event goes where there is none) each of the four is the
abstract step.

*Note sharing.* Which of ledger, row, counter and snapshots is right depends on which was
read last. `FlightInv`: a reservation belongs to a read of the process that has begun and
was not answered. `CutInv`: a read whose process revoked the share has no reservation and
gets none back, although a refresh may reopen the entry. `CountInv`: each delivered read
was counted, and a read is delivered once. `FenceInv`: when no snapshot from before the
end is left in a process, what its requests read from then on shows the end.

*Migrations.* A drop follows the probe that found its table empty (`DropInv`), an install
with data is never taken for a greenfield (`PlanInv`), and until the swap's last copy each
row of feedback is in the staging table or the new one (`OldInv`, `SwapInv`). `ReadyInv`
follows one start: the ledger is what it found and what it recorded since (`LedgerAt`),
the tables of the bootstrap and the objects of the settled migrations exist but for what
the migration at hand is rebuilding (`ThereAt`), and feedback is back before the swap is
recorded (`BackAt`), so that a later start may believe the ledger (`BackInv`).

*Knowledge.* A decision takes an item out of two queues, rewrites it and puts it back in
four statements. `OweInv`: an item that no failure tore is in the queues of its state, or
a worker is on its way to put it there. Two workers with the same row can each be that
worker, so the invariant names a witness and not the worker. Where no two met, a worker
has the row as it is (`OwnInv`) and the queues have nothing else (`MatchInv`). `WalkInv`:
what the walk of `already_filed` has passed, it has seen; an item moves only between
partitions in the hands of a worker of the same deliverable, which is then a meeting
(`MeetInv`). So a run that is about to write a claim has seen none of the deliverable but
its own (`RunInv`, `NewInv`).

## 5. What is only model-checked

Liveness and everything that needs fairness (`RequestFinishes`, `SessionEnds`,
`TasksReturn`, `Converges`): outside the prover, which has
no `ENABLED` and no rule for fairness. The provers do no induction over data either; no
module declares a RECURSIVE operator.

Every safety property of a passing run, invariant, action property or refinement, is also
the statement of a theorem. `TypeOK` of `Forget`, `PackTransfer`, `ControlPlane` and
`Knowledge` is proved and not run.

Three properties of `Forget` are about operations that run one after another
(`Overlap = FALSE`, each still stopped anywhere). When operations interleave:

- `UnfinishedIsListed` does not hold: nothing leases a journal row, so the job may
  replay and complete a forget that a server is still executing; if the server then
  stops, what it began again is no longer listed.
- `ConfirmIsComplete` holds with one server and the job, and not with two servers: a
  restore or a promotion on the second may slip in before the first reports.
- `RecoveredIsDisposed` does not hold: a restore may take away the record the job has
  just found, or written, before the job reports.

The code claims none of the three for concurrent operations. `RecordImpliesTorn` is
proved with overlap; the three are proved without.

`EndIsFinal` speaks of reads that come when no request of their process holds a
snapshot from before the end; `QueuesAgree` and `FiledOnce` except deliverables on which
two workers met or one failed halfway. Section 7 says what happens then.

## 6. Disagreements the runs show

- *lease_rewrite.* `core/cql_storage.rs` inserts the request `IF NOT EXISTS` and no
  statement makes a finished row pending again, so writes of a session after its
  first completed consolidation are never picked up. `mcp/main.rs:3097`: "The
  dispatcher writes a request row on every successful write tool, so any replica
  can pick it up."
- *forget_job.* `batch/main.rs:319` runs purge and recovery with `Uuid::new_v4()` as tenant,
  to which no journal row belongs, over a storage without a graph client. With `JobTenant`
  and `JobGraph` wired like that the job starts again and again and the row of a stopped
  forget stays in progress. `batch/main.rs:346`: "Replay any forget operations left
  in_progress by a crash mid-forget so the system converges".
- *knowledge_decide.* `decide` reads the item, checks the transition and then rewrites
  queues and item in separate, unconditional statements. Two decisions that read the item
  as proposed both pass, and the approval replaces the rejection that was written in
  between. `sync/knowledge_view.rs:200`: "The store refuses an illegal transition before
  writing anything, so a stale screen cannot approve something a person already rejected."
- *control_replay.* `events_after` returns the allocator's high water with a page that is
  not full, and a cursor is reserved before its event is appended: a subscription
  between the two returns a cursor above the event, and the next one leaves the event
  out. The comment on `control_application_reply` says that a subscription "returns a
  page whose high-water cursor never advances past an undelivered bounded event".

## 7. Observed without a run of its own

Consolidation

- A run that outlasts its lease lets two replicas work on one session: the lease is
  renewed only between phases and a failed renewal only warns (`mcp/main.rs`,
  `renew_lease_if_due`). `ddl/049` says "exactly one ferrosa-memory replica
  consolidates a given (tenant, session) at a time"; `OneConsolidator` excepts that case
  and no other, and `core/config.rs` asks for a `lease_seconds` longer than a run.
- The in-process `consolidation_queue` of `core/dispatch.rs` is only pushed to; a
  process refuses the 1025th session with the advice to "retry after the idle worker
  drains pending sessions".

Forget

- The content of an entity may change between the guard's read of the hash and the
  tear-down: `confirm` checks all targets first and looks at none of them again, so what is
  forgotten may be a version nobody proposed (an `Edit` between `Guard` and `Invalidate`,
  with `Overlap`).
- `recover_entity_target` takes a retraction record, or a missing row, for a finished
  forget; the derived rows of a forget that stopped right after are left, and the
  journal row is marked completed. `core/forget.rs:713` says of the replay what
  `batch/main.rs:346` says of the job.
- `retract_entity` hides the entity before it writes the record with the prior state.
  If it stops between the two, the replay reads `unavailable` as the prior state, and
  so does a second confirm of a retracted entity; restore then puts `unavailable` back.
  `core/entity.rs:337`: "Restore a previously retracted entity to the state it held
  before retraction".
- The purge list is read once; an entity restored meanwhile is deleted with the
  rest. The window of a first retraction also purges an entity retracted again.
- A job without a graph client cannot tear down edges, so its replay of a forget
  that stopped there fails each time.
- `promote_memory` makes a retracted entity retrievable; the record stays.
- An edge created to an entity after its teardown and before it is hidden dangles;
  only `integrity_sweep`, which nothing calls, would remove it.

Transfer

- `sync/main.rs:375` builds the manifest of the `share` command with `embedding_dim: 0`,
  which `validate` refuses (`sync/pack.rs:372`): the teacher returns an error before the
  first byte, and the learner waits for its deadline. No share from the command line
  delivers its pack, so no property says that one is delivered. `sync/main.rs:79`: "Offer +
  stream a sealed pack to a mutual contact".
- Two receives into one directory share the staged file, which is named after the
  pack alone (`sync/peer_cli.rs`, `staged_path`), although `sync/learner_ingest.rs`
  says staging is keyed by `(pack_id, pack_version)`. `ReceiptTrue` and `LedgerMonotone`
  make an exception for overlapping applies for that reason.
- A death between the rename and the write of `versions.json` leaves an applied file
  the ledger does not know; an older version is then accepted.
- A pack between 64 MiB (the learner's assembler) and 128 MiB (the teacher's
  limit) is rejected without a word, and both sides wait for their timeouts.

Control

- Nothing settles a command whose task returned early: no one looks for queued or running
  rows, and a repeated frame only returns them. A crash or a failed statement does that, and
  so do two refusals without any fault: the outcome's text is cut to 12 KiB before it is
  escaped (`sync/control_session.rs:54`, `:2142`) and its event is refused above 16 KiB
  after (`core/control_store.rs:994`), and a reservation gives up after 32 lost races
  (`:550`). `TasksReturn` therefore speaks of the tasks, not of the rows.
- Events of two tasks may be appended in another order than their cursors were
  reserved, so a transcript replayed by cursor is not the order of what happened.
- The result of a turn may be that of another. `capture_result` reads the pane when the
  waiter wakes up, with 5000 lines of scrollback that `respawn-pane` does not clear, and
  `parse_codex_jsonl` folds all of it: a `turn.completed` of an earlier command makes a
  turn that printed nothing a success, an earlier error makes a success a failure, and a
  waiter that is late reads a later turn. `sync/codex_runtime.rs:82` calls the result the
  "terminal state of one non-interactive Codex turn".

Sharing

- Two reads in two processes that load the counter before either increments it are both
  delivered under a limit of one: the budget is compared with a process-local count
  and the counter is an unconditional increment. `core/dispatch/tool_schemas.rs` says
  "Authorization, expiry, revocation, and the successful-read budget are checked on the
  owner server".
- A request that still holds a snapshot from before a revocation writes it over the
  newer ledger entry, and a read that comes then is delivered.

Migrations

- A first run that dies among the seeds of `ddl/019` is classified as complete, because
  the state is read off the tables alone, and nothing inserts the rest; the comment on
  `resume_bootstrap` says "skipping the remaining seeds [...] would ship an incomplete
  type registry".
- When `temporal_events` is gone and version 30 is recorded, the resumed bootstrap
  creates it with the timeuuid columns of `ddl/002` and the ledger row is believed
  (such installs are in migrate_safety; `ReadySchema` says that the table is there, not in
  which shape). The comment on `ddl_postconditions`
  says "Rebuild/copy/swap migrations have dedicated
  semantic probes"; only version 36 has one.
- Three deaths can leave `intentions` with the key of `ddl/007` for good. A death after
  `feedback_outcomes` was dropped makes the next start resume the bootstrap, which
  replays the drop of `ddl/008` on an empty `intentions`; a death after that drop makes
  the third start create the form of `ddl/007`; after a death there all tables exist and
  the state is `Complete`, for which "No DDL is owed". A `ReadySchema` that asked for the
  last shape of every table of `Contract` fails with `MaxFaults = 3`.
- Two processes that start together can drop a table the other has just filled, between
  the probe and the `DROP`, or clear the staging table of the other's swap. A
  `table_nonempty` whose read fails answers "empty" (`ProbeFails`).

Knowledge

- Two decisions on one item that overlap can also leave it in the queues of two states:
  each takes it out of the queues it was in when it was read, and puts it into its own.
- One run of `session-claims --all` can file a deliverable twice. The list is sorted by
  time and url and `dedup_by` merges only neighbours, so a url seen at two times with
  another between stays twice, and `seen` is not extended in the loop
  (`bin/session-claims.rs:261`, `:303`). `FiledOnce` speaks of claims of different runs.
- The claims view returns 20 rows, 50 at most, and no cursor, while one run files up to
  200: what is beyond the limit is not shown until something before it is decided.
  `ClaimsShown` is about views the limit does not cut.
- A decision that fails after it rewrote the item leaves it in no queue; the next run of
  `session-claims` does not find it and files the deliverable again, against "would
  re-file everything a person had already rejected" (`already_filed`).
- A claim whose expiry has passed is in no view, and nothing decides that it expired.
- `merged_bands` cuts two pages and returns the cursor that is further back, which can
  skip items of the other band; only one band is filled today.

Elsewhere

- `core/temporal.rs:34`: two writers of a fact read the same current fact and both
  supersede it, which leaves two current facts.

### Left out of the modelled parts

Consolidation: idle backoff, several tenants, the contents of the phases. Forget:
the demotion of dependents' authority, creation of entities and edges,
`integrity_sweep` (nothing calls it), the other batch jobs. Transfer: connection
establishment, cryptography, the shared `.tmp` names of overlapping writes (a write
of a file is atomic in the model), several packs in one session. Control: the WebRTC
binding of a session, coordinator commands (the listener attaches no coordinator), the
interrupt, cancel and instruct calls of the runtime (no handler makes them). Sharing:
the signed entitlement, which is checked before the same reservation, `bind_recipient`
and `abandon_read` (no handler calls them), `sharing.rs`. Migrations: `qualify_ddl` and
`split_cql` as text, the operator's opt-in to destruction, the status report, the
backfill, the stand-alone binary, the comparisons of row counts in the swap (they compare
what was just copied, and can only differ when two processes swap at once) and the table
that version 25 makes sure of (it is in the bootstrap's contract). Knowledge: the merged paging of the Knowledge tab,
further versions and feedback, the in-memory store, the tiers of demoted items.

### Not modelled

Most of the repository is text, numbers and single-row handlers: tool schemas and
argument parsing (`dispatch.rs`), HTTP and transports, embedding and ranking, the
Datalog engine, storage statements of records nobody else writes, command-line tools.
Their correctness is not in the order of steps, so a model of them would repeat the
code. The map covers the code in which order matters.

## 8. Plan

1. `TemporalFacts`, `SessionTasks`: read-then-write pairs of two callers.
2. Reconnecting storage and readiness; `RetryGate` and the poll backoff.
3. Task board order and the Datalog fixpoint as pure algorithms against a reference
   definition over bounded inputs.
4. The backfill of migrations (a resumed cursor) and two runners of a migration.
5. Proofs: for each of these modules its type invariant and the property it was written
   for; what two runners that start together still guarantee.
