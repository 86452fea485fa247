-------------------------- MODULE ConsolidationLease --------------------------
(***************************************************************************)
(* The durable consolidation queue that ferrosa-memory replicas share, and *)
(* the worker loop every replica runs against it.                          *)
(*                                                                         *)
(* A row of consolidation_requests exists per session.  Write tools insert *)
(* it, workers claim it with a lightweight transaction (LWT), renew it     *)
(* between the phases of the work and complete it.  Every statement is one *)
(* atomic step of the database; everything a worker reads, it may use      *)
(* after other workers, crashes and the clock have moved on.               *)
(***************************************************************************)
EXTENDS Naturals, Sequences

CONSTANTS
    Replicas,       \* replicas that run consolidation_worker_loop
    Sessions,       \* sessions of the one tenant the loop serves
    NoOwner,        \* lease_owner = null
    Skew,           \* Skew[w]: how far w's wall clock is ahead
    LeaseSecs,      \* lease_secs of the worker
    DecayOn,        \* cfg.edge_decay_factor < 1.0
    PruneOn,        \* cfg.stale_edge_max_days > 0
    MaxTime,        \* bound: last value of the clock
    WriteTime,      \* bound: write tools run before it
    FaultTime,      \* bound: crashes and storage errors happen before it
    MaxCrash        \* bound: crashes of one replica

ASSUME ConsAssumption ==
    /\ Sessions # {}
    /\ Skew \in [Replicas -> Nat]
    /\ LeaseSecs \in Nat \ {0}
    /\ MaxTime \in Nat /\ WriteTime \in Nat /\ FaultTime \in Nat /\ MaxCrash \in Nat
    /\ DecayOn \in BOOLEAN /\ PruneOn \in BOOLEAN
    /\ NoOwner \notin Replicas \X Nat

VARIABLES
    now,        \* physical time
    row,        \* consolidation_requests, one row per session
    runs,       \* consolidation_runs: who logged a "running" or "finished" run
    dirty,      \* a write no successful dream has covered yet
    grants,     \* history: owners whose claim the database applied
    finishers,  \* history: owners whose completion the database applied
    pc, inc, sid, found, scan, scanNow, snap, taken, exp, lastRenew, phase, result

dbVars     == <<row, runs, dirty, grants, finishers>>
scanVars   == <<found, scan, scanNow>>
workerVars == <<pc, inc, sid, found, scan, scanNow, snap, taken, exp,
                lastRenew, phase, result>>
vars       == <<now, dbVars, workerVars>>

-----------------------------------------------------------------------------
Owners == Replicas \X Nat

(* lease_owner is a fresh uuid of the process: a restart changes it. *)
Me(w) == <<w, inc[w]>>

(* Utc::now() on w *)
Clock(w) == now + Skew[w]

ReqStates == {"absent", "pending", "leased", "completed", "failed"}

Rows == [state: ReqStates, owner: Owners \cup {NoOwner}, expires: Nat,
         attempts: Nat]

Row(st, o, e, a) == [state |-> st, owner |-> o, expires |-> e, attempts |-> a]

NoRow == Row("absent", NoOwner, 0, 0)

Terminal(r) == r.state \in {"completed", "failed"}

Phases == {"decay", "dream", "prune"}

FirstPhase == IF DecayOn THEN "decay" ELSE "dream"

(* Labels at which the worker believes it holds the lease of sid. *)
Holding == {"runLog", "gate", "renew", "work", "completeRead", "completeApply"}

Labels == {"sleep", "recv", "claimRead", "claimApply", "finalLog", "down"}
             \cup Holding

(* A storage call may fail, and an LWT that failed may have been applied. *)
Faulty == now < FaultTime

DbType ==
    /\ now \in Nat
    /\ row \in [Sessions -> Rows]
    /\ runs \in [Sessions -> SUBSET (Owners \X {"running", "finished"})]
    /\ dirty \in [Sessions -> BOOLEAN]
    /\ grants \in [Sessions -> Seq(Owners)]
    /\ finishers \in [Sessions -> Seq(Owners)]

LoopType ==
    /\ pc \in [Replicas -> Labels]
    /\ inc \in [Replicas -> Nat]
    /\ sid \in [Replicas -> Sessions]
    /\ found \in [Replicas -> SUBSET Sessions]
    /\ scan \in [Replicas -> {"off", "pending", "stale"}]
    /\ scanNow \in [Replicas -> Nat]

StackType ==
    /\ snap \in [Replicas -> Rows]
    /\ taken \in [Replicas -> Nat]
    /\ exp \in [Replicas -> Nat]
    /\ lastRenew \in [Replicas -> Nat]
    /\ phase \in [Replicas -> Phases]
    /\ result \in [Replicas -> {"success", "failed"}]

TypeOK == DbType /\ LoopType /\ StackType

Init ==
    /\ now = 0
    /\ row = [s \in Sessions |-> NoRow]
    /\ runs = [s \in Sessions |-> {}]
    /\ dirty = [s \in Sessions |-> FALSE]
    /\ grants = [s \in Sessions |-> <<>>]
    /\ finishers = [s \in Sessions |-> <<>>]
    /\ pc = [w \in Replicas |-> "sleep"]
    /\ inc = [w \in Replicas |-> 0]
    /\ sid \in [Replicas -> {CHOOSE s \in Sessions : TRUE}]
    /\ found = [w \in Replicas |-> {}]
    /\ scan = [w \in Replicas |-> "off"]
    /\ scanNow = [w \in Replicas |-> 0]
    /\ snap = [w \in Replicas |-> NoRow]
    /\ taken = [w \in Replicas |-> 0]
    /\ exp = [w \in Replicas |-> 0]
    /\ lastRenew = [w \in Replicas |-> 0]
    /\ phase = [w \in Replicas |-> FirstPhase]
    /\ result = [w \in Replicas |-> "success"]

-----------------------------------------------------------------------------
(* The write path of dispatch: a successful write tool upserts the request. *)

(* Mutant: an insert without IF NOT EXISTS. *)
UpsertedAlways(r) == Row("pending", NoOwner, 0, 0)

(* consolidation_request_upsert: INSERT ... 'pending' IF NOT EXISTS *)
Upserted(r) == IF r.state = "absent" THEN Row("pending", NoOwner, 0, 0) ELSE r

WriteTool(s) ==
    /\ now < WriteTime
    /\ dirty' = [dirty EXCEPT ![s] = TRUE]
    /\ \/ row' = [row EXCEPT ![s] = Upserted(@)]
       \/ Faulty /\ row' = row          \* the upsert failed: only a warning
    /\ UNCHANGED <<now, runs, grants, finishers, workerVars>>

-----------------------------------------------------------------------------
(* One pass of consolidation_worker_loop: scan, then claim what was found. *)

Goto(w, label) == pc' = [pc EXCEPT ![w] = label]

Wake(w) ==
    /\ pc[w] = "sleep"
    /\ Goto(w, "recv")
    /\ scan' = [scan EXCEPT ![w] = "pending"]
    /\ scanNow' = [scanNow EXCEPT ![w] = Clock(w)]
    /\ UNCHANGED <<now, dbVars, inc, sid, found, snap, taken, exp, lastRenew,
                   phase, result>>

(* consolidation_request_stream_pending is a task of its own: its two
   queries run while the worker claims what the first one delivered. *)
ScanPending(w) ==
    /\ scan[w] = "pending"
    /\ found' = [found EXCEPT ![w] =
                    @ \cup {s \in Sessions : row[s].state = "pending"}]
    /\ scan' = [scan EXCEPT ![w] = "stale"]
    /\ UNCHANGED <<now, dbVars, pc, inc, sid, scanNow, snap, taken, exp,
                   lastRenew, phase, result>>

(* Mutant: the stream has no second query. *)
ScanStaleSkipped(w) ==
    /\ scan[w] = "stale"
    /\ scan' = [scan EXCEPT ![w] = "off"]
    /\ scanNow' = [scanNow EXCEPT ![w] = 0]
    /\ UNCHANGED <<now, dbVars, pc, inc, sid, found, snap, taken, exp, lastRenew,
                   phase, result>>

ScanStale(w) ==
    /\ scan[w] = "stale"
    /\ found' = [found EXCEPT ![w] = @ \cup
            {s \in Sessions : row[s].state = "leased" /\ row[s].expires <= scanNow[w]}]
    /\ scan' = [scan EXCEPT ![w] = "off"]
    /\ scanNow' = [scanNow EXCEPT ![w] = 0]
    /\ UNCHANGED <<now, dbVars, pc, inc, sid, snap, taken, exp, lastRenew,
                   phase, result>>

(* A failed query ends the stream; the pass ends behind the delivered rows. *)
ScanFails(w) ==
    /\ scan[w] # "off"
    /\ Faulty
    /\ scan' = [scan EXCEPT ![w] = "off"]
    /\ scanNow' = [scanNow EXCEPT ![w] = 0]
    /\ UNCHANGED <<now, dbVars, pc, inc, sid, found, snap, taken, exp, lastRenew,
                   phase, result>>

(* The next row of the stream; lease_expires is computed before the claim. *)
Take(w, s) ==
    /\ pc[w] = "recv"
    /\ s \in found[w]
    /\ found' = [found EXCEPT ![w] = @ \ {s}]
    /\ sid' = [sid EXCEPT ![w] = s]
    /\ taken' = [taken EXCEPT ![w] = Clock(w)]
    /\ exp' = [exp EXCEPT ![w] = Clock(w) + LeaseSecs]
    /\ Goto(w, "claimRead")
    /\ UNCHANGED <<now, dbVars, inc, scan, scanNow, snap, lastRenew, phase, result>>

PassDone(w) ==
    /\ pc[w] = "recv"
    /\ found[w] = {}
    /\ scan[w] = "off"
    /\ Goto(w, "sleep")
    /\ UNCHANGED <<now, dbVars, inc, sid, scanVars, snap, taken, exp, lastRenew,
                   phase, result>>

(* Mutant: a leased row is claimable whether or not its lease expired. *)
ClaimableAnyLease(w, r) == r.state \in {"pending", "leased"}

(* Mutant: expiry compared with the new lease's end instead of the clock. *)
ClaimableEarly(w, r) ==
    \/ r.state = "pending"
    \/ r.state = "leased" /\ r.expires <= exp[w]

(* consolidation_request_claim, first half: read the row and choose the IF. *)
Claimable(w, r) ==
    \/ r.state = "pending"
    \/ r.state = "leased" /\ r.expires <= taken[w]

(* Done with this session: forget what the run kept on its stack. *)
Release(w) ==
    /\ Goto(w, "recv")
    /\ snap' = [snap EXCEPT ![w] = NoRow]
    /\ taken' = [taken EXCEPT ![w] = 0]
    /\ exp' = [exp EXCEPT ![w] = 0]
    /\ lastRenew' = [lastRenew EXCEPT ![w] = 0]
    /\ phase' = [phase EXCEPT ![w] = FirstPhase]
    /\ result' = [result EXCEPT ![w] = "success"]

ClaimRead(w) ==
    /\ pc[w] = "claimRead"
    /\ \/ /\ Claimable(w, row[sid[w]])
          /\ snap' = [snap EXCEPT ![w] = row[sid[w]]]
          /\ Goto(w, "claimApply")
          /\ UNCHANGED <<taken, exp, lastRenew, phase, result>>
       \/ (Faulty \/ ~Claimable(w, row[sid[w]])) /\ Release(w)
    /\ UNCHANGED <<now, dbVars, inc, sid, scanVars>>

(* Mutant: the LWT does not pin the expiry that was read. *)
ClaimIfStateOnly(w, r) ==
    snap[w].state = r.state /\ r.state \in {"pending", "leased"}

(* The IF clause of consolidation_claim_query for what was read. *)
ClaimIf(w, r) ==
    \/ snap[w].state = "pending" /\ r.state = "pending"
    \/ snap[w].state = "leased" /\ r.state = "leased" /\ r.expires = snap[w].expires

(* attempt_count is bound from the row that was read, not incremented. *)
ClaimRow(w) == Row("leased", Me(w), exp[w], snap[w].attempts + 1)

Granted(w) ==
    /\ ClaimIf(w, row[sid[w]])
    /\ row' = [row EXCEPT ![sid[w]] = ClaimRow(w)]
    /\ grants' = [grants EXCEPT ![sid[w]] = Append(@, Me(w))]

ClaimApply(w) ==
    /\ pc[w] = "claimApply"
    /\ \/ /\ Granted(w)
          /\ Goto(w, "runLog")
          /\ snap' = [snap EXCEPT ![w] = NoRow]
          /\ exp' = [exp EXCEPT ![w] = 0]
          /\ UNCHANGED <<taken, lastRenew, phase, result>>
       \/ Faulty /\ Granted(w) /\ Release(w)         \* applied, the reply is lost
       \/ /\ Faulty \/ ~ClaimIf(w, row[sid[w]])
          /\ UNCHANGED <<row, grants>>
          /\ Release(w)
    /\ UNCHANGED <<now, runs, dirty, finishers, inc, sid, scanVars>>

(* The run audit row, written under the new lease; last_renew starts here. *)
RunLog(w) ==
    /\ pc[w] = "runLog"
    /\ \/ runs' = [runs EXCEPT ![sid[w]] = @ \cup {<<Me(w), "running">>}]
       \/ Faulty /\ runs' = runs                     \* only a warning
    /\ lastRenew' = [lastRenew EXCEPT ![w] = Clock(w)]
    /\ Goto(w, "gate")
    /\ UNCHANGED <<now, row, dirty, grants, finishers, inc, sid, scanVars, snap,
                   taken, exp, phase, result>>

-----------------------------------------------------------------------------
(* run_consolidation_with_lease: a renewal gate in front of every phase. *)

StartWork(w) ==
    /\ Goto(w, "work")
    /\ dirty' = IF phase[w] = "dream" THEN [dirty EXCEPT ![sid[w]] = FALSE]
                                      ELSE dirty

(* renew_lease_if_due *)
RenewDue(w) == Clock(w) - lastRenew[w] >= LeaseSecs \div 2

Gate(w) ==
    /\ pc[w] = "gate"
    /\ \/ /\ RenewDue(w)
          /\ exp' = [exp EXCEPT ![w] = Clock(w) + LeaseSecs]
          /\ Goto(w, "renew")
          /\ dirty' = dirty
       \/ ~RenewDue(w) /\ StartWork(w) /\ exp' = exp
    /\ UNCHANGED <<now, row, runs, grants, finishers, inc, sid, scanVars, snap,
                   taken, lastRenew, phase, result>>

(* The IF clause shared by consolidation_request_renew and _complete. *)
OwnedBy(w, r) == r.state = "leased" /\ r.owner = Me(w)

RenewedRow(w, r) == Row(r.state, r.owner, exp[w], r.attempts)

(* A lost or failed renewal is only a warning: the phase starts anyway. *)
Renew(w) ==
    /\ pc[w] = "renew"
    /\ \/ /\ OwnedBy(w, row[sid[w]])
          /\ row' = [row EXCEPT ![sid[w]] = RenewedRow(w, @)]
          /\ \/ lastRenew' = [lastRenew EXCEPT ![w] = Clock(w)]
             \/ Faulty /\ lastRenew' = lastRenew
       \/ /\ Faulty \/ ~OwnedBy(w, row[sid[w]])
          /\ UNCHANGED <<row, lastRenew>>
    /\ exp' = [exp EXCEPT ![w] = 0]
    /\ StartWork(w)
    /\ UNCHANGED <<now, runs, grants, finishers, inc, sid, scanVars, snap, taken,
                   phase, result>>

(* The phase ends. Only the result of dream decides the run; after it comes
   the optional prune, and a failed dream leaves its writes uncovered. *)
Work(w) ==
    /\ pc[w] = "work"
    /\ \/ /\ phase[w] = "decay"
          /\ phase' = [phase EXCEPT ![w] = "dream"]
          /\ Goto(w, "gate")
          /\ UNCHANGED <<dirty, result>>
       \/ /\ phase[w] = "dream"
          /\ \/ UNCHANGED <<dirty, result>>
             \/ /\ Faulty
                /\ result' = [result EXCEPT ![w] = "failed"]
                /\ dirty' = [dirty EXCEPT ![sid[w]] = TRUE]
          /\ phase' = [phase EXCEPT ![w] = "prune"]
          /\ Goto(w, IF PruneOn THEN "gate" ELSE "completeRead")
       \/ /\ phase[w] = "prune"
          /\ Goto(w, "completeRead")
          /\ UNCHANGED <<dirty, phase, result>>
    /\ UNCHANGED <<now, row, runs, grants, finishers, inc, sid, scanVars, snap,
                   taken, exp, lastRenew>>

-----------------------------------------------------------------------------
(* consolidation_request_complete: read and check, LWT, then the run log. *)

CompleteRead(w) ==
    /\ pc[w] = "completeRead"
    /\ \/ /\ OwnedBy(w, row[sid[w]])
          /\ Goto(w, "completeApply")
          /\ UNCHANGED <<snap, taken, exp, lastRenew, phase, result>>
       \/ (Faulty \/ ~OwnedBy(w, row[sid[w]])) /\ Release(w)
    /\ UNCHANGED <<now, dbVars, inc, sid, scanVars>>

(* Mutant: the completion LWT does not name the owner. *)
CompleteIfLeased(w, r) == r.state = "leased"

CompleteIf(w, r) == OwnedBy(w, r)

(* Mutant: the run's status is stored as the state of the request. *)
FinishedRowRaw(w, r) == Row(result[w], NoOwner, 0, r.attempts)

FinishedRow(w, r) ==
    Row(IF result[w] = "failed" THEN "failed" ELSE "completed", NoOwner, 0, r.attempts)

Finished(w) ==
    /\ CompleteIf(w, row[sid[w]])
    /\ row' = [row EXCEPT ![sid[w]] = FinishedRow(w, @)]
    /\ finishers' = [finishers EXCEPT ![sid[w]] = Append(@, Me(w))]

(* Mutant: the answer of the LWT is not looked at. *)
CompleteApplyUnchecked(w) ==
    /\ pc[w] = "completeApply"
    /\ \/ Finished(w)
       \/ /\ ~CompleteIf(w, row[sid[w]])
          /\ UNCHANGED <<row, finishers>>
    /\ Goto(w, "finalLog")
    /\ UNCHANGED <<now, runs, dirty, grants, inc, sid, scanVars, snap, taken,
                   exp, lastRenew, phase, result>>

CompleteApply(w) ==
    /\ pc[w] = "completeApply"
    /\ \/ /\ Finished(w)
          /\ Goto(w, "finalLog")
          /\ UNCHANGED <<snap, taken, exp, lastRenew, phase, result>>
       \/ Faulty /\ Finished(w) /\ Release(w)        \* applied, the reply is lost
       \/ /\ Faulty \/ ~CompleteIf(w, row[sid[w]])
          /\ UNCHANGED <<row, finishers>>
          /\ Release(w)
    /\ UNCHANGED <<now, runs, dirty, grants, inc, sid, scanVars>>

FinalLog(w) ==
    /\ pc[w] = "finalLog"
    /\ \/ runs' = [runs EXCEPT ![sid[w]] = @ \cup {<<Me(w), "finished">>}]
       \/ Faulty /\ runs' = runs
    /\ Release(w)
    /\ UNCHANGED <<now, row, dirty, grants, finishers, inc, sid, scanVars>>

-----------------------------------------------------------------------------
(* The process dies anywhere, and comes back under a new lease_owner. *)

Crash(w) ==
    /\ Faulty
    /\ inc[w] < MaxCrash
    /\ pc[w] # "down"
    /\ pc' = [pc EXCEPT ![w] = "down"]
    /\ inc' = [inc EXCEPT ![w] = @ + 1]
    /\ dirty' = IF pc[w] = "work" /\ phase[w] = "dream"
                THEN [dirty EXCEPT ![sid[w]] = TRUE] ELSE dirty
    /\ found' = [found EXCEPT ![w] = {}]
    /\ scan' = [scan EXCEPT ![w] = "off"]
    /\ scanNow' = [scanNow EXCEPT ![w] = 0]
    /\ snap' = [snap EXCEPT ![w] = NoRow]
    /\ taken' = [taken EXCEPT ![w] = 0]
    /\ exp' = [exp EXCEPT ![w] = 0]
    /\ lastRenew' = [lastRenew EXCEPT ![w] = 0]
    /\ phase' = [phase EXCEPT ![w] = FirstPhase]
    /\ result' = [result EXCEPT ![w] = "success"]
    /\ UNCHANGED <<now, row, runs, grants, finishers, sid>>

Restart(w) ==
    /\ pc[w] = "down"
    /\ Goto(w, "sleep")
    /\ UNCHANGED <<now, dbVars, inc, sid, scanVars, snap, taken, exp, lastRenew,
                   phase, result>>

(* Time passes, also during a phase: nothing ends a run that takes long. *)
Tick ==
    /\ now < MaxTime
    /\ now' = now + 1
    /\ UNCHANGED <<dbVars, workerVars>>

-----------------------------------------------------------------------------
(* What worker w does on its own, without crashing. *)
WorkerStep(w) ==
    \/ Wake(w) \/ ScanPending(w) \/ ScanStale(w)
    \/ (\E s \in Sessions : Take(w, s))
    \/ PassDone(w) \/ ClaimRead(w) \/ ClaimApply(w) \/ RunLog(w)
    \/ Gate(w) \/ Renew(w) \/ Work(w)
    \/ CompleteRead(w) \/ CompleteApply(w) \/ FinalLog(w) \/ Restart(w)

Next ==
    \/ Tick
    \/ \E s \in Sessions : WriteTool(s)
    \/ \E w \in Replicas : WorkerStep(w) \/ ScanFails(w) \/ Crash(w)

Spec == Init /\ [][Next]_vars

(* The tokio runtime polls the worker task and its stream task separately,
   and time passes; crashes, errors and write tools are never promised. *)
Fairness ==
    /\ WF_vars(Tick)
    /\ \A w \in Replicas :
          /\ WF_vars(WorkerStep(w))
          /\ WF_vars(ScanPending(w) \/ ScanStale(w))

LiveSpec == Spec /\ Fairness

-----------------------------------------------------------------------------
(* attempt_count is bound client-side from a row read earlier, yet it always
   equals the number of claims the database applied ("only one racer's value
   is ever written", consolidation_request_claim). *)
AttemptCountExact == \A s \in Sessions : row[s].attempts = Len(grants[s])

(* A row is completed or failed exactly by the owner of the last claim, once:
   a worker that lost its lease never finishes the row of the one that took
   it over (consolidation_request_complete). *)
CompletionFenced ==
    \A s \in Sessions :
        IF Terminal(row[s])
        THEN /\ grants[s] # <<>>
             /\ finishers[s] = <<grants[s][Len(grants[s])]>>
        ELSE finishers[s] = <<>>

(* The audit log never shows a finished run of an owner whose completion was
   refused, nor a run of an owner that never got the lease. *)
RunLogBacked ==
    \A s \in Sessions : \A e \in runs[s] :
        /\ e[2] = "finished" => finishers[s] = <<e[1]>>
        /\ \E i \in 1..Len(grants[s]) : grants[s][i] = e[1]

(* A lease changes hands only when it has expired on the claimant's clock,
   also when it was renewed between the claimant's read and its LWT. *)
NoLiveSteal ==
    [][\A s \in Sessions :
          (row[s].state = "leased" /\ row'[s].state = "leased"
             /\ Len(grants'[s]) > Len(grants[s]))
          => row[s].expires <= now + Skew[row'[s].owner[1]]]_vars

(* The rows as jobs of LeasedJob: clocks, expiry and workers are forgotten. *)
JobPhase(st) ==
    CASE st = "absent" -> "none" [] st = "pending" -> "open" [] st = "leased" -> "held"
      [] OTHER -> "closed"

JobOf(s) ==
    [phase |-> JobPhase(row[s].state), holder |-> row[s].owner,
     epoch |-> row[s].attempts,
     closer |-> IF finishers[s] = <<>> THEN NoOwner ELSE finishers[s][1]]

Job == INSTANCE LeasedJob WITH
           Jobs <- Sessions, Holders <- Owners, NoHolder <- NoOwner,
           job <- [s \in Sessions |-> JobOf(s)]

(* The queue implements LeasedJob: whatever the interleaving of claims,
   renewals, crashes and lost replies, each grant gets the next epoch and the
   job is closed once, by its holder. *)
ImplementsLeasedJob == Job!Spec

(* The strengthening the proofs use.  A row carries what its last grant put
   there; a snapshot taken for a claim is never newer than its row, and two
   leases of one row never end at the same time; an owner's lease never ends
   later than its own clock allows; no row names a process yet to start. *)
RowInv ==
    \A s \in Sessions :
        /\ row[s].state \in {"absent", "pending"} =>
              row[s].attempts = 0 /\ row[s].owner = NoOwner
        /\ row[s].state = "leased" =>
              /\ grants[s] # <<>>
              /\ row[s].owner = grants[s][Len(grants[s])]
              /\ row[s].owner \in Owners
              /\ row[s].owner[2] <= inc[row[s].owner[1]]
              /\ row[s].owner[2] = inc[row[s].owner[1]]
                    => row[s].expires <= Clock(row[s].owner[1]) + LeaseSecs

SnapInv ==
    \A w \in Replicas :
        pc[w] = "claimApply" =>
            /\ snap[w].state \in {"pending", "leased"}
            /\ snap[w].state = "pending" => snap[w].attempts = 0
            /\ snap[w].state = "leased" =>
                  /\ snap[w].expires <= taken[w]
                  /\ row[sid[w]].state \notin {"absent", "pending"}
            /\ (snap[w].state = "leased" /\ row[sid[w]].state = "leased") =>
                  /\ snap[w].attempts <= row[sid[w]].attempts
                  /\ snap[w].expires <= row[sid[w]].expires
                  /\ snap[w].attempts < row[sid[w]].attempts
                        => snap[w].expires < row[sid[w]].expires

LeaseEndInv ==
    \A w \in Replicas :
        /\ pc[w] \in {"claimRead", "claimApply"} =>
              taken[w] <= Clock(w) /\ exp[w] = taken[w] + LeaseSecs
        /\ pc[w] = "renew" =>
              /\ exp[w] <= Clock(w) + LeaseSecs
              /\ OwnedBy(w, row[sid[w]]) => row[sid[w]].expires <= exp[w]

LogInv ==
    \A w \in Replicas :
        /\ pc[w] \in Holding \cup {"finalLog"} =>
              \E i \in 1..Len(grants[sid[w]]) : grants[sid[w]][i] = Me(w)
        /\ pc[w] = "finalLog" => finishers[sid[w]] = <<Me(w)>>

LeaseInv == TypeOK /\ RowInv /\ SnapInv /\ LeaseEndInv /\ AttemptCountExact

FenceInv == LeaseInv /\ CompletionFenced /\ LogInv /\ RunLogBacked

(* "Exactly one replica consolidates a given (tenant, session) at a time",
   except for a run that has outlasted its lease: when two replicas work on
   one session, one of them claimed it at a time when the lease the other
   was granted was over, whatever was renewed, lost or skewed meanwhile. *)
Outlasted(v, w) == taken[v] + LeaseSecs <= taken[w]

OneConsolidator ==
    \A v, w \in Replicas :
        (v # w /\ pc[v] \in Holding /\ pc[w] \in Holding /\ sid[v] = sid[w])
            => Outlasted(v, w) \/ Outlasted(w, v)

(* A request a write tool made is eventually finished, whoever crashes or
   loses a reply on the way: an expired lease is taken over. *)
RequestFinishes ==
    \A s \in Sessions : (row[s].state # "absent") ~> Terminal(row[s])

(* Every successful write is eventually covered by a consolidation. *)
WritesConsolidated == \A s \in Sessions : dirty[s] ~> ~dirty[s]

=============================================================================
