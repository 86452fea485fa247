------------------------------ MODULE NoteShare ------------------------------
(***************************************************************************)
(* One note share: its durable row and read counter, the process-local     *)
(* ledger of every owner process (note_share.rs), and the handlers that    *)
(* create, read and revoke it (dispatch.rs).                               *)
(*                                                                         *)
(* Every statement of the store and every locked section of the ledger is  *)
(* one step.  Requests of one process run concurrently, a statement may    *)
(* fail with or without its effect, and a process may restart.             *)
(***************************************************************************)
EXTENDS Naturals, FiniteSets

CONSTANTS
    Procs,          \* processes of the owner's server
    Reads,          \* note_share_read requests
    Foreign,        \* the ones not made by the recipient's account
    Revokes,        \* note_share_revoke requests of the owner
    Creator,        \* the process that serves note_share_create
    ProcOf,         \* ProcOf[r]: the process that serves request r
    Limit,          \* successful_read_limit
    MaxFaults       \* bound: failed statements and restarts

Requests == Reads \cup Revokes

ASSUME NSAssumption ==
    /\ Reads \cap Revokes = {}
    /\ Foreign \subseteq Reads
    /\ Creator \in Procs
    /\ ProcOf \in [Requests -> Procs]
    /\ Limit \in Nat /\ MaxFaults \in Nat

VARIABLES
    row,            \* note_share_entitlements
    counter,        \* note_share_read_counters
    audits,         \* note_share_audit: the requests with a "success" row
    ledger,         \* GLOBAL_NOTE_SHARES of a process
    expired,        \* the clock has passed expires_at
    create,         \* progress of note_share_create
    pc, snap, lateAt,
    delivered,      \* history: reads answered with the content
    fenced,         \* history: reads that came after the end of the share
    cut,            \* history: reads in flight when their process revoked
    faults          \* faults so far

storeVars   == <<row, counter, audits>>
historyVars == <<delivered, fenced, cut>>
vars == <<storeVars, ledger, expired, create, pc, snap, lateAt, historyVars, faults>>

-----------------------------------------------------------------------------
Snapshots == [revoked: BOOLEAN, reads: Nat]

Shares == [known: BOOLEAN, revoked: BOOLEAN, reads: Nat, flight: SUBSET Reads]

NoShare == [known |-> FALSE, revoked |-> FALSE, reads |-> 0, flight |-> {}]

FreshShare == [NoShare EXCEPT !.known = TRUE]

Labels == {"idle", "loadCounter", "replace", "begin", "fetch", "complete",
           "audit", "count", "local", "done"}

TypeOK ==
    /\ row \in {"absent", "open", "revoked"}
    /\ counter \in Nat /\ audits \subseteq Reads
    /\ ledger \in [Procs -> Shares]
    /\ expired \in BOOLEAN
    /\ create \in {"persist", "insert", "shared", "failed"}
    /\ pc \in [Requests -> Labels]
    /\ snap \in [Reads -> Snapshots]
    /\ lateAt \in [Reads -> BOOLEAN]
    /\ delivered \subseteq Reads /\ fenced \subseteq Reads /\ cut \subseteq Reads
    /\ faults \in Nat

Init ==
    /\ row = "absent" /\ counter = 0 /\ audits = {}
    /\ ledger = [p \in Procs |-> NoShare]
    /\ expired = FALSE
    /\ create = "persist"
    /\ pc = [r \in Requests |-> "idle"]
    /\ snap = [r \in Reads |-> [revoked |-> FALSE, reads |-> 0]]
    /\ lateAt = [r \in Reads |-> FALSE]
    /\ delivered = {} /\ fenced = {} /\ cut = {}
    /\ faults = 0

-----------------------------------------------------------------------------
Fault == faults < MaxFaults /\ faults' = faults + 1

NoFault == faults' = faults

Goto(r, label) == pc' = [pc EXCEPT ![r] = label]

(* The statement fails and the handler returns its error. *)
Fails(r) == Fault /\ Goto(r, "done")

-----------------------------------------------------------------------------
(* handle_note_share_create: the id is not known to anyone before it answers. *)

Persist ==
    /\ create = "persist"
    /\ row' = "open"
    /\ create' = "insert"
    /\ UNCHANGED <<counter, audits, ledger, expired, pc, snap, lateAt, historyVars, faults>>

Insert ==
    /\ create = "insert"
    /\ ledger' = [ledger EXCEPT ![Creator] = FreshShare]
    /\ create' = "shared"
    /\ UNCHANGED <<storeVars, expired, pc, snap, lateAt, historyVars, faults>>

-----------------------------------------------------------------------------
(* handle_note_share_read *)

(* A request of the process that has read the row and not yet replaced the
   ledger entry: its snapshot may be older than what the ledger knows. *)
HoldsSnapshot(r) == pc[r] \in {"loadCounter", "replace"}

(* The share has ended, and no request of the process holds an older view. *)
Over(p) ==
    /\ row = "revoked" \/ counter >= Limit
    /\ \A r \in Reads : ProcOf[r] = p => ~HoldsSnapshot(r)

(* The clock is read, and then the row (note_share_get). *)
LoadRow(r) ==
    /\ pc[r] = "idle" /\ create = "shared"
    /\ lateAt' = [lateAt EXCEPT ![r] = expired]
    /\ fenced' = IF Over(ProcOf[r]) THEN fenced \cup {r} ELSE fenced
    /\ \/ /\ snap' = [snap EXCEPT ![r].revoked = (row = "revoked")]
          /\ NoFault /\ Goto(r, "loadCounter")
       \/ snap' = snap /\ Fails(r)
    /\ UNCHANGED <<storeVars, ledger, expired, create, delivered, cut>>

(* Mutant: the snapshot keeps the count of the stored policy. *)
LoadCounterStored(r) ==
    /\ pc[r] = "loadCounter"
    /\ NoFault /\ Goto(r, "replace")
    /\ UNCHANGED <<storeVars, ledger, expired, create, snap, lateAt, historyVars>>

LoadCounter(r) ==
    /\ pc[r] = "loadCounter"
    /\ \/ /\ snap' = [snap EXCEPT ![r].reads = counter]  \* restore_successful_reads
          /\ NoFault /\ Goto(r, "replace")
       \/ snap' = snap /\ Fails(r)
    /\ UNCHANGED <<storeVars, ledger, expired, create, lateAt, historyVars>>

(* Mutant: the snapshot's empty set of reservations is kept. *)
RefreshedEmpty(l, s) ==
    [known |-> TRUE, revoked |-> s.revoked, reads |-> s.reads, flight |-> {}]

(* Mutant: the count is what the ledger has not seen yet, and underflows when
   the ledger is ahead of the store. *)
RefreshedDelta(l, s) ==
    [known |-> TRUE, revoked |-> s.revoked, reads |-> s.reads - l.reads, flight |-> l.flight]

(* NoteShareLedger::replace: the snapshot wins, reservations are preserved. *)
Refreshed(l, s) ==
    [known |-> TRUE, revoked |-> s.revoked, reads |-> s.reads, flight |-> l.flight]

Replace(r) ==
    /\ pc[r] = "replace"
    /\ ledger' = [ledger EXCEPT ![ProcOf[r]] = Refreshed(@, snap[r])]
    /\ Goto(r, "begin")
    /\ UNCHANGED <<storeVars, expired, create, snap, lateAt, historyVars, faults>>

(* NoteShare::authorize, with the clock the request read when it came. *)
Authorized(r, l) ==
    /\ l.known /\ ~l.revoked
    /\ r \notin Foreign
    /\ ~lateAt[r]
    /\ l.reads + Cardinality(l.flight) < Limit

Begin(r) ==
    /\ pc[r] = "begin"
    /\ LET p == ProcOf[r] IN
       \/ /\ Authorized(r, ledger[p])
          /\ ledger' = [ledger EXCEPT ![p].flight = @ \cup {r}]
          /\ Goto(r, "fetch")
       \/ ~Authorized(r, ledger[p]) /\ ledger' = ledger /\ Goto(r, "done")
    /\ UNCHANGED <<storeVars, expired, create, snap, lateAt, historyVars, faults>>

(* A live note is fetched; when it is gone, or the statement fails, the handler
   returns and its reservation stays in the ledger. *)
Fetch(r) ==
    /\ pc[r] = "fetch"
    /\ Goto(r, "complete") \/ Goto(r, "done")
    /\ UNCHANGED <<storeVars, ledger, expired, create, snap, lateAt, historyVars, faults>>

(* NoteShare::complete_read *)
Complete(r) ==
    /\ pc[r] = "complete"
    /\ LET p == ProcOf[r]  l == ledger[p] IN
       /\ ledger' = [ledger EXCEPT ![p].flight = @ \ {r},
                                   ![p].reads = IF l.revoked \/ expired \/ r \notin l.flight
                                                THEN @ ELSE @ + 1]
       /\ Goto(r, IF l.revoked \/ expired \/ r \notin l.flight THEN "done" ELSE "audit")
    /\ UNCHANGED <<storeVars, expired, create, snap, lateAt, historyVars, faults>>

Audit(r) ==
    /\ pc[r] = "audit"
    /\ \/ audits' = audits \cup {r} /\ NoFault /\ Goto(r, "count")
       \/ audits' \in {audits, audits \cup {r}} /\ Fails(r)
    /\ UNCHANGED <<row, counter, ledger, expired, create, snap, lateAt, historyVars>>

(* Mutant: a failed count is logged and the content is returned. *)
CountBestEffort(r) ==
    /\ pc[r] = "count"
    /\ Goto(r, "done")
    /\ delivered' = delivered \cup {r}
    /\ \/ counter' = counter + 1 /\ NoFault
       \/ counter' = counter /\ Fault
    /\ UNCHANGED <<row, audits, ledger, expired, create, snap, lateAt, fenced, cut>>

(* The counter goes up and the content is returned; on an error it is not. *)
Count(r) ==
    /\ pc[r] = "count"
    /\ \/ /\ counter' = counter + 1
          /\ delivered' = delivered \cup {r}
          /\ NoFault /\ Goto(r, "done")
       \/ counter' \in {counter, counter + 1} /\ delivered' = delivered /\ Fails(r)
    /\ UNCHANGED <<row, audits, ledger, expired, create, snap, lateAt, fenced, cut>>

-----------------------------------------------------------------------------
(* handle_note_share_revoke: IF owner_account_id = ? AND revoked = false, then
   the ledger of this process. *)

RevokeRow(v) ==
    /\ pc[v] = "idle" /\ create = "shared"
    /\ \/ row = "open" /\ row' = "revoked" /\ NoFault /\ Goto(v, "local")
       \/ row' \in {row, "revoked"} /\ Fails(v)
       \/ row = "revoked" /\ row' = row /\ NoFault /\ Goto(v, "done")
    /\ UNCHANGED <<counter, audits, ledger, expired, create, snap, lateAt, historyVars>>

(* Mutant: the reservations survive the revocation. *)
RevokedKeepsFlight(l) == IF l.known THEN [l EXCEPT !.revoked = TRUE] ELSE l

(* NoteShare::revoke; a ledger without the share answers NotFound. *)
Revoked(l) == IF l.known THEN [l EXCEPT !.revoked = TRUE, !.flight = {}] ELSE l

RevokeLocal(v) ==
    /\ pc[v] = "local"
    /\ LET p == ProcOf[v] IN
       /\ ledger' = [ledger EXCEPT ![p] = Revoked(@)]
       /\ cut' = cut \cup ledger[p].flight
    /\ Goto(v, "done")
    /\ UNCHANGED <<storeVars, expired, create, snap, lateAt, delivered, fenced, faults>>

-----------------------------------------------------------------------------
Expire ==
    /\ ~expired
    /\ expired' = TRUE
    /\ UNCHANGED <<storeVars, ledger, create, pc, snap, lateAt, historyVars, faults>>

(* The process restarts: its ledger and the requests it served are gone. *)
Restart(p) ==
    /\ Fault
    /\ ledger' = [ledger EXCEPT ![p] = NoShare]
    /\ pc' = [r \in Requests |-> IF ProcOf[r] = p /\ pc[r] # "idle" THEN "done" ELSE pc[r]]
    /\ create' = IF p = Creator /\ create = "insert" THEN "failed" ELSE create
    /\ UNCHANGED <<storeVars, expired, snap, lateAt, historyVars>>

ReadStep(r) ==
    \/ LoadRow(r) \/ LoadCounter(r) \/ Replace(r) \/ Begin(r)
    \/ Fetch(r) \/ Complete(r) \/ Audit(r) \/ Count(r)

Next ==
    \/ Persist \/ Insert \/ Expire
    \/ \E r \in Reads : ReadStep(r)
    \/ \E v \in Revokes : RevokeRow(v) \/ RevokeLocal(v)
    \/ \E p \in Procs : Restart(p)

Spec == Init /\ [][Next]_vars

-----------------------------------------------------------------------------
(* Content never leaves uncounted: whatever fails or overlaps, the durable
   counter and the audit table know of every delivered read. *)
DeliveredCounted ==
    Cardinality(delivered) <= counter /\ delivered \subseteq audits

(* "This lets a revoke made on another owner device take effect immediately"
   (replace), and the same for a spent budget: a read that comes once the share
   was revoked or its limit reached is refused, whatever requests overlap it
   later, provided that no request of the process holds an older snapshot when
   it comes: one that does puts it back and the share is open again. *)
EndIsFinal == fenced \cap delivered = {}

(* A read that is between begin and complete when its process revokes the share
   is not delivered, even if a stale snapshot reopens the ledger entry. *)
RevokedReadDropped == cut \cap delivered = {}

(* durable_refresh_does_not_strand_an_in_flight_read: a begun read keeps its
   reservation until it completes, unless its process revoked the share. *)
ReservationKept ==
    \A r \in Reads :
        pc[r] \in {"fetch", "complete"} => r \in ledger[ProcOf[r]].flight \cup cut
=============================================================================
