------------------------------ MODULE Knowledge ------------------------------
(***************************************************************************)
(* The knowledge lifecycle (knowledge.rs) over its CQL tables: an item,    *)
(* its first version and one row in each of the two queues, which are      *)
(* keyed by state; the review of an item from a phone (knowledge_view.rs)  *)
(* and the filing of claims at the end of a session (bin/session-claims).  *)
(*                                                                         *)
(* Every statement is one step and none is conditional.  A worker is a     *)
(* review request or a run of session-claims, which walks the queues once  *)
(* and then files, one after the other, the deliverables it found and did  *)
(* not see; a statement that fails ends the review or the deliverable      *)
(* where it is.  A failure that reports an error after it took effect is   *)
(* the failure of the next statement.                                      *)
(***************************************************************************)
EXTENDS Naturals, Sequences, FiniteSetsExt

CONSTANTS
    Workers,        \* review requests and runs of session-claims
    Filers,         \* the workers that are runs of session-claims
    Urls,           \* the deliverables, each named by its pull request
    Found,          \* what a run may find in the transcripts, sorted by time
    Bands,          \* the priority bands, in the order they are read
    Band,           \* priority_band of a deliverable
    NoUrl,
    MaxItems,       \* bound: items proposed
    MaxRuns,        \* bound: runs of session-claims
    ClaimDays,      \* CLAIM_EXPIRY_DAYS
    ExpiryDays,     \* DEFAULT_EXPIRY_DAYS, the horizon of the claims view
    PageLimit,      \* rows per page
    MaxDay,         \* bound: days
    Outcomes,       \* bound: what a forge may have recorded of a deliverable
    MaxDecisions,   \* bound: decisions
    MaxFaults       \* bound: failed statements

ASSUME KNAssumption ==
    /\ Filers \subseteq Workers /\ NoUrl \notin Urls
    /\ Found \subseteq Seq(Urls) \ {<<>>}
    /\ Bands \in Seq(STRING)
    /\ \A u \in Urls : \E k \in 1..Len(Bands) : Band[u] = Bands[k]
    /\ MaxItems \in Nat /\ MaxRuns \in Nat
    /\ ClaimDays \in Nat /\ ExpiryDays \in Nat
    /\ ClaimDays <= ExpiryDays
    /\ PageLimit \in Nat \ {0}
    /\ Outcomes \subseteq {"approved", "rejected"}
    /\ MaxDay \in Nat /\ MaxDecisions \in Nat /\ MaxFaults \in Nat

Items == 1..MaxItems        \* in the order of their page keys

States == {"proposed", "revisit", "approved", "expired", "superseded", "rejected"}

Days == 0..(MaxDay + ExpiryDays)

NoItem == [state |-> "none", exp |-> 0]

ItemRows == [state: States, exp: Days]

VARIABLES
    item,           \* knowledge_item
    version,        \* knowledge_version: ids with their first version
    byState,        \* knowledge_by_state: <<state, id>>
    byExpiry,       \* knowledge_by_expiry: <<state, day, id>>
    url,            \* body_url of the first version
    issued,         \* ids handed out
    runs,           \* runs of session-claims begun
    pc, work,       \* a worker and what it holds
    today, decisions, faults,
    filedBy,        \* history: the run that filed an item
    raced,          \* history: deliverables on which two workers met
    failed,         \* history: deliverables on which a write failed halfway
    torn            \* history: items whose last worker failed halfway

dbVars   == <<item, version, byState, byExpiry>>
histVars == <<raced, failed, torn>>
idVars   == <<url, issued, filedBy>>
vars == <<dbVars, idVars, runs, pc, work, today, decisions, faults, histVars>>

-----------------------------------------------------------------------------
(* already_filed reads the queues in this order; the last two it reads, expired
   and superseded, are empty, because nothing decides that. *)
WalkStates == <<"proposed", "revisit", "approved", "rejected">>

Partitions == [k \in 1..(Len(WalkStates) * Len(Bands)) |->
                  [state |-> WalkStates[((k - 1) \div Len(Bands)) + 1],
                   band  |-> Bands[((k - 1) % Len(Bands)) + 1]]]

Labels == {"idle", "walk", "claim", "pItem", "pVersion", "read", "unState", "unExpiry",
           "dItem", "inState", "inExpiry"}

(* What a worker holds: the deliverable, the item, its row as read or as
   written, the decision, the position and result of the walk, the deliverables
   that are still to come and the number of the run. *)
Idle == [url |-> NoUrl, id |-> 0, row |-> NoItem, to |-> "none",
         part |-> 1, cursor |-> MaxItems + 1, seen |-> {}, rest |-> <<>>, run |-> 0]

TypeOK ==
    /\ item \in [Items -> ItemRows \cup {NoItem}]
    /\ version \subseteq Items
    /\ byState \subseteq States \X Items
    /\ byExpiry \subseteq States \X Days \X Items
    /\ url \in [Items -> Urls \cup {NoUrl}]
    /\ issued \in 0..MaxItems /\ runs \in 0..MaxRuns
    /\ filedBy \in [Items -> 0..MaxRuns]
    /\ pc \in [Workers -> Labels]
    /\ work \in [Workers -> [url: Urls \cup {NoUrl}, id: 0..MaxItems,
                             row: ItemRows \cup {NoItem}, to: States \cup {"none"},
                             part: 1..(Len(Partitions) + 1), cursor: 1..(MaxItems + 1),
                             seen: SUBSET Urls, rest: Seq(Urls), run: 0..MaxRuns]]
    /\ today \in 0..MaxDay /\ decisions \in 0..MaxDecisions /\ faults \in 0..MaxFaults
    /\ raced \subseteq Urls /\ failed \subseteq Urls /\ torn \subseteq Items

Init ==
    /\ item = [i \in Items |-> NoItem]
    /\ version = {} /\ byState = {} /\ byExpiry = {}
    /\ url = [i \in Items |-> NoUrl]
    /\ issued = 0 /\ runs = 0
    /\ filedBy = [i \in Items |-> 0]
    /\ pc = [w \in Workers |-> "idle"]
    /\ work = [w \in Workers |-> Idle]
    /\ today = 0 /\ decisions = 0 /\ faults = 0
    /\ raced = {} /\ failed = {} /\ torn = {}

-----------------------------------------------------------------------------
Goto(w, label) == pc' = [pc EXCEPT ![w] = label]

Finish(w) == Goto(w, "idle") /\ work' = [work EXCEPT ![w] = Idle]

(* The end of a deliverable: the run goes on with the next, a review is over.
   What the walk saw is not walked again. *)
GoOn(w) ==
    LET rest == work[w].rest IN
    IF rest = <<>>
    THEN Finish(w)
    ELSE /\ work' = [work EXCEPT ![w] = [Idle EXCEPT !.url = Head(rest), !.rest = Tail(rest),
                                                     !.seen = work[w].seen, !.run = work[w].run]]
         /\ Goto(w, "claim")

(* A run of session-claims is on every deliverable it has yet to file. *)
On(w) == {work[w].url} \cup {work[w].rest[k] : k \in 1..Len(work[w].rest)}

(* A worker begins with deliverables of which others are busy with some. *)
Meet(w, U) == raced' = raced \cup {u \in U : \E v \in Workers \ {w} : u \in On(v)}

(* transition *)
Legal(from, to) ==
    \/ from \in {"proposed", "revisit"} /\ to \in {"approved", "revisit", "rejected"}
    \/ from = "approved" /\ to \in {"rejected", "superseded"}
    \/ from \in {"approved", "proposed", "revisit"} /\ to = "expired"

-----------------------------------------------------------------------------
(* session-claims *)

(* Of equal deliverables that were found only neighbours are removed: one that
   was found again after another one stays. *)
FileStart(w, found) ==
    /\ pc[w] = "idle" /\ w \in Filers
    /\ runs < MaxRuns /\ runs' = runs + 1
    /\ Meet(w, {found[k] : k \in 1..Len(found)})
    /\ work' = [work EXCEPT ![w] = [Idle EXCEPT !.url = Head(found), !.rest = Tail(found),
                                                !.run = runs + 1]]
    /\ Goto(w, "walk")
    /\ UNCHANGED <<dbVars, idVars, today, decisions, faults, failed, torn>>

(* page: the newest rows of a partition below the cursor, one more than asked
   for, to learn whether there is another page. *)
PageIds(p, cursor) ==
    {i \in Items : i < cursor /\ <<p.state, i>> \in byState /\ Band[url[i]] = p.band}

Newest(S, n) == {i \in S : Cardinality({j \in S : j > i}) < n}

(* Mutant: only what still awaits a person is looked up. *)
WalkPending(w) ==
    /\ pc[w] = "walk"
    /\ LET k     == work[w].part
           ids   == PageIds(Partitions[k], work[w].cursor)
           shown == Newest(ids, PageLimit)
           more  == shown # ids
       IN  /\ work' = [work EXCEPT ![w].seen = @ \cup {url[i] : i \in shown \cap version},
                                   ![w].cursor = IF more THEN Min(shown) ELSE MaxItems + 1,
                                   ![w].part = IF more THEN k ELSE k + 1]
           /\ Goto(w, IF ~more /\ k = 2 * Len(Bands) THEN "claim" ELSE "walk")
    /\ UNCHANGED <<dbVars, idVars, runs, today, decisions, faults, histVars>>

(* already_filed *)
Walk(w) ==
    /\ pc[w] = "walk"
    /\ LET k     == work[w].part
           ids   == PageIds(Partitions[k], work[w].cursor)
           shown == Newest(ids, PageLimit)
           more  == shown # ids
       IN  /\ work' = [work EXCEPT ![w].seen = @ \cup {url[i] : i \in shown \cap version},
                                   ![w].cursor = IF more THEN Min(shown) ELSE MaxItems + 1,
                                   ![w].part = IF more THEN k ELSE k + 1]
           /\ Goto(w, IF ~more /\ k = Len(Partitions) THEN "claim" ELSE "walk")
    /\ UNCHANGED <<dbVars, idVars, runs, today, decisions, faults, histVars>>

(* A deliverable that was seen is skipped; a new one gets an id and the expiry
   of a claim. *)
Claim(w) ==
    /\ pc[w] = "claim"
    /\ IF work[w].url \in work[w].seen
       THEN GoOn(w) /\ UNCHANGED idVars
       ELSE /\ issued < MaxItems
            /\ issued' = issued + 1
            /\ url' = [url EXCEPT ![issued + 1] = work[w].url]
            /\ filedBy' = [filedBy EXCEPT ![issued + 1] = work[w].run]
            /\ work' = [work EXCEPT ![w].id = issued + 1,
                                    ![w].row = [state |-> "proposed", exp |-> today + ClaimDays]]
            /\ Goto(w, "pItem")
    /\ UNCHANGED <<dbVars, runs, today, decisions, faults, histVars>>

-----------------------------------------------------------------------------
(* propose and decide *)

WriteItem(w) == item' = [item EXCEPT ![work[w].id] = work'[w].row]

ProposeItem(w) ==
    /\ pc[w] = "pItem"
    /\ work' = work /\ WriteItem(w)
    /\ Goto(w, "pVersion")
    /\ UNCHANGED <<version, byState, byExpiry, idVars, runs, today, decisions, faults, histVars>>

ProposeVersion(w) ==
    /\ pc[w] = "pVersion"
    /\ version' = version \cup {work[w].id}
    /\ Goto(w, "inState")
    /\ UNCHANGED <<item, byState, byExpiry, idVars, runs, work, today, decisions, faults, histVars>>

(* A person decides on an item that exists. *)
DecideStart(w, i, to) ==
    /\ pc[w] = "idle" /\ w \notin Filers
    /\ item[i] # NoItem
    /\ decisions < MaxDecisions /\ decisions' = decisions + 1
    /\ Meet(w, {url[i]})
    /\ work' = [work EXCEPT ![w] = [Idle EXCEPT !.url = url[i], !.id = i, !.to = to]]
    /\ Goto(w, "read")
    /\ UNCHANGED <<dbVars, idVars, runs, today, faults, failed, torn>>

(* Mutant: the expiry is reset before the item is taken out of its bucket. *)
ReadItemReset(w) ==
    /\ pc[w] = "read"
    /\ LET row == item[work[w].id] IN
       IF Legal(row.state, work[w].to)
       THEN /\ work' = [work EXCEPT ![w].row =
                           [row EXCEPT !.exp = IF work[w].to = "approved" THEN today + ExpiryDays ELSE @]]
            /\ Goto(w, "unState")
       ELSE GoOn(w)
    /\ UNCHANGED <<dbVars, idVars, runs, today, decisions, faults, histVars>>

(* decide: an illegal transition is refused before anything is written. *)
ReadItem(w) ==
    /\ pc[w] = "read"
    /\ LET row == item[work[w].id] IN
       IF Legal(row.state, work[w].to)
       THEN work' = [work EXCEPT ![w].row = row] /\ Goto(w, "unState")
       ELSE GoOn(w)
    /\ UNCHANGED <<dbVars, idVars, runs, today, decisions, faults, histVars>>

UnindexState(w) ==
    /\ pc[w] = "unState"
    /\ byState' = byState \ {<<work[w].row.state, work[w].id>>}
    /\ Goto(w, "unExpiry")
    /\ UNCHANGED <<item, version, byExpiry, idVars, runs, work, today, decisions, faults, histVars>>

UnindexExpiry(w) ==
    /\ pc[w] = "unExpiry"
    /\ byExpiry' = byExpiry \ {<<work[w].row.state, work[w].row.exp, work[w].id>>}
    /\ Goto(w, "dItem")
    /\ UNCHANGED <<item, version, byState, idVars, runs, work, today, decisions, faults, histVars>>

(* Approval resets the expiry. *)
DecideItem(w) ==
    /\ pc[w] = "dItem"
    /\ work' = [work EXCEPT ![w].row =
                   [state |-> work[w].to,
                    exp   |-> IF work[w].to = "approved" THEN today + ExpiryDays ELSE @.exp]]
    /\ WriteItem(w)
    /\ Goto(w, "inState")
    /\ UNCHANGED <<version, byState, byExpiry, idVars, runs, today, decisions, faults, histVars>>

IndexState(w) ==
    /\ pc[w] = "inState"
    /\ byState' = byState \cup {<<work[w].row.state, work[w].id>>}
    /\ Goto(w, "inExpiry")
    /\ UNCHANGED <<item, version, byExpiry, idVars, runs, work, today, decisions, faults, histVars>>

(* The end of a proposal, which may be followed by the outcome that the forge
   recorded, or of a decision; its feedback changes nothing modelled. *)
IndexExpiry(w) ==
    /\ pc[w] = "inExpiry"
    /\ byExpiry' = byExpiry \cup {<<work[w].row.state, work[w].row.exp, work[w].id>>}
    /\ \/ GoOn(w)
       \/ /\ work[w].to = "none"
          /\ \E to \in Outcomes : work' = [work EXCEPT ![w].to = to]
          /\ Goto(w, "read")
    /\ torn' = IF work[w].url \in raced THEN torn ELSE torn \ {work[w].id}
    /\ UNCHANGED <<item, version, byState, idVars, runs, today, decisions, faults, raced, failed>>

-----------------------------------------------------------------------------
(* A statement fails, or the process of the worker dies: before the first
   write, or halfway.  A run survives a deliverable that it could not file. *)
Fail(w) ==
    /\ pc[w] # "idle"
    /\ faults < MaxFaults
    /\ faults' = faults + 1
    /\ LET halfway == pc[w] \in {"pVersion", "unExpiry", "dItem", "inState", "inExpiry"}
       IN  /\ failed' = IF halfway THEN failed \cup {work[w].url} ELSE failed
           /\ torn' = IF halfway THEN torn \cup {work[w].id} ELSE torn
    /\ Finish(w) \/ (pc[w] \notin {"walk", "claim"} /\ GoOn(w))
    /\ UNCHANGED <<dbVars, idVars, runs, today, decisions, raced>>

Midnight ==
    /\ today < MaxDay
    /\ today' = today + 1
    /\ UNCHANGED <<dbVars, idVars, runs, pc, work, decisions, faults, histVars>>

Step(w) ==
    \/ \E found \in Found : FileStart(w, found)
    \/ Walk(w) \/ Claim(w) \/ ProposeItem(w) \/ ProposeVersion(w)
    \/ \E i \in Items : \E to \in {"approved", "rejected", "revisit"} : DecideStart(w, i, to)
    \/ ReadItem(w) \/ UnindexState(w) \/ UnindexExpiry(w) \/ DecideItem(w)
    \/ IndexState(w) \/ IndexExpiry(w)
    \/ Fail(w)

Next == Midnight \/ \E w \in Workers : Step(w)

Spec == Init /\ [][Next]_vars

-----------------------------------------------------------------------------
(* No worker holds the item. *)
Quiet(i) == item[i] # NoItem /\ \A w \in Workers : work[w].id # i

(* However many decisions on an item meet, if none of them failed halfway the
   item ends up in the queues of its state: the last to rewrite it indexes it
   after that, and whoever unindexes it rewrites it.  After a failure, the next
   decision that succeeds puts it there. *)
InItsQueues ==
    \A i \in Items : Quiet(i) /\ i \notin torn =>
        /\ <<item[i].state, i>> \in byState
        /\ <<item[i].state, item[i].exp, i>> \in byExpiry

(* "an insert without this leaves the item in two queues at once" (unindex):
   unless two workers met, no statement of a decision can fail so that an item
   is left in a queue of a state or of an expiry that is not its own. *)
OneQueue ==
    \A i \in Items : Quiet(i) /\ url[i] \notin raced =>
        /\ \A s \in States : <<s, i>> \in byState => s = item[i].state
        /\ \A s \in States, d \in Days :
               <<s, d, i>> \in byExpiry => s = item[i].state /\ d = item[i].exp

(* "the derived keys a queue is read by agree with the rows written into it". *)
QueuesAgree == InItsQueues /\ OneQueue

(* "running it twice proposes nothing the second time", "a rejected claim must
   not come back": as long as workers on a deliverable do not meet and none
   fails halfway, all its claims are of one run, whatever was decided in between
   and although the queues are read while decisions move other items.  (One run
   may file a deliverable twice.) *)
FiledOnce ==
    \A i, j \in Items :
        NoItem \notin {item[i], item[j]} /\ url[i] = url[j] /\ filedBy[i] # filedBy[j] =>
            url[i] \in raced \cup failed

(* "The store refuses an illegal transition before writing anything, so a stale
   screen cannot approve something a person already rejected" (knowledge_view):
   what was rejected is not approved.  decide checks a row that it read three
   statements before it rewrites the item. *)
RejectionStands ==
    [][\A i \in Items : item[i].state = "rejected" => item'[i].state # "approved"]_vars

(* Mutant: what was sent back is not looked up. *)
ClaimRowsProposed ==
    {i \in Items : \E d \in Days :
        <<"proposed", d, i>> \in byExpiry /\ today <= d /\ d <= today + ExpiryDays}

(* claims: the rows of the day buckets from today to the horizon, with a limit
   that is not reached. *)
ClaimRows ==
    {i \in Items : \E s \in {"proposed", "revisit"}, d \in Days :
        <<s, d, i>> \in byExpiry /\ today <= d /\ d <= today + ExpiryDays}

(* The claims view shows everything that awaits a person and has not lapsed,
   and, where no two workers met, nothing that was decided. *)
ClaimsShown ==
    \A i \in Items : Quiet(i) =>
        /\ (/\ i \notin torn
            /\ item[i].state \in {"proposed", "revisit"}
            /\ item[i].exp >= today) => i \in ClaimRows
        /\ (i \in ClaimRows /\ url[i] \notin raced) => item[i].state \in {"proposed", "revisit"}

=============================================================================
