--------------------------- MODULE Knowledge_proofs ---------------------------
(***************************************************************************)
(* Proofs about Knowledge, for any number of workers, deliverables, items, *)
(* priority bands, days, decisions and failures.                           *)
(***************************************************************************)
EXTENDS Knowledge, FiniteSetTheorems, NaturalsInduction, SequenceTheorems, TLAPS

Decisions == {"approved", "rejected", "revisit"}

Decided == {"proposed", "revisit", "approved", "rejected"}

(* The steps at which a worker holds the row it read or is to write, and the
   ones at which the row it holds was the item's. *)
Writing == {"pItem", "pVersion", "unState", "unExpiry", "dItem", "inState", "inExpiry"}

Written == Writing \ {"pItem"}

(* A worker has an item exactly while it reads or writes one, the item was
   handed out and is of the worker's deliverable. *)
Holds(w) ==
    /\ pc[w] = "idle" => work[w] = Idle
    /\ pc[w] \in {"walk", "claim"} => work[w].id = 0 /\ work[w].url \in Urls
    /\ pc[w] = "walk" => work[w].part <= Len(Partitions)
    /\ pc[w] \notin {"idle", "walk", "claim"} =>
          work[w].id \in 1..issued /\ work[w].url = url[work[w].id]

HoldInv ==
    /\ \A w \in Workers : Holds(w)
    /\ \A i \in Items : (i <= issued => url[i] \in Urls) /\ (item[i] # NoItem => i <= issued)

(* Only a run of session-claims has more than one deliverable, and what it is
   about to write is of its own and of a deliverable that it has not seen. *)
Runs(w) ==
    /\ work[w].run = 0 => work[w].rest = <<>> /\ pc[w] \notin {"walk", "claim", "pItem"}
    /\ pc[w] = "pItem" => /\ filedBy[work[w].id] = work[w].run
                          /\ work[w].url \notin work[w].seen

RunInv == \A w \in Workers : Runs(w)

(* Two workers with one deliverable met. *)
MeetInv ==
    \A v, w \in Workers, u \in Urls : v # w /\ u \in On(v) /\ u \in On(w) => u \in raced

NotByState(i) == \A s \in States : <<s, i>> \notin byState

NotByExpiry(i) == \A s \in States, d \in Days : <<s, d, i>> \notin byExpiry

(* An item that was not written yet has one worker, which is about to write
   it, and no row in a queue. *)
NewInv ==
    /\ \A w \in Workers : pc[w] = "pItem" => item[work[w].id] = NoItem
    /\ \A w \in Workers : work[w].id # 0 /\ item[work[w].id] = NoItem =>
          pc[w] = "pItem" /\ \A v \in Workers \ {w} : work[v].id # work[w].id
    /\ \A i \in Items : item[i] = NoItem => NotByState(i) /\ NotByExpiry(i)

(* What is written to an item has a state the walk looks up, and an expiry
   within the horizon of the claims view. *)
RowOK(r) == r \in ItemRows /\ r.state \in Decided /\ r.exp <= today + ExpiryDays

RowInv ==
    /\ \A i \in Items : item[i] = NoItem \/ RowOK(item[i])
    /\ \A w \in Workers :
          /\ pc[w] \in Writing => RowOK(work[w].row)
          /\ pc[w] \in {"read", "unState", "unExpiry", "dItem"} => work[w].to \in Decisions

(* A worker that met no other works on the row as it is, and has taken it out
   of the queues before it rewrites it. *)
Owns(w) ==
    /\ pc[w] \in Written => work[w].row = item[work[w].id]
    /\ pc[w] \in {"unExpiry", "dItem"} => NotByState(work[w].id)
    /\ pc[w] = "dItem" => NotByExpiry(work[w].id)
    /\ pc[w] = "inExpiry" => <<work[w].row.state, work[w].id>> \in byState

OwnInv == \A w \in Workers : work[w].url \notin raced => Owns(w)

(* Where no two workers met, the queues hold an item under its own state and
   expiry only. *)
Matches(i) ==
    /\ \A s \in States : <<s, i>> \in byState => s = item[i].state
    /\ \A s \in States, d \in Days : <<s, d, i>> \in byExpiry => s = item[i].state /\ d = item[i].exp

MatchInv ==
    \A i \in Items : url[i] \notin raced /\ item[i] # NoItem => Matches(i)

(* The worker has yet to put the item into the queue by state, by expiry: it
   took it out, or it holds the row that the item has. *)
OwesState(w, i) ==
    /\ work[w].id = i
    /\ \/ pc[w] \in {"unExpiry", "dItem"}
       \/ pc[w] \in {"pVersion", "inState"} /\ work[w].row = item[i]

OwesExpiry(w, i) ==
    /\ work[w].id = i
    /\ \/ pc[w] = "dItem"
       \/ pc[w] \in {"pVersion", "inState", "inExpiry"} /\ work[w].row = item[i]

(* An item is in the queues of its state, or a worker will put it there. *)
Owed(i) ==
    /\ <<item[i].state, i>> \in byState \/ \E w \in Workers : OwesState(w, i)
    /\ <<item[i].state, item[i].exp, i>> \in byExpiry \/ \E w \in Workers : OwesExpiry(w, i)

OweInv == \A i \in Items : item[i] # NoItem /\ i \notin torn => Owed(i)

(* Only a failure tears an item, and only one leaves it without its version. *)
FailInv ==
    /\ \A i \in torn : item[i] # NoItem /\ url[i] \in failed
    /\ \A i \in Items : item[i] # NoItem /\ url[i] \notin failed =>
          i \in version \/ \E w \in Workers : work[w].id = i /\ pc[w] = "pVersion"

(* The partition that an item is in, for the walk. *)
PartitionOf(i) == [state |-> item[i].state, band |-> Band[url[i]]]

(* What the walk has passed, it has seen, and after the walk a run has seen what
   other runs filed of the deliverables it has yet to file. *)
Passed(w, k, i) == k < work[w].part \/ (k = work[w].part /\ i >= work[w].cursor)

Finds(w, i) ==
    IF pc[w] = "walk"
    THEN \A k \in 1..Len(Partitions) :
             Partitions[k] = PartitionOf(i) /\ Passed(w, k, i) => url[i] \in work[w].seen
    ELSE url[i] \in work[w].seen

(* An item that another run filed, of a deliverable of the worker's run. *)
Sought(w, i) ==
    /\ item[i] # NoItem /\ url[i] \in On(w) /\ url[i] \notin raced \cup failed
    /\ work[w].run # 0 /\ filedBy[i] # work[w].run

WalkInv == \A w \in Workers, i \in Items : Sought(w, i) => Finds(w, i)

Inv == /\ TypeOK /\ HoldInv /\ RunInv /\ MeetInv /\ NewInv /\ RowInv /\ OwnInv /\ MatchInv
       /\ OweInv /\ FailInv /\ WalkInv /\ FiledOnce

-----------------------------------------------------------------------------
(* What the walk is built from *)

LEMMA BandsType == Len(Bands) \in Nat
  BY KNAssumption, LenProperties

LEMMA PartitionCount == Len(Partitions) = 4 * Len(Bands) /\ Len(Partitions) \in Nat
<1>1. Len(WalkStates) = 4
  BY DEF WalkStates
<1>2. 4 * Len(Bands) \in Nat
  BY BandsType
<1>3. DOMAIN Partitions = 1..(4 * Len(Bands))
  BY <1>1 DEF Partitions
<1>4. \A k \in 1..(4 * Len(Bands)) : Partitions[k] \in {Partitions[j] : j \in 1..(4 * Len(Bands))}
  OBVIOUS
<1>5. Partitions \in Seq({Partitions[j] : j \in 1..(4 * Len(Bands))})
  <2>1. Partitions = [k \in 1..(4 * Len(Bands)) |-> Partitions[k]]
    BY <1>1 DEF Partitions
  <2> QED
    BY <1>2, <1>4, <2>1, IsASeq
<1>6. Len(Partitions) = 4 * Len(Bands)
  BY <1>2, <1>3, <1>5, LenProperties
<1> QED
  BY <1>2, <1>6

LEMMA DivideBands ==
    ASSUME NEW n \in Nat, n > 0, NEW c \in 0..3, NEW r \in 0..(n - 1)
    PROVE  (c * n + r) \div n = c /\ (c * n + r) % n = r
<1>0. CASE c = 0
  BY <1>0
<1>1. CASE c = 1
  BY <1>1
<1>2. CASE c = 2
  BY <1>2
<1>3. CASE c = 3
  BY <1>3
<1> QED
  BY <1>0, <1>1, <1>2, <1>3

(* already_filed looks into the queue of every state that an item can be in,
   for every band. *)
LEMMA EveryPartition ==
    ASSUME NEW s \in Decided, NEW u \in Urls
    PROVE  \E k \in 1..Len(Partitions) : Partitions[k] = [state |-> s, band |-> Band[u]]
<1> DEFINE n == Len(Bands)
<1>1. PICK b \in 1..n : Band[u] = Bands[b]
  BY KNAssumption
<1>2. n \in Nat /\ n > 0 /\ b - 1 \in 0..(n - 1)
  BY <1>1, BandsType
<1>3. PICK c \in 0..3 : WalkStates[c + 1] = s
  <2>1. \E c \in 0..3 : WalkStates[c + 1] = s
    BY DEF WalkStates, Decided
  <2> QED
    BY <2>1
<1> DEFINE k == c * n + b
<1>4. k \in 1..(4 * n) /\ k - 1 = c * n + (b - 1)
  <2>1. c = 0 \/ c = 1 \/ c = 2 \/ c = 3
    BY <1>3
  <2> QED
    BY <1>1, <1>2, <2>1
<1>5. (k - 1) \div n = c /\ (k - 1) % n = b - 1
  <2> HIDE DEF n
  <2>1. (c * n + (b - 1)) \div n = c /\ (c * n + (b - 1)) % n = b - 1
    BY <1>2, <1>3, DivideBands
  <2> QED
    BY <2>1, <1>4
<1>6. Len(WalkStates) = 4
  BY DEF WalkStates
<1>7. Partitions[k] = [state |-> WalkStates[((k - 1) \div n) + 1], band |-> Bands[((k - 1) % n) + 1]]
  BY <1>4, <1>6 DEF Partitions
<1>8. (b - 1) + 1 = b
  BY <1>1
<1>9. Partitions[k] = [state |-> s, band |-> Band[u]]
  <2> HIDE DEF k, n
  <2> QED
    BY <1>1, <1>3, <1>5, <1>7, <1>8
<1> QED
  BY <1>4, <1>9, PartitionCount

LEMMA Smallest ==
    ASSUME NEW N \in Nat, NEW S \in SUBSET (1..N), S # {}
    PROVE  Min(S) \in S /\ \A j \in S : Min(S) <= j
<1> DEFINE R == {ss \in Nat \X Nat : ss[1] < ss[2]}
<1>1. IsWellFoundedOn(R, Nat)
  BY NatLessThanWellFounded DEF OpToRel
<1>2. S \subseteq Nat
  OBVIOUS
<1>3. \E m \in S : \A j \in S : ~(<<j, m>> \in R)
  <2> HIDE DEF R
  <2> QED
    BY <1>1, <1>2, WFMin
<1>4. PICK m \in S : \A j \in S : ~(<<j, m>> \in R)
  BY <1>3
<1>5. ASSUME NEW j \in S PROVE m <= j
  <2>1. j \in Nat /\ m \in Nat /\ <<j, m>> \in Nat \X Nat
    BY <1>2
  <2>2. ~(j < m)
    BY <1>4, <2>1
  <2> QED
    BY <2>1, <2>2
<1> QED
  BY <1>5 DEF Min

LEMMA Largest ==
    ASSUME NEW N \in Nat, NEW S \in SUBSET (1..N), S # {}
    PROVE  \E m \in S : \A j \in S : j <= m
<1> DEFINE T == {(N + 1) - i : i \in S}
<1>1. T \in SUBSET (1..N) /\ T # {}
  <2>1. \A i \in S : i \in 1..N /\ (N + 1) - i \in 1..N
    OBVIOUS
  <2>2. T # {}
    OBVIOUS
  <2>3. T \subseteq 1..N
    BY <2>1
  <2> QED
    BY <2>2, <2>3
<1>2. Min(T) \in T /\ \A j \in T : Min(T) <= j
  <2> HIDE DEF T
  <2> QED
    BY <1>1, Smallest
<1>3. PICK m \in S : Min(T) = (N + 1) - m
  BY <1>2
<1>4. ASSUME NEW j \in S PROVE j <= m
  <2>1. Min(T) <= (N + 1) - j
    BY <1>2
  <2> QED
    BY <1>3, <2>1
<1> QED
  BY <1>4

(* A page shows the newest rows: at least one, and with a row all newer ones. *)
LEMMA NewestPage ==
    ASSUME NEW N \in Nat, NEW S \in SUBSET (1..N), NEW n \in Nat \ {0}
    PROVE  /\ Newest(S, n) \subseteq S
           /\ S # {} => Newest(S, n) # {}
           /\ \A m \in Newest(S, n), i \in S : i >= m => i \in Newest(S, n)
<1>0. IsFiniteSet(S)
  <2>1. IsFiniteSet(1..N)
    BY FS_Interval
  <2> QED
    BY <2>1, FS_Subset
<1>1. Newest(S, n) \subseteq S
  BY DEF Newest
<1>2. ASSUME S # {} PROVE Newest(S, n) # {}
  <2>1. PICK m \in S : \A j \in S : j <= m
    BY <1>2, Largest
  <2>2. {j \in S : j > m} = {}
    <3>1. \A j \in S : j \in Nat /\ m \in Nat
      OBVIOUS
    <3>2. ASSUME NEW j \in S PROVE ~(j > m)
      BY <2>1, <3>1
    <3> QED
      BY <3>2
  <2>3. Cardinality({j \in S : j > m}) < n
    BY <2>2, FS_EmptySet
  <2> QED
    BY <2>1, <2>3 DEF Newest
<1>3. ASSUME NEW m \in Newest(S, n), NEW i \in S, i >= m PROVE i \in Newest(S, n)
  <2> DEFINE A == {j \in S : j > m}
             B == {j \in S : j > i}
  <2>1. B \subseteq A
    <3>1. \A j \in S : j \in Nat
      OBVIOUS
    <3>2. m \in Nat /\ i \in Nat
      BY <1>1, <3>1
    <3>3. ASSUME NEW j \in S, j > i PROVE j > m
      BY <1>3, <3>1, <3>2, <3>3
    <3> QED
      BY <3>3
  <2>2. IsFiniteSet(A) /\ IsFiniteSet(B)
    BY <1>0, FS_Subset
  <2>3. Cardinality(B) <= Cardinality(A)
    <3> HIDE DEF A, B
    <3> QED
      BY <2>1, <2>2, FS_Subset
  <2>4. Cardinality(A) \in Nat /\ Cardinality(B) \in Nat
    BY <2>2, FS_CardinalityType
  <2>5. Cardinality(A) < n
    BY <1>3 DEF Newest
  <2>6. Cardinality(B) < n
    BY <2>3, <2>4, <2>5
  <2> QED
    BY <1>3, <2>6 DEF Newest
<1> QED
  BY <1>1, <1>2, <1>3

-----------------------------------------------------------------------------
(* Types *)

WorkRecs == [url: Urls \cup {NoUrl}, id: 0..MaxItems, row: ItemRows \cup {NoItem},
             to: States \cup {"none"}, part: 1..(Len(Partitions) + 1),
             cursor: 1..(MaxItems + 1), seen: SUBSET Urls, rest: Seq(Urls), run: 0..MaxRuns]

LEMMA IdleType == Idle \in WorkRecs
  BY KNAssumption, PartitionCount DEF Idle, WorkRecs

LEMMA NoItemFacts == NoItem \notin ItemRows /\ NoItem.state \notin States
  BY DEF NoItem, ItemRows, States

LEMMA GotoType ==
    ASSUME pc \in [Workers -> Labels], NEW w \in Workers, NEW l \in Labels, Goto(w, l)
    PROVE  pc' \in [Workers -> Labels]
  BY DEF Goto

LEMMA FinishType ==
    ASSUME pc \in [Workers -> Labels], work \in [Workers -> WorkRecs],
           NEW w \in Workers, Finish(w)
    PROVE  pc' \in [Workers -> Labels] /\ work' \in [Workers -> WorkRecs]
  BY IdleType DEF Finish, Goto, Labels

(* The deliverables of a list. *)
Listing(s) == {s[k] : k \in 1..Len(s)}

LEMMA HeadAndTail ==
    ASSUME NEW s \in Seq(Urls), s # <<>>
    PROVE  /\ Head(s) \in Urls /\ Tail(s) \in Seq(Urls)
           /\ {Head(s)} \cup Listing(Tail(s)) \subseteq Listing(s)
<1>1. Len(s) \in Nat /\ Len(s) >= 1 /\ Head(s) = s[1]
  BY EmptySeq, HeadTailProperties
<1>2. Tail(s) \in Seq(Urls) /\ Len(Tail(s)) = Len(s) - 1 /\ Head(s) \in Urls
  BY HeadTailProperties
<1>3. \A k \in 1..Len(Tail(s)) : Tail(s)[k] = s[k + 1] /\ k + 1 \in 1..Len(s)
  BY <1>1, <1>2, HeadTailProperties
<1>4. Head(s) \in Listing(s)
  BY <1>1 DEF Listing
<1>5. Listing(Tail(s)) \subseteq Listing(s)
  BY <1>3 DEF Listing
<1> QED
  BY <1>2, <1>4, <1>5

Ends(w) == Finish(w) \/ GoOn(w)

(* What GoOn leaves of a run for its next deliverable. *)
NextOne(w) == [Idle EXCEPT !.url = Head(work[w].rest), !.rest = Tail(work[w].rest),
                           !.seen = work[w].seen, !.run = work[w].run]

LEMMA NextType ==
    ASSUME work \in [Workers -> WorkRecs], NEW w \in Workers, work[w].rest # <<>>
    PROVE  NextOne(w) \in WorkRecs
<1>1. work[w].rest \in Seq(Urls) /\ work[w].seen \in SUBSET Urls /\ work[w].run \in 0..MaxRuns
  BY DEF WorkRecs
<1> QED
  BY <1>1, HeadAndTail, IdleType DEF NextOne, WorkRecs

LEMMA EndType ==
    ASSUME pc \in [Workers -> Labels], work \in [Workers -> WorkRecs],
           NEW w \in Workers, Ends(w)
    PROVE  pc' \in [Workers -> Labels] /\ work' \in [Workers -> WorkRecs]
<1>1. CASE Finish(w)
  BY <1>1, FinishType
<1>2. CASE ~Finish(w)
  <2>1. work[w].rest # <<>> /\ Goto(w, "claim") /\ work' = [work EXCEPT ![w] = NextOne(w)]
    BY <1>2 DEF Ends, GoOn, NextOne
  <2> QED
    BY <2>1, NextType, GotoType DEF Labels
<1> QED
  BY <1>1, <1>2

LEMMA HorizonType ==
    ASSUME TypeOK
    PROVE  /\ today + ClaimDays \in Days /\ today + ExpiryDays \in Days
           /\ today + ClaimDays <= today + ExpiryDays
  BY KNAssumption DEF TypeOK, Days

(* The items that a page shows were written, so they name a deliverable. *)
LEMMA PageFacts ==
    ASSUME Inv, NEW p, NEW c
    PROVE  /\ PageIds(p, c) \in SUBSET (1..MaxItems)
           /\ \A i \in PageIds(p, c) : item[i] # NoItem /\ url[i] \in Urls
<1>1. PageIds(p, c) \in SUBSET (1..MaxItems)
  BY DEF PageIds, Items
<1>2. ASSUME NEW i \in PageIds(p, c) PROVE item[i] # NoItem /\ url[i] \in Urls
  <2>1. <<p.state, i>> \in byState /\ i \in Items
    BY DEF PageIds
  <2>2. p.state \in States
    BY <2>1 DEF Inv, TypeOK
  <2>3. item[i] # NoItem
    BY <2>1, <2>2 DEF Inv, NewInv, NotByState
  <2> QED
    BY <2>1, <2>3 DEF Inv, HoldInv
<1> QED
  BY <1>1, <1>2

(* The worker's item, and the row that it writes. *)
LEMMA HolderFacts ==
    ASSUME TypeOK, HoldInv, NEW w \in Workers, pc[w] \notin {"idle", "walk", "claim"}
    PROVE  /\ work[w].id \in Items /\ work[w].id # 0 /\ work[w].id <= issued
           /\ work[w].url = url[work[w].id] /\ url[work[w].id] \in Urls
<1>1. work[w].id \in 1..issued /\ work[w].url = url[work[w].id] /\ issued \in 0..MaxItems
  BY DEF HoldInv, Holds, TypeOK
<1>2. work[w].id \in Items /\ work[w].id # 0 /\ work[w].id <= issued
  BY <1>1, KNAssumption DEF Items
<1> QED
  BY <1>1, <1>2 DEF HoldInv

LEMMA RowFacts ==
    ASSUME RowInv, NEW w \in Workers, pc[w] \in Writing
    PROVE  work[w].row \in ItemRows /\ work[w].row.state \in States /\ work[w].row.exp \in Days
  BY DEF RowInv, RowOK, ItemRows

(* The worker keeps what its run has seen and has yet to file. *)
SameRun(w) ==
    work'[w].seen = work[w].seen /\ work'[w].rest = work[w].rest /\ work'[w].run = work[w].run

LEMMA SetRow ==
    ASSUME work \in [Workers -> WorkRecs], NEW w \in Workers, NEW r \in ItemRows \cup {NoItem},
           work' = [work EXCEPT ![w].row = r]
    PROVE  /\ work' \in [Workers -> WorkRecs]
           /\ work'[w].row = r /\ work'[w].id = work[w].id /\ work'[w].url = work[w].url
           /\ work'[w].to = work[w].to /\ SameRun(w)
           /\ \A v \in Workers \ {w} : work'[v] = work[v]
<1>1. work[w] \in WorkRecs /\ work' = [work EXCEPT ![w] = [work[w] EXCEPT !.row = r]]
  OBVIOUS
<1>2. [work[w] EXCEPT !.row = r] \in WorkRecs
  BY <1>1 DEF WorkRecs
<1>3. work'[w] = [work[w] EXCEPT !.row = r]
  BY <1>1
<1> QED
  BY <1>1, <1>2, <1>3 DEF WorkRecs, SameRun

LEMMA SetClaim ==
    ASSUME work \in [Workers -> WorkRecs], NEW w \in Workers, NEW n \in 0..MaxItems, NEW r \in ItemRows,
           work' = [work EXCEPT ![w].id = n, ![w].row = r]
    PROVE  work' \in [Workers -> WorkRecs]
<1>1. work[w] \in WorkRecs /\ work' = [work EXCEPT ![w] = [work[w] EXCEPT !.id = n, !.row = r]]
  OBVIOUS
<1>2. [work[w] EXCEPT !.id = n, !.row = r] \in WorkRecs
  BY <1>1 DEF WorkRecs
<1> QED
  BY <1>1, <1>2

LEMMA SetTo ==
    ASSUME work \in [Workers -> WorkRecs], NEW w \in Workers, NEW t \in States,
           work' = [work EXCEPT ![w].to = t]
    PROVE  /\ work' \in [Workers -> WorkRecs]
           /\ work'[w].row = work[w].row /\ work'[w].id = work[w].id /\ work'[w].url = work[w].url
           /\ work'[w].to = t /\ SameRun(w)
           /\ \A v \in Workers \ {w} : work'[v] = work[v]
<1>1. work[w] \in WorkRecs /\ work' = [work EXCEPT ![w] = [work[w] EXCEPT !.to = t]]
  OBVIOUS
<1>2. [work[w] EXCEPT !.to = t] \in WorkRecs
  BY <1>1 DEF WorkRecs
<1>3. work'[w] = [work[w] EXCEPT !.to = t]
  BY <1>1
<1> QED
  BY <1>1, <1>2, <1>3 DEF WorkRecs, SameRun

LEMMA TypeStep == Inv /\ [Next]_vars => TypeOK'
<1> SUFFICES ASSUME Inv, [Next]_vars PROVE TypeOK'
  OBVIOUS
<1> USE KNAssumption
<1>0. TypeOK /\ HoldInv /\ NewInv /\ RowInv /\ work \in [Workers -> WorkRecs]
  BY DEF Inv, TypeOK, WorkRecs
<1>a. ASSUME pc' \in [Workers -> Labels], work' \in [Workers -> WorkRecs],
             UNCHANGED <<dbVars, idVars, today, decisions, faults, failed, torn>>,
             raced' \subseteq Urls, runs' \in 0..MaxRuns
      PROVE  TypeOK'
  BY <1>0, <1>a DEF TypeOK, WorkRecs, dbVars, idVars
<1>1. CASE Midnight \/ UNCHANGED vars
  <2>1. today' \in 0..MaxDay
    BY <1>0, <1>1 DEF TypeOK, Midnight, vars
  <2> QED
    BY <1>0, <1>1, <2>1 DEF TypeOK, Midnight, vars, dbVars, idVars, histVars
<1>2. ASSUME NEW w \in Workers, NEW found \in Found, FileStart(w, found) PROVE TypeOK'
  <2>1. pc' \in [Workers -> Labels]
    BY <1>0, <1>2, GotoType DEF FileStart, TypeOK, Labels
  <2>5. runs' \in 0..MaxRuns /\ runs' = runs + 1
    <3>1. runs \in 0..MaxRuns
      BY <1>0 DEF TypeOK
    <3>2. runs < MaxRuns /\ runs' = runs + 1
      BY <1>2 DEF FileStart
    <3> QED
      BY <3>1, <3>2
  <2>2. [Idle EXCEPT !.url = Head(found), !.rest = Tail(found), !.run = runs + 1] \in WorkRecs
    BY <2>5, IdleType, HeadAndTail DEF WorkRecs
  <2>3. work' \in [Workers -> WorkRecs]
    BY <1>0, <1>2, <2>2 DEF FileStart
  <2>4. raced' \subseteq Urls
    <3>1. \A k \in 1..Len(found) : found[k] \in Urls
      OBVIOUS
    <3>2. raced \subseteq Urls
      BY <1>0 DEF TypeOK
    <3>3. Meet(w, {found[k] : k \in 1..Len(found)})
      BY <1>2 DEF FileStart
    <3> QED
      BY <3>1, <3>2, <3>3 DEF Meet
  <2> QED
    BY <1>a, <1>2, <2>1, <2>3, <2>4, <2>5 DEF FileStart
<1>3. ASSUME NEW w \in Workers, Walk(w) PROVE TypeOK'
  <2> DEFINE k     == work[w].part
             ids   == PageIds(Partitions[k], work[w].cursor)
             shown == Newest(ids, PageLimit)
             more  == shown # ids
  <2>1. pc' \in [Workers -> Labels]
    BY <1>0, <1>3, GotoType DEF Walk, TypeOK, Labels
  <2>2. k \in 1..Len(Partitions)
    <3>1. k \in 1..(Len(Partitions) + 1)
      BY <1>0, SMTT(30) DEF WorkRecs
    <3>2. k <= Len(Partitions)
      BY <1>0, <1>3 DEF Walk, HoldInv, Holds
    <3> HIDE DEF k
    <3> QED
      BY <3>1, <3>2, PartitionCount
  <2>3. k + 1 \in 1..(Len(Partitions) + 1) /\ k \in 1..(Len(Partitions) + 1)
    BY <2>2, PartitionCount
  <2>4. ids \in SUBSET (1..MaxItems) /\ \A i \in ids : url[i] \in Urls
    BY PageFacts
  <2>5. shown \subseteq ids /\ (ids # {} => shown # {})
    <3> HIDE DEF ids
    <3> QED
      BY <2>4, NewestPage
  <2>6. more => Min(shown) \in 1..MaxItems
    <3>1. more => shown \in SUBSET (1..MaxItems) /\ shown # {}
      BY <2>4, <2>5
    <3> HIDE DEF shown, more
    <3> QED
      BY <3>1, Smallest
  <2> DEFINE W == [work[w] EXCEPT !.seen = @ \cup {url[i] : i \in shown \cap version},
                                  !.cursor = IF more THEN Min(shown) ELSE MaxItems + 1,
                                  !.part = IF more THEN k ELSE k + 1]
  <2>7. W \in WorkRecs
    <3>1. {url[i] : i \in shown \cap version} \subseteq Urls
      BY <2>4, <2>5
    <3>2. (IF more THEN Min(shown) ELSE MaxItems + 1) \in 1..(MaxItems + 1)
      BY <2>6
    <3>3. (IF more THEN k ELSE k + 1) \in 1..(Len(Partitions) + 1)
      BY <2>3
    <3>4. work[w] \in WorkRecs
      BY <1>0, SMTT(30)
    <3> HIDE DEF more, shown, ids, k
    <3> QED
      BY <3>1, <3>2, <3>3, <3>4 DEF WorkRecs
  <2>8. work' = [work EXCEPT ![w] = W]
    BY <1>0, <1>3 DEF Walk, WorkRecs
  <2>9. work' \in [Workers -> WorkRecs]
    <3> HIDE DEF W
    <3> QED
      BY <1>0, <2>7, <2>8
  <2>10. raced' \subseteq Urls
    BY <1>0, <1>3 DEF Walk, TypeOK, histVars, idVars
  <2>11. runs' \in 0..MaxRuns
    BY <1>0, <1>3 DEF Walk, TypeOK
  <2> QED
    BY <1>a, <1>3, <2>1, <2>9, <2>10, <2>11 DEF Walk, histVars
<1>4. ASSUME NEW w \in Workers, Claim(w) PROVE TypeOK'
  <2>1. CASE work[w].url \in work[w].seen
    <3>1. pc' \in [Workers -> Labels] /\ work' \in [Workers -> WorkRecs]
      BY <1>0, <1>4, <2>1, EndType DEF Claim, Ends, TypeOK
    <3>2. raced' \subseteq Urls /\ runs' \in 0..MaxRuns
      BY <1>0, <1>4 DEF Claim, TypeOK, histVars
    <3> QED
      BY <1>a, <1>4, <2>1, <3>1, <3>2 DEF Claim, histVars
  <2>2. CASE work[w].url \notin work[w].seen
    <3>1. pc' \in [Workers -> Labels]
      BY <1>0, <1>4, <2>2, GotoType DEF Claim, TypeOK, Labels
    <3>2. issued + 1 \in Items /\ issued' \in 0..MaxItems
      <4>1. issued \in 0..MaxItems
        BY <1>0 DEF TypeOK
      <4>2. issued < MaxItems /\ issued' = issued + 1
        BY <1>4, <2>2 DEF Claim
      <4> QED
        BY <4>1, <4>2 DEF Items
    <3>3. [state |-> "proposed", exp |-> today + ClaimDays] \in ItemRows /\ issued + 1 \in 0..MaxItems
      BY <1>0, <3>2, HorizonType DEF ItemRows, States, Items
    <3>4. work' \in [Workers -> WorkRecs]
      BY <1>0, <1>4, <2>2, <3>3, SetClaim DEF Claim
    <3>6. filedBy' \in [Items -> 0..MaxRuns]
      <4>1. filedBy \in [Items -> 0..MaxRuns] /\ work[w].run \in 0..MaxRuns
        BY <1>0 DEF TypeOK, WorkRecs
      <4>2. filedBy' = [filedBy EXCEPT ![issued + 1] = work[w].run]
        BY <1>4, <2>2 DEF Claim
      <4> QED
        BY <4>1, <4>2
    <3>5. url' \in [Items -> Urls \cup {NoUrl}]
      <4>1. url \in [Items -> Urls \cup {NoUrl}] /\ work[w].url \in Urls \cup {NoUrl}
        BY <1>0 DEF TypeOK, WorkRecs
      <4>2. url' = [url EXCEPT ![issued + 1] = work[w].url]
        BY <1>4, <2>2 DEF Claim
      <4> QED
        BY <4>1, <4>2
    <3> QED
      BY <1>0, <1>4, <3>1, <3>2, <3>4, <3>5, <3>6 DEF Claim, TypeOK, WorkRecs, dbVars, idVars, histVars
  <2> QED
    BY <2>1, <2>2
<1>5. ASSUME NEW w \in Workers, ProposeItem(w) PROVE TypeOK'
  <2>1. pc' \in [Workers -> Labels]
    BY <1>0, <1>5, GotoType DEF ProposeItem, TypeOK, Labels
  <2>2. item' \in [Items -> ItemRows \cup {NoItem}]
    BY <1>0, <1>5 DEF ProposeItem, WriteItem, TypeOK, WorkRecs
  <2> QED
    BY <1>0, <1>5, <2>1, <2>2 DEF ProposeItem, TypeOK, histVars, idVars
<1>6. ASSUME NEW w \in Workers, ProposeVersion(w) PROVE TypeOK'
  <2>1. pc' \in [Workers -> Labels]
    BY <1>0, <1>6, GotoType DEF ProposeVersion, TypeOK, Labels
  <2>2. work[w].id \in Items
    BY <1>0, <1>6, HolderFacts DEF ProposeVersion
  <2> QED
    BY <1>0, <1>6, <2>1, <2>2 DEF ProposeVersion, TypeOK, histVars, idVars
<1>7. ASSUME NEW w \in Workers, NEW i \in Items, NEW to \in Decisions, DecideStart(w, i, to)
      PROVE  TypeOK'
  <2>1. pc' \in [Workers -> Labels]
    BY <1>0, <1>7, GotoType DEF DecideStart, TypeOK, Labels
  <2>2. [Idle EXCEPT !.url = url[i], !.id = i, !.to = to] \in WorkRecs
    <3>1. url[i] \in Urls \cup {NoUrl}
      BY <1>0 DEF TypeOK
    <3>2. i \in 0..MaxItems
      BY DEF Items
    <3>3. to \in States
      BY DEF Decisions, States
    <3> QED
      BY <3>1, <3>2, <3>3, IdleType DEF WorkRecs
  <2>3. work' \in [Workers -> WorkRecs]
    BY <1>0, <1>7, <2>2 DEF DecideStart
  <2>4. url[i] \in Urls
    BY <1>0, <1>7 DEF DecideStart, HoldInv
  <2>5. raced' \subseteq Urls
    BY <1>0, <1>7, <2>4 DEF DecideStart, Meet, TypeOK
  <2>6. decisions' \in 0..MaxDecisions
    <3>1. decisions \in 0..MaxDecisions
      BY <1>0 DEF TypeOK
    <3>2. decisions < MaxDecisions /\ decisions' = decisions + 1
      BY <1>7 DEF DecideStart
    <3> QED
      BY <3>1, <3>2
  <2> QED
    BY <1>0, <1>7, <2>1, <2>3, <2>5, <2>6 DEF DecideStart, TypeOK, WorkRecs, dbVars, idVars
<1>8. ASSUME NEW w \in Workers, ReadItem(w) PROVE TypeOK'
  <2>1. pc' \in [Workers -> Labels] /\ work' \in [Workers -> WorkRecs]
    <3>1. CASE Legal(item[work[w].id].state, work[w].to)
      <4>1. work[w].id \in Items
        BY <1>0, <1>8, HolderFacts DEF ReadItem
      <4>2. item[work[w].id] \in ItemRows \cup {NoItem}
        BY <1>0, <4>1 DEF TypeOK
      <4>3. work' \in [Workers -> WorkRecs]
        BY <1>0, <1>8, <3>1, <4>2, SetRow DEF ReadItem
      <4> QED
        BY <1>0, <1>8, <3>1, <4>3, GotoType DEF ReadItem, TypeOK, Labels
    <3>2. CASE ~Legal(item[work[w].id].state, work[w].to)
      BY <1>0, <1>8, <3>2, EndType DEF ReadItem, Ends, TypeOK
    <3> QED
      BY <3>1, <3>2
  <2>2. raced' \subseteq Urls /\ runs' \in 0..MaxRuns
    BY <1>0, <1>8 DEF ReadItem, TypeOK, histVars
  <2> QED
    BY <1>a, <1>8, <2>1, <2>2 DEF ReadItem, histVars
<1>9. ASSUME NEW w \in Workers, UnindexState(w) PROVE TypeOK'
  <2>1. pc' \in [Workers -> Labels]
    BY <1>0, <1>9, GotoType DEF UnindexState, TypeOK, Labels
  <2> QED
    BY <1>0, <1>9, <2>1 DEF UnindexState, TypeOK, histVars, idVars
<1>10. ASSUME NEW w \in Workers, UnindexExpiry(w) PROVE TypeOK'
  <2>1. pc' \in [Workers -> Labels]
    BY <1>0, <1>10, GotoType DEF UnindexExpiry, TypeOK, Labels
  <2> QED
    BY <1>0, <1>10, <2>1 DEF UnindexExpiry, TypeOK, histVars, idVars
<1>11. ASSUME NEW w \in Workers, DecideItem(w) PROVE TypeOK'
  <2>1. pc' \in [Workers -> Labels]
    BY <1>0, <1>11, GotoType DEF DecideItem, TypeOK, Labels
  <2> DEFINE R == [state |-> work[w].to,
                   exp |-> IF work[w].to = "approved" THEN today + ExpiryDays ELSE work[w].row.exp]
  <2>2. R \in ItemRows
    <3>1. work[w].row \in ItemRows /\ work[w].to \in States
      BY <1>0, <1>11 DEF DecideItem, RowInv, Writing, RowOK, Decisions, States
    <3> QED
      BY <1>0, <3>1, HorizonType DEF ItemRows
  <2>3. work' = [work EXCEPT ![w].row = R]
    BY <1>0, <1>11 DEF DecideItem, WorkRecs
  <2>4. work' \in [Workers -> WorkRecs] /\ work'[w].row = R
    <3> HIDE DEF R
    <3> QED
      BY <1>0, <2>2, <2>3, SetRow
  <2>5. item' \in [Items -> ItemRows \cup {NoItem}]
    BY <1>0, <1>11, <2>2, <2>4 DEF DecideItem, WriteItem, TypeOK
  <2> QED
    BY <1>0, <1>11, <2>1, <2>4, <2>5 DEF DecideItem, TypeOK, WorkRecs, histVars, idVars
<1>12. ASSUME NEW w \in Workers, IndexState(w) PROVE TypeOK'
  <2>1. pc' \in [Workers -> Labels]
    BY <1>0, <1>12, GotoType DEF IndexState, TypeOK, Labels
  <2>2. <<work[w].row.state, work[w].id>> \in States \X Items
    BY <1>0, <1>12, HolderFacts, RowFacts DEF IndexState, Writing
  <2> QED
    BY <1>0, <1>12, <2>1, <2>2 DEF IndexState, TypeOK, histVars, idVars
<1>13. ASSUME NEW w \in Workers, IndexExpiry(w) PROVE TypeOK'
  <2>1. pc' \in [Workers -> Labels] /\ work' \in [Workers -> WorkRecs]
    <3>1. CASE Ends(w)
      BY <1>0, <3>1, EndType DEF TypeOK
    <3>2. CASE Goto(w, "read") /\ \E to \in Outcomes : work' = [work EXCEPT ![w].to = to]
      <4>1. work' \in [Workers -> WorkRecs]
        BY <1>0, <3>2, SetTo, KNAssumption DEF States
      <4> QED
        BY <1>0, <3>2, <4>1, GotoType DEF TypeOK, Labels
    <3> QED
      BY <1>13, <3>1, <3>2 DEF IndexExpiry, Ends
  <2>2. <<work[w].row.state, work[w].row.exp, work[w].id>> \in States \X Days \X Items
    BY <1>0, <1>13, HolderFacts, RowFacts DEF IndexExpiry, Writing
  <2>3. byExpiry' \subseteq States \X Days \X Items
    BY <1>0, <1>13, <2>2 DEF IndexExpiry, TypeOK
  <2>4. torn' \subseteq Items
    BY <1>0, <1>13 DEF IndexExpiry, TypeOK
  <2> QED
    BY <1>0, <1>13, <2>1, <2>3, <2>4 DEF IndexExpiry, TypeOK, WorkRecs, idVars
<1>14. ASSUME NEW w \in Workers, Fail(w) PROVE TypeOK'
  <2>1. pc' \in [Workers -> Labels] /\ work' \in [Workers -> WorkRecs]
    BY <1>0, <1>14, EndType DEF Fail, Ends, TypeOK
  <2>2. faults' \in 0..MaxFaults
    BY <1>0, <1>14 DEF Fail, TypeOK
  <2>3. pc[w] \notin {"idle", "walk", "claim"} => work[w].id \in Items /\ work[w].url \in Urls
    BY <1>0, HolderFacts
  <2>4. failed' \subseteq Urls /\ torn' \subseteq Items
    BY <1>0, <1>14, <2>3 DEF Fail, TypeOK
  <2> QED
    BY <1>0, <1>14, <2>1, <2>2, <2>4 DEF Fail, TypeOK, WorkRecs, dbVars, idVars
<1> QED
  BY <1>1, <1>2, <1>3, <1>4, <1>5, <1>6, <1>7, <1>8, <1>9, <1>10, <1>11, <1>12, <1>13, <1>14
     DEF Next, Step, Decisions

-----------------------------------------------------------------------------
(* What a step of one worker leaves alone: the other workers, and the rows of
   every item but its own. *)

SameRows(i) ==
    /\ item'[i] = item[i]
    /\ \A s \in States : <<s, i>> \in byState' <=> <<s, i>> \in byState
    /\ \A s \in States, d \in Days : <<s, d, i>> \in byExpiry' <=> <<s, d, i>> \in byExpiry
    /\ i \in version' <=> i \in version
    /\ i \in torn' <=> i \in torn

Others(w) == \A v \in Workers \ {w} : pc'[v] = pc[v] /\ work'[v] = work[v]

Frame(w) ==
    /\ Others(w)
    /\ today' = today /\ raced \subseteq raced' /\ failed \subseteq failed'
    /\ issued <= issued'
    /\ \A i \in Items : i <= issued => url'[i] = url[i] /\ filedBy'[i] = filedBy[i]
    /\ \A i \in Items : i # work[w].id => SameRows(i)

LEMMA GotoMoves ==
    ASSUME TypeOK, NEW w \in Workers, NEW l, Goto(w, l)
    PROVE  pc'[w] = l /\ \A v \in Workers \ {w} : pc'[v] = pc[v]
  BY DEF TypeOK, Goto

LEMMA IdleFacts == Idle.url = NoUrl /\ Idle.id = 0 /\ Idle.row = NoItem /\ Idle.to = "none"
                     /\ Idle.part = 1 /\ Idle.cursor = MaxItems + 1 /\ Idle.seen = {}
                     /\ Idle.rest = <<>> /\ Idle.run = 0
  BY DEF Idle

LEMMA FinishMoves ==
    ASSUME TypeOK, NEW w \in Workers, Finish(w) PROVE pc'[w] = "idle"
  BY DEF TypeOK, Goto, Finish

(* A worker that ends a deliverable is idle or goes on with the next of its run. *)
LEMMA EndMoves ==
    ASSUME TypeOK, NEW w \in Workers, Ends(w)
    PROVE  /\ Others(w) /\ work'[w].id = 0 /\ pc'[w] \in {"idle", "claim"}
           /\ pc'[w] = "idle" => work'[w] = Idle
           /\ pc'[w] = "claim" =>
                 /\ work[w].rest # <<>> /\ work'[w].url \in Urls
                 /\ work'[w].seen = work[w].seen /\ work'[w].run = work[w].run
                 /\ On(w)' \subseteq On(w)
<1>0. pc \in [Workers -> Labels] /\ work \in [Workers -> WorkRecs]
  BY DEF TypeOK, WorkRecs
<1>1. CASE Finish(w)
  BY <1>0, <1>1, IdleFacts DEF Goto, Finish, Others
<1>2. CASE ~Finish(w)
  <2>1. work[w].rest # <<>> /\ Goto(w, "claim") /\ work' = [work EXCEPT ![w] = NextOne(w)]
    BY <1>2 DEF Ends, GoOn, NextOne
  <2>2. pc'[w] = "claim" /\ work'[w] = NextOne(w) /\ Others(w)
    BY <1>0, <2>1 DEF Goto, Others
  <2>3. work[w].rest \in Seq(Urls)
    BY <1>0 DEF WorkRecs
  <2>4. /\ work'[w].url = Head(work[w].rest) /\ work'[w].rest = Tail(work[w].rest)
        /\ work'[w].seen = work[w].seen /\ work'[w].run = work[w].run /\ work'[w].id = 0
    BY <2>2 DEF NextOne, Idle
  <2>5. On(w)' = {work'[w].url} \cup Listing(work'[w].rest) /\ Listing(work[w].rest) \subseteq On(w)
    BY DEF On, Listing
  <2>6. On(w)' \subseteq On(w) /\ work'[w].url \in Urls
    BY <2>1, <2>3, <2>4, <2>5, HeadAndTail
  <2> QED
    BY <2>1, <2>2, <2>4, <2>6
<1> QED
  BY <1>1, <1>2

LEMMA SameRowsUnchanged ==
    ASSUME UNCHANGED <<item, version, byState, byExpiry, torn>>, NEW i PROVE SameRows(i)
  BY DEF SameRows

LEMMA StepFrame ==
    ASSUME TypeOK, NEW w \in Workers, Step(w) PROVE Frame(w)
<1> USE KNAssumption
<1>0. issued \in Nat /\ issued <= issued /\ work \in [Workers -> WorkRecs] /\ pc \in [Workers -> Labels]
  BY DEF TypeOK, WorkRecs
<1>a. ASSUME Others(w), UNCHANGED <<today, issued, url, filedBy, item, version, byState, byExpiry, torn, failed>>,
             raced \subseteq raced'
      PROVE  Frame(w)
  BY <1>0, <1>a, SameRowsUnchanged DEF Frame
<1>b. ASSUME Others(w), UNCHANGED <<today, issued, url, filedBy>>, raced \subseteq raced', failed \subseteq failed',
             \A i \in Items : i # work[w].id => SameRows(i)
      PROVE  Frame(w)
  BY <1>0, <1>b DEF Frame
<1>1. ASSUME NEW found \in Found, FileStart(w, found) PROVE Frame(w)
  <2>1. Others(w)
    BY <1>0, <1>1, SMTT(30) DEF FileStart, Goto, Others
  <2> QED
    BY <1>a, <1>1, <2>1 DEF FileStart, dbVars, idVars, Meet
<1>2. ASSUME Walk(w) PROVE Frame(w)
  <2>1. Others(w)
    BY <1>0, <1>2 DEF Walk, Goto, Others
  <2> QED
    BY <1>a, <1>2, <2>1 DEF Walk, dbVars, idVars, histVars
<1>3. ASSUME Claim(w) PROVE Frame(w)
  <2>1. Others(w)
    BY <1>0, <1>3, EndMoves DEF Claim, Goto, Others, Ends
  <2>2. UNCHANGED <<today, item, version, byState, byExpiry, torn, failed, raced>>
    BY <1>3 DEF Claim, dbVars, idVars, histVars
  <2>3. issued <= issued' /\ \A i \in Items : i <= issued => url'[i] = url[i] /\ filedBy'[i] = filedBy[i]
    <3>1. CASE UNCHANGED idVars
      BY <1>0, <3>1 DEF idVars
    <3>2. CASE /\ issued' = issued + 1 /\ url' = [url EXCEPT ![issued + 1] = work[w].url]
               /\ filedBy' = [filedBy EXCEPT ![issued + 1] = work[w].run]
      <4>1. \A i \in Items : i <= issued => i # issued + 1
        BY <1>0 DEF Items
      <4> QED
        BY <1>0, <3>2, <4>1 DEF TypeOK
    <3> QED
      BY <1>3, <3>1, <3>2 DEF Claim
  <2> QED
    BY <2>1, <2>2, <2>3, SameRowsUnchanged DEF Frame
<1>4. ASSUME ProposeItem(w) PROVE Frame(w)
  <2>1. Others(w)
    BY <1>0, <1>4 DEF ProposeItem, Goto, Others
  <2>2. \A i \in Items : i # work[w].id => SameRows(i)
    BY <1>4 DEF ProposeItem, WriteItem, TypeOK, SameRows, histVars, idVars
  <2> QED
    BY <1>b, <1>4, <2>1, <2>2 DEF ProposeItem, histVars, idVars
<1>5. ASSUME ProposeVersion(w) PROVE Frame(w)
  <2>1. Others(w)
    BY <1>0, <1>5 DEF ProposeVersion, Goto, Others
  <2>2. \A i \in Items : i # work[w].id => SameRows(i)
    BY <1>5 DEF ProposeVersion, SameRows, histVars, idVars
  <2> QED
    BY <1>b, <1>5, <2>1, <2>2 DEF ProposeVersion, histVars, idVars
<1>6. ASSUME NEW i \in Items, NEW to \in Decisions, DecideStart(w, i, to) PROVE Frame(w)
  <2>1. Others(w)
    BY <1>0, <1>6 DEF DecideStart, Goto, Others
  <2> QED
    BY <1>a, <1>6, <2>1 DEF DecideStart, dbVars, idVars, Meet
<1>7. ASSUME ReadItem(w) PROVE Frame(w)
  <2>1. Others(w)
    BY <1>0, <1>7, EndMoves DEF ReadItem, Goto, Others, Ends
  <2> QED
    BY <1>a, <1>7, <2>1 DEF ReadItem, dbVars, idVars, histVars
<1>8. ASSUME UnindexState(w) PROVE Frame(w)
  <2>1. Others(w)
    BY <1>0, <1>8 DEF UnindexState, Goto, Others
  <2>2. \A i \in Items : i # work[w].id => SameRows(i)
    BY <1>8 DEF UnindexState, SameRows, histVars, idVars
  <2> QED
    BY <1>b, <1>8, <2>1, <2>2 DEF UnindexState, histVars, idVars
<1>9. ASSUME UnindexExpiry(w) PROVE Frame(w)
  <2>1. Others(w)
    BY <1>0, <1>9 DEF UnindexExpiry, Goto, Others
  <2>2. \A i \in Items : i # work[w].id => SameRows(i)
    BY <1>9 DEF UnindexExpiry, SameRows, histVars, idVars
  <2> QED
    BY <1>b, <1>9, <2>1, <2>2 DEF UnindexExpiry, histVars, idVars
<1>10. ASSUME DecideItem(w) PROVE Frame(w)
  <2>1. Others(w)
    BY <1>0, <1>10 DEF DecideItem, Goto, Others
  <2>2. \A i \in Items : i # work[w].id => SameRows(i)
    BY <1>10 DEF DecideItem, WriteItem, TypeOK, SameRows, histVars, idVars
  <2> QED
    BY <1>b, <1>10, <2>1, <2>2 DEF DecideItem, histVars, idVars
<1>11. ASSUME IndexState(w) PROVE Frame(w)
  <2>1. Others(w)
    BY <1>0, <1>11 DEF IndexState, Goto, Others
  <2>2. \A i \in Items : i # work[w].id => SameRows(i)
    BY <1>11 DEF IndexState, SameRows, histVars, idVars
  <2> QED
    BY <1>b, <1>11, <2>1, <2>2 DEF IndexState, histVars, idVars
<1>12. ASSUME IndexExpiry(w) PROVE Frame(w)
  <2>1. Others(w)
    BY <1>0, <1>12, EndMoves DEF IndexExpiry, Goto, Others, Ends
  <2>2. \A i \in Items : i # work[w].id => SameRows(i)
    BY <1>12 DEF IndexExpiry, SameRows
  <2> QED
    BY <1>b, <1>12, <2>1, <2>2 DEF IndexExpiry, idVars
<1>13. ASSUME Fail(w) PROVE Frame(w)
  <2>1. Others(w)
    BY <1>0, <1>13, EndMoves DEF Fail, Ends
  <2>2. \A i \in Items : i # work[w].id => SameRows(i)
    BY <1>13 DEF Fail, SameRows, dbVars, idVars
  <2>3. failed \subseteq failed'
    BY <1>13 DEF Fail
  <2> QED
    BY <1>b, <1>13, <2>1, <2>2, <2>3 DEF Fail, idVars
<1> QED
  BY <1>1, <1>2, <1>3, <1>4, <1>5, <1>6, <1>7, <1>8, <1>9, <1>10, <1>11, <1>12, <1>13
     DEF Step, Decisions

-----------------------------------------------------------------------------
(* What each step does to its worker and to the item that it holds. *)

Same(w) == work'[w] = work[w]

SameTables == UNCHANGED <<item, version, byState, byExpiry, torn>>

SameIssue == UNCHANGED <<url, issued, filedBy>>

SameHist == UNCHANGED <<raced, failed>>

LEMMA FileStartEffect ==
    ASSUME TypeOK, NEW w \in Workers, NEW found \in Found, FileStart(w, found)
    PROVE  /\ pc[w] = "idle" /\ pc'[w] = "walk"
           /\ work'[w].url \in Urls /\ work'[w].id = 0 /\ work'[w].part = 1
           /\ work'[w].cursor = MaxItems + 1 /\ work'[w].run # 0
           /\ SameTables /\ SameIssue /\ failed' = failed
           /\ \A u \in On(w)', v \in Workers \ {w} : u \in On(v) => u \in raced'
<1>0. pc \in [Workers -> Labels] /\ work \in [Workers -> WorkRecs] /\ runs \in 0..MaxRuns
  BY SMTT(30) DEF TypeOK, WorkRecs
<1>1. pc'[w] = "walk"
        /\ work'[w] = [Idle EXCEPT !.url = Head(found), !.rest = Tail(found), !.run = runs + 1]
  BY <1>0 DEF FileStart, Goto
<1>2. /\ work'[w].url = Head(found) /\ work'[w].rest = Tail(found) /\ work'[w].run = runs + 1
      /\ work'[w].id = 0 /\ work'[w].part = 1 /\ work'[w].cursor = MaxItems + 1
  BY <1>1 DEF Idle
<1>3. found \in Seq(Urls) /\ found # <<>>
  BY KNAssumption
<1>4. On(w)' = {work'[w].url} \cup Listing(work'[w].rest)
  BY DEF On, Listing
<1>5. On(w)' \subseteq Listing(found) /\ work'[w].url \in Urls
  BY <1>2, <1>3, <1>4, HeadAndTail
<1>6. \A u \in Listing(found), v \in Workers \ {w} : u \in On(v) => u \in raced'
  BY DEF FileStart, Meet, Listing
<1>7. work'[w].run # 0
  BY <1>0, <1>2
<1> QED
  BY <1>1, <1>2, <1>5, <1>6, <1>7 DEF FileStart, SameTables, SameIssue, dbVars, idVars

LEMMA WalkEffect ==
    ASSUME TypeOK, NEW w \in Workers, Walk(w)
    PROVE  /\ pc[w] = "walk" /\ pc'[w] \in {"walk", "claim"}
           /\ work'[w].url = work[w].url /\ work'[w].id = work[w].id
           /\ work'[w].rest = work[w].rest /\ work'[w].run = work[w].run
           /\ SameTables /\ SameIssue /\ SameHist
<1>1. pc'[w] \in {"walk", "claim"}
  BY DEF TypeOK, Walk, Goto
<1>2. /\ work'[w].url = work[w].url /\ work'[w].id = work[w].id
      /\ work'[w].rest = work[w].rest /\ work'[w].run = work[w].run
  <2>1. work \in [Workers -> WorkRecs]
    BY DEF TypeOK, WorkRecs
  <2>2. \E S, c, k : work' = [work EXCEPT ![w].seen = S, ![w].cursor = c, ![w].part = k]
    BY <2>1 DEF Walk, WorkRecs
  <2>3. PICK S, c, k : work' = [work EXCEPT ![w].seen = S, ![w].cursor = c, ![w].part = k]
    BY <2>2
  <2>4. work'[w] = [work[w] EXCEPT !.seen = S, !.cursor = c, !.part = k]
    BY <2>1, <2>3
  <2> QED
    BY <2>1, <2>4 DEF WorkRecs
<1> QED
  BY <1>1, <1>2 DEF Walk, SameTables, SameIssue, SameHist, dbVars, idVars, histVars

LEMMA ClaimEffect ==
    ASSUME TypeOK, NEW w \in Workers, Claim(w)
    PROVE  /\ pc[w] = "claim" /\ SameTables /\ SameHist
           /\ \/ Ends(w) /\ SameIssue
              \/ /\ pc'[w] = "pItem" /\ work[w].url \notin work[w].seen
                 /\ issued' = issued + 1 /\ issued + 1 \in Items
                 /\ url'[issued + 1] = work[w].url
                 /\ work'[w].id = issued + 1 /\ work'[w].url = work[w].url
                 /\ work'[w].row = [state |-> "proposed", exp |-> today + ClaimDays]
                 /\ filedBy'[issued + 1] = work[w].run /\ SameRun(w)
<1>1. CASE work[w].url \in work[w].seen
  BY <1>1 DEF Claim, Ends, SameTables, SameIssue, SameHist, dbVars, idVars, histVars
<1>2. CASE work[w].url \notin work[w].seen
  <2>1. issued + 1 \in Items
    <3>1. issued \in 0..MaxItems
      BY DEF TypeOK
    <3>2. issued < MaxItems
      BY <1>2 DEF Claim
    <3> QED
      BY <3>1, <3>2, KNAssumption DEF Items
  <2>2. /\ pc'[w] = "pItem" /\ issued' = issued + 1 /\ url'[issued + 1] = work[w].url
        /\ filedBy'[issued + 1] = work[w].run
    BY <1>2, <2>1 DEF Claim, TypeOK, Goto
  <2>4. /\ work'[w].id = issued + 1 /\ work'[w].url = work[w].url
        /\ work'[w].row = [state |-> "proposed", exp |-> today + ClaimDays] /\ SameRun(w)
    <3>1. work \in [Workers -> WorkRecs]
      BY DEF TypeOK, WorkRecs
    <3> DEFINE R == [state |-> "proposed", exp |-> today + ClaimDays]
               n == issued + 1
    <3>2. work' = [work EXCEPT ![w].id = n, ![w].row = R]
      BY <1>2 DEF Claim
    <3> HIDE DEF R, n
    <3>4. work'[w].id = n /\ work'[w].url = work[w].url /\ work'[w].row = R /\ SameRun(w)
      <4>1. work'[w] = [work[w] EXCEPT !.id = n, !.row = R]
        BY <3>1, <3>2
      <4> QED
        BY <3>1, <4>1 DEF WorkRecs, SameRun
    <3> QED
      BY <3>4 DEF R, n
  <2> QED
    BY <1>2, <2>1, <2>2, <2>4 DEF Claim, SameTables, SameHist, dbVars, histVars
<1> QED
  BY <1>1, <1>2

LEMMA ProposeItemEffect ==
    ASSUME TypeOK, HoldInv, NEW w \in Workers, ProposeItem(w)
    PROVE  /\ pc[w] = "pItem" /\ pc'[w] = "pVersion" /\ Same(w)
           /\ item'[work[w].id] = work[w].row
           /\ UNCHANGED <<version, byState, byExpiry, torn>> /\ SameIssue /\ SameHist
<1>1. work[w].id \in Items
  BY HolderFacts DEF ProposeItem
<1> QED
  BY <1>1, GotoMoves DEF ProposeItem, WriteItem, TypeOK, Same, SameIssue, SameHist, histVars, idVars

LEMMA ProposeVersionEffect ==
    ASSUME TypeOK, NEW w \in Workers, ProposeVersion(w)
    PROVE  /\ pc[w] = "pVersion" /\ pc'[w] = "inState" /\ Same(w)
           /\ version' = version \cup {work[w].id}
           /\ UNCHANGED <<item, byState, byExpiry, torn>> /\ SameIssue /\ SameHist
  BY GotoMoves DEF ProposeVersion, Same, SameIssue, SameHist, histVars, idVars

LEMMA DecideStartEffect ==
    ASSUME TypeOK, NEW w \in Workers, NEW i \in Items, NEW to \in Decisions, DecideStart(w, i, to)
    PROVE  /\ pc[w] = "idle" /\ pc'[w] = "read" /\ item[i] # NoItem
           /\ work'[w].url = url[i] /\ work'[w].id = i /\ work'[w].to = to
           /\ work'[w].run = 0 /\ work'[w].rest = <<>>
           /\ SameTables /\ SameIssue /\ failed' = failed
           /\ \A v \in Workers \ {w} : url[i] \in On(v) => url[i] \in raced'
<1>1. work'[w] = [Idle EXCEPT !.url = url[i], !.id = i, !.to = to]
  BY DEF TypeOK, DecideStart
<1>2. /\ work'[w].url = url[i] /\ work'[w].id = i /\ work'[w].to = to
      /\ work'[w].run = 0 /\ work'[w].rest = <<>>
  BY <1>1 DEF Idle
<1> QED
  BY <1>2, GotoMoves DEF DecideStart, Meet, SameTables, SameIssue, dbVars, idVars

LEMMA ReadItemEffect ==
    ASSUME TypeOK, HoldInv, NEW w \in Workers, ReadItem(w)
    PROVE  /\ pc[w] = "read" /\ SameTables /\ SameIssue /\ SameHist
           /\ \/ Ends(w)
              \/ /\ pc'[w] = "unState" /\ work'[w].row = item[work[w].id]
                 /\ work'[w].url = work[w].url /\ work'[w].id = work[w].id
                 /\ work'[w].to = work[w].to /\ SameRun(w)
<1>0. work \in [Workers -> WorkRecs]
  BY DEF TypeOK, WorkRecs
<1>1. CASE Legal(item[work[w].id].state, work[w].to)
  <2>1. item[work[w].id] \in ItemRows \cup {NoItem}
    BY HolderFacts DEF ReadItem, TypeOK
  <2>2. work' = [work EXCEPT ![w].row = item[work[w].id]] /\ Goto(w, "unState")
    BY <1>1 DEF ReadItem
  <2> QED
    BY <1>0, <2>1, <2>2, SetRow, GotoMoves DEF ReadItem, SameTables, SameIssue, SameHist, dbVars, idVars, histVars
<1>2. CASE ~Legal(item[work[w].id].state, work[w].to)
  BY <1>2 DEF ReadItem, Ends, SameTables, SameIssue, SameHist, dbVars, idVars, histVars
<1> QED
  BY <1>1, <1>2

LEMMA UnindexStateEffect ==
    ASSUME TypeOK, NEW w \in Workers, UnindexState(w)
    PROVE  /\ pc[w] = "unState" /\ pc'[w] = "unExpiry" /\ Same(w)
           /\ byState' = byState \ {<<work[w].row.state, work[w].id>>}
           /\ UNCHANGED <<item, version, byExpiry, torn>> /\ SameIssue /\ SameHist
  BY GotoMoves DEF UnindexState, Same, SameIssue, SameHist, histVars, idVars

LEMMA UnindexExpiryEffect ==
    ASSUME TypeOK, NEW w \in Workers, UnindexExpiry(w)
    PROVE  /\ pc[w] = "unExpiry" /\ pc'[w] = "dItem" /\ Same(w)
           /\ byExpiry' = byExpiry \ {<<work[w].row.state, work[w].row.exp, work[w].id>>}
           /\ UNCHANGED <<item, version, byState, torn>> /\ SameIssue /\ SameHist
  BY GotoMoves DEF UnindexExpiry, Same, SameIssue, SameHist, histVars, idVars

LEMMA DecideItemEffect ==
    ASSUME TypeOK, HoldInv, RowInv, NEW w \in Workers, DecideItem(w)
    PROVE  /\ pc[w] = "dItem" /\ pc'[w] = "inState"
           /\ work'[w].url = work[w].url /\ work'[w].id = work[w].id /\ SameRun(w)
           /\ item'[work[w].id] = work'[w].row /\ RowOK(work'[w].row)
           /\ UNCHANGED <<version, byState, byExpiry, torn>> /\ SameIssue /\ SameHist
<1>0. work \in [Workers -> WorkRecs] /\ pc[w] = "dItem" /\ pc'[w] = "inState"
  BY GotoMoves DEF TypeOK, WorkRecs, DecideItem
<1> DEFINE R == [state |-> work[w].to,
                 exp |-> IF work[w].to = "approved" THEN today + ExpiryDays ELSE work[w].row.exp]
<1>1. RowOK(R)
  <2>1. RowOK(work[w].row) /\ work[w].to \in Decisions
    BY <1>0 DEF RowInv, Writing
  <2>2. work[w].to \in States /\ work[w].to \in Decided /\ today + ExpiryDays \in Days
    BY <2>1, HorizonType DEF Decisions, States, Decided
  <2>3. R.exp \in Days /\ R.exp <= today + ExpiryDays
    BY <2>1, <2>2, KNAssumption DEF RowOK, ItemRows, Days
  <2> QED
    BY <2>2, <2>3 DEF RowOK, ItemRows
<1>2. R \in ItemRows
  BY <1>1 DEF RowOK
<1>3. work' = [work EXCEPT ![w].row = R]
  BY <1>0 DEF DecideItem, WorkRecs
<1>4. work'[w].row = R /\ work'[w].url = work[w].url /\ work'[w].id = work[w].id /\ SameRun(w)
  <2> HIDE DEF R
  <2> QED
    BY <1>0, <1>2, <1>3, SetRow
<1>5. item'[work[w].id] = work'[w].row
  BY <1>0, HolderFacts DEF DecideItem, WriteItem, TypeOK
<1> QED
  BY <1>0, <1>1, <1>4, <1>5 DEF DecideItem, SameIssue, SameHist, histVars, idVars

LEMMA IndexStateEffect ==
    ASSUME TypeOK, NEW w \in Workers, IndexState(w)
    PROVE  /\ pc[w] = "inState" /\ pc'[w] = "inExpiry" /\ Same(w)
           /\ byState' = byState \cup {<<work[w].row.state, work[w].id>>}
           /\ UNCHANGED <<item, version, byExpiry, torn>> /\ SameIssue /\ SameHist
  BY GotoMoves DEF IndexState, Same, SameIssue, SameHist, histVars, idVars

LEMMA IndexExpiryEffect ==
    ASSUME TypeOK, NEW w \in Workers, IndexExpiry(w)
    PROVE  /\ pc[w] = "inExpiry"
           /\ byExpiry' = byExpiry \cup {<<work[w].row.state, work[w].row.exp, work[w].id>>}
           /\ \/ Ends(w)
              \/ /\ pc'[w] = "read" /\ work'[w].to \in Decisions /\ SameRun(w)
                 /\ work'[w].url = work[w].url /\ work'[w].id = work[w].id
           /\ torn' = IF work[w].url \in raced THEN torn ELSE torn \ {work[w].id}
           /\ UNCHANGED <<item, version, byState>> /\ SameIssue /\ SameHist
<1>0. work \in [Workers -> WorkRecs]
  BY DEF TypeOK, WorkRecs
<1>1. CASE Goto(w, "read") /\ \E to \in Outcomes : work' = [work EXCEPT ![w].to = to]
  <2>1. PICK to \in Outcomes : work' = [work EXCEPT ![w].to = to]
    BY <1>1
  <2>2. to \in States /\ to \in Decisions
    BY KNAssumption DEF States, Decisions
  <2> QED
    BY <1>0, <1>1, <2>1, <2>2, SetTo, GotoMoves DEF IndexExpiry, SameIssue, SameHist, idVars
<1>2. CASE Ends(w)
  BY <1>2 DEF IndexExpiry, SameIssue, SameHist, idVars
<1> QED
  BY <1>1, <1>2 DEF IndexExpiry, Ends

Halfway == {"pVersion", "unExpiry", "dItem", "inState", "inExpiry"}

LEMMA FailEffect ==
    ASSUME TypeOK, NEW w \in Workers, Fail(w)
    PROVE  /\ pc[w] # "idle" /\ Ends(w) /\ (pc[w] = "walk" => pc'[w] = "idle")
           /\ UNCHANGED <<item, version, byState, byExpiry, raced>> /\ SameIssue
           /\ failed' = IF pc[w] \in Halfway THEN failed \cup {work[w].url} ELSE failed
           /\ torn' = IF pc[w] \in Halfway THEN torn \cup {work[w].id} ELSE torn
  BY FinishMoves DEF Fail, Ends, SameIssue, Halfway, dbVars, idVars

(* A step that goes on with the item it holds. *)
Ongoing(w) ==
    \/ ProposeItem(w) \/ ProposeVersion(w) \/ UnindexState(w) \/ UnindexExpiry(w)
    \/ DecideItem(w) \/ IndexState(w)

LEMMA OngoingEffect ==
    ASSUME TypeOK, HoldInv, RowInv, NEW w \in Workers, Ongoing(w)
    PROVE  /\ pc[w] \in Writing /\ pc'[w] \in Written
           /\ work'[w].url = work[w].url /\ work'[w].id = work[w].id /\ SameRun(w)
           /\ torn' = torn /\ SameIssue /\ SameHist
<1>1. CASE ProposeItem(w)
  BY <1>1, ProposeItemEffect DEF Same, SameRun, Writing, Written
<1>2. CASE ProposeVersion(w)
  BY <1>2, ProposeVersionEffect DEF Same, SameRun, Writing, Written
<1>3. CASE UnindexState(w)
  BY <1>3, UnindexStateEffect DEF Same, SameRun, Writing, Written
<1>4. CASE UnindexExpiry(w)
  BY <1>4, UnindexExpiryEffect DEF Same, SameRun, Writing, Written
<1>5. CASE DecideItem(w)
  BY <1>5, DecideItemEffect DEF Writing, Written
<1>6. CASE IndexState(w)
  BY <1>6, IndexStateEffect DEF Same, SameRun, Writing, Written
<1> QED
  BY <1>1, <1>2, <1>3, <1>4, <1>5, <1>6 DEF Ongoing

LEMMA StepCases ==
    ASSUME NEW w \in Workers, Step(w)
    PROVE  \/ \E found \in Found : FileStart(w, found)
           \/ Walk(w) \/ Claim(w) \/ Ongoing(w)
           \/ \E i \in Items, to \in Decisions : DecideStart(w, i, to)
           \/ ReadItem(w) \/ IndexExpiry(w) \/ Fail(w)
  BY DEF Step, Ongoing, Decisions

-----------------------------------------------------------------------------
(* Each part of the invariant, step by step *)

LEMMA HoldStep == Inv /\ [Next]_vars => HoldInv'
<1> SUFFICES ASSUME Inv, [Next]_vars PROVE HoldInv'
  OBVIOUS
<1> USE KNAssumption
<1>0. TypeOK /\ HoldInv /\ RowInv /\ TypeOK'
  BY TypeStep DEF Inv
<1>1. CASE Midnight \/ UNCHANGED vars
  <2>1. UNCHANGED <<item, url, issued, pc, work>>
    BY <1>1 DEF Midnight, vars, dbVars, idVars
  <2> QED
    BY <1>0, <2>1 DEF HoldInv, Holds
<1>2. ASSUME NEW w \in Workers, Step(w) PROVE HoldInv'
  <2>a. Frame(w)
    BY <1>0, <1>2, StepFrame
  <2>b. issued \in Nat
    BY <1>0 DEF TypeOK
  <2>c. issued' \in Nat
    BY <1>0 DEF TypeOK
  <2>0. Frame(w) /\ issued \in Nat /\ issued' \in Nat
    BY <2>a, <2>b, <2>c
  <2>1. ASSUME NEW v \in Workers, v # w PROVE Holds(v)'
    <3>1. pc'[v] = pc[v] /\ work'[v] = work[v] /\ Holds(v)
      BY <1>0, <2>0, <2>1 DEF Frame, Others, HoldInv
    <3>2. CASE pc[v] \in {"idle", "walk", "claim"}
      BY <3>1, <3>2 DEF Holds
    <3>3. CASE pc[v] \notin {"idle", "walk", "claim"}
      <4>1. work[v].id \in Items /\ work[v].id <= issued
        BY <1>0, <3>3, HolderFacts
      <4>2. url'[work[v].id] = url[work[v].id] /\ work[v].id \in 1..issued'
        BY <2>0, <4>1 DEF Frame, Items
      <4> QED
        BY <3>1, <3>3, <4>2 DEF Holds
    <3> QED
      BY <3>2, <3>3
  <2>f. Ends(w) => Holds(w)'
    BY <1>0, EndMoves DEF Holds
  <2>g. ASSUME pc[w] \notin {"idle", "walk", "claim"}, pc'[w] \notin {"idle", "walk", "claim"},
               work'[w].url = work[w].url, work'[w].id = work[w].id
        PROVE  Holds(w)'
    <3>1. work[w].id \in Items /\ work[w].id <= issued /\ work[w].url = url[work[w].id]
      BY <1>0, <2>g, HolderFacts
    <3>2. url'[work[w].id] = url[work[w].id] /\ work[w].id \in 1..issued'
      BY <2>0, <3>1 DEF Frame, Items
    <3> QED
      BY <2>g, <3>1, <3>2 DEF Holds
  <2>2. Holds(w)'
    <3>1. ASSUME NEW found \in Found, FileStart(w, found) PROVE Holds(w)'
      <4>1. pc'[w] = "walk" /\ work'[w].url \in Urls /\ work'[w].id = 0 /\ work'[w].part = 1
        BY <1>0, <3>1, FileStartEffect
      <4>2. 1 <= Len(Partitions)
        <5>1. PICK k \in 1..Len(Bands) : Band[work'[w].url] = Bands[k]
          BY <4>1
        <5> QED
          BY <5>1, BandsType, PartitionCount
      <4> QED
        BY <4>1, <4>2 DEF Holds
    <3>2. CASE Walk(w)
      <4>1. /\ pc[w] = "walk" /\ pc'[w] \in {"walk", "claim"}
            /\ work'[w].url = work[w].url /\ work'[w].id = work[w].id
        BY <1>0, <3>2, WalkEffect
      <4>2. work[w].id = 0 /\ work[w].url \in Urls /\ work[w].part <= Len(Partitions)
        BY <1>0, <4>1 DEF HoldInv, Holds
      <4>3. ASSUME pc'[w] = "walk" PROVE work'[w].part <= Len(Partitions)
        <5>1. \E S, c : \E more \in BOOLEAN :
                /\ work' = [work EXCEPT ![w].seen = S, ![w].cursor = c,
                                        ![w].part = IF more THEN work[w].part ELSE work[w].part + 1]
                /\ Goto(w, IF ~more /\ work[w].part = Len(Partitions) THEN "claim" ELSE "walk")
          <6> DEFINE ids   == PageIds(Partitions[work[w].part], work[w].cursor)
                     shown == Newest(ids, PageLimit)
                     more  == shown # ids
          <6>1. /\ work' = [work EXCEPT ![w].seen = @ \cup {url[i] : i \in shown \cap version},
                                        ![w].cursor = IF more THEN Min(shown) ELSE MaxItems + 1,
                                        ![w].part = IF more THEN work[w].part ELSE work[w].part + 1]
                /\ Goto(w, IF ~more /\ work[w].part = Len(Partitions) THEN "claim" ELSE "walk")
            BY <3>2 DEF Walk
          <6>2. more \in BOOLEAN
            OBVIOUS
          <6> HIDE DEF more, shown, ids
          <6> QED
            BY <6>1, <6>2
        <5>2. PICK S, c : \E more \in BOOLEAN :
                /\ work' = [work EXCEPT ![w].seen = S, ![w].cursor = c,
                                        ![w].part = IF more THEN work[w].part ELSE work[w].part + 1]
                /\ Goto(w, IF ~more /\ work[w].part = Len(Partitions) THEN "claim" ELSE "walk")
          BY <5>1
        <5>3. PICK more \in BOOLEAN :
                /\ work' = [work EXCEPT ![w].seen = S, ![w].cursor = c,
                                        ![w].part = IF more THEN work[w].part ELSE work[w].part + 1]
                /\ Goto(w, IF ~more /\ work[w].part = Len(Partitions) THEN "claim" ELSE "walk")
          BY <5>2
        <5>4. work'[w].part = IF more THEN work[w].part ELSE work[w].part + 1
          <6>1. work[w] \in WorkRecs /\ work \in [Workers -> WorkRecs]
            BY <1>0 DEF TypeOK, WorkRecs
          <6>2. work'[w] = [work[w] EXCEPT !.seen = S, !.cursor = c,
                              !.part = IF more THEN work[w].part ELSE work[w].part + 1]
            BY <5>3, <6>1
          <6> QED
            BY <6>1, <6>2 DEF WorkRecs
        <5>5. more \/ work[w].part # Len(Partitions)
          BY <1>0, <4>3, <5>3, GotoMoves
        <5>6. work[w].part \in Nat
          <6>1. work[w] \in WorkRecs
            BY <1>0 DEF TypeOK, WorkRecs
          <6>2. work[w].part \in 1..(Len(Partitions) + 1)
            BY <6>1 DEF WorkRecs
          <6> QED
            BY <6>2, PartitionCount
        <5> QED
          BY <4>2, <5>4, <5>5, <5>6, PartitionCount
      <4> QED
        BY <4>1, <4>2, <4>3 DEF Holds
    <3>3. CASE Claim(w)
      <4>1. CASE Ends(w)
        BY <2>f, <4>1
      <4>2. CASE /\ pc'[w] = "pItem" /\ issued' = issued + 1 /\ issued + 1 \in Items
                 /\ url'[issued + 1] = work[w].url
                 /\ work'[w].id = issued + 1 /\ work'[w].url = work[w].url
        BY <2>0, <4>2 DEF Holds
      <4> QED
        BY <1>0, <3>3, <4>1, <4>2, ClaimEffect
    <3>4. CASE Ongoing(w)
      BY <1>0, <2>g, <3>4, OngoingEffect DEF Writing, Written
    <3>5. ASSUME NEW i \in Items, NEW to \in Decisions, DecideStart(w, i, to) PROVE Holds(w)'
      <4>1. pc'[w] = "read" /\ work'[w].url = url[i] /\ work'[w].id = i /\ item[i] # NoItem /\ SameIssue
        BY <1>0, <3>5, DecideStartEffect
      <4>2. i \in 1..issued /\ url'[i] = url[i] /\ issued' = issued
        BY <1>0, <2>0, <4>1 DEF HoldInv, SameIssue, Items
      <4> QED
        BY <4>1, <4>2 DEF Holds
    <3>6. CASE ReadItem(w)
      BY <1>0, <2>f, <2>g, <3>6, ReadItemEffect
    <3>7. CASE IndexExpiry(w)
      BY <1>0, <2>f, <2>g, <3>7, IndexExpiryEffect
    <3>8. CASE Fail(w)
      BY <1>0, <2>f, <3>8, FailEffect
    <3> QED
      BY <1>2, <3>1, <3>2, <3>3, <3>4, <3>5, <3>6, <3>7, <3>8, StepCases
  <2>3. ASSUME NEW i \in Items PROVE item'[i] # NoItem => i <= issued'
    <3>1. CASE i = work[w].id
      <4>1. pc[w] \notin {"idle", "walk", "claim"}
        BY <1>0, <3>1, IdleFacts DEF HoldInv, Holds, Items
      <4> QED
        BY <1>0, <2>0, <3>1, <4>1, HolderFacts DEF Frame, Items
    <3>2. CASE i # work[w].id
      <4>1. item'[i] = item[i]
        BY <2>0, <3>2 DEF Frame, SameRows
      <4> QED
        BY <1>0, <2>0, <4>1 DEF HoldInv, Frame, Items
    <3> QED
      BY <3>1, <3>2
  <2>4. ASSUME NEW i \in Items, i <= issued' PROVE url'[i] \in Urls
    <3>1. CASE i <= issued
      BY <1>0, <2>0, <3>1 DEF HoldInv, Frame
    <3>2. CASE ~(i <= issued)
      <4>1. issued' # issued
        BY <2>4, <3>2
      <4>2. Claim(w)
        BY <1>0, <1>2, <4>1, StepCases, FileStartEffect, WalkEffect, OngoingEffect, DecideStartEffect,
           ReadItemEffect, IndexExpiryEffect, FailEffect DEF SameIssue
      <4>3. issued' = issued + 1 /\ url'[issued + 1] = work[w].url /\ pc[w] = "claim"
        BY <1>0, <4>1, <4>2, ClaimEffect DEF SameIssue
      <4>4. i = issued + 1
        BY <2>0, <2>4, <3>2, <4>3 DEF Items
      <4> QED
        BY <1>0, <4>3, <4>4 DEF HoldInv, Holds
    <3> QED
      BY <3>1, <3>2
  <2> QED
    BY <2>1, <2>2, <2>3, <2>4 DEF HoldInv
<1> QED
  BY <1>1, <1>2 DEF Next

(* What a step does to a run: it begins, is over, walks, or is kept with what it
   has seen and some of what it has yet to file. *)
LEMMA RunMoves ==
    ASSUME TypeOK, HoldInv, RowInv, NEW w \in Workers, Step(w)
    PROVE  \/ /\ pc[w] = "idle" /\ pc'[w] \in {"walk", "read"}
              /\ \A u \in On(w)' \cap Urls, v \in Workers \ {w} : u \in On(v) => u \in raced'
              /\ IF pc'[w] = "walk" THEN work'[w].run # 0 /\ \E found \in Found : FileStart(w, found)
                                   ELSE work'[w].run = 0 /\ work'[w].rest = <<>>
           \/ pc'[w] = "idle" /\ work'[w] = Idle
           \/ Walk(w) /\ On(w)' = On(w) /\ work'[w].run = work[w].run
           \/ /\ pc[w] \notin {"idle", "walk"} /\ pc'[w] \notin {"idle", "walk"}
              /\ On(w)' \subseteq On(w)
              /\ work'[w].seen = work[w].seen /\ work'[w].run = work[w].run
              /\ (work[w].rest = <<>> => work'[w].rest = <<>> /\ pc'[w] # "claim")
              /\ (pc'[w] = "pItem" => Claim(w))
<1> DEFINE Kept == /\ pc[w] \notin {"idle", "walk"} /\ pc'[w] \notin {"idle", "walk"}
                   /\ On(w)' \subseteq On(w)
                   /\ work'[w].seen = work[w].seen /\ work'[w].run = work[w].run
                   /\ (work[w].rest = <<>> => work'[w].rest = <<>> /\ pc'[w] # "claim")
                   /\ (pc'[w] = "pItem" => Claim(w))
<1>1. ASSUME NEW found \in Found, FileStart(w, found)
      PROVE  /\ pc[w] = "idle" /\ pc'[w] = "walk" /\ work'[w].run # 0
             /\ \A u \in On(w)' \cap Urls, v \in Workers \ {w} : u \in On(v) => u \in raced'
  <2>1. /\ pc[w] = "idle" /\ pc'[w] = "walk" /\ work'[w].run # 0
        /\ \A u \in On(w)', v \in Workers \ {w} : u \in On(v) => u \in raced'
    BY <1>1, FileStartEffect
  <2> QED
    BY <2>1
<1>2. ASSUME NEW i \in Items, NEW to \in Decisions, DecideStart(w, i, to)
      PROVE  /\ pc[w] = "idle" /\ pc'[w] = "read" /\ work'[w].run = 0 /\ work'[w].rest = <<>>
             /\ \A u \in On(w)' \cap Urls, v \in Workers \ {w} : u \in On(v) => u \in raced'
  <2>1. /\ pc[w] = "idle" /\ pc'[w] = "read" /\ work'[w].url = url[i]
        /\ work'[w].run = 0 /\ work'[w].rest = <<>>
        /\ \A v \in Workers \ {w} : url[i] \in On(v) => url[i] \in raced'
    BY <1>2, DecideStartEffect
  <2>2. On(w)' = {url[i]}
    BY <2>1, EmptySeq DEF On
  <2> QED
    BY <2>1, <2>2
<1>3. ASSUME Ends(w), pc[w] \notin {"idle", "walk"} PROVE (pc'[w] = "idle" /\ work'[w] = Idle) \/ Kept
  <2>1. CASE pc'[w] = "idle"
    BY <1>3, <2>1, EndMoves
  <2>2. CASE pc'[w] = "claim"
    BY <1>3, <2>2, EndMoves
  <2> QED
    BY <1>3, <2>1, <2>2, EndMoves
<1>4. ASSUME SameRun(w), work'[w].url = work[w].url, pc[w] \notin {"idle", "walk"},
             pc'[w] \notin {"idle", "walk", "claim"}, pc'[w] = "pItem" => Claim(w)
      PROVE  Kept
  BY <1>4 DEF SameRun, On
<1>5. CASE Walk(w)
  BY <1>5, WalkEffect DEF On
<1>6. CASE Claim(w)
  BY <1>3, <1>4, <1>6, ClaimEffect
<1>7. CASE Ongoing(w)
  BY <1>4, <1>7, OngoingEffect DEF Writing, Written
<1>8. CASE ReadItem(w)
  BY <1>3, <1>4, <1>8, ReadItemEffect
<1>9. CASE IndexExpiry(w)
  BY <1>3, <1>4, <1>9, IndexExpiryEffect
<1>10. CASE Fail(w)
  <2>1. CASE pc[w] = "walk"
    BY <1>10, <2>1, FailEffect, EndMoves
  <2> QED
    BY <1>3, <1>10, <2>1, FailEffect
<1> QED
  BY <1>1, <1>2, <1>5, <1>6, <1>7, <1>8, <1>9, <1>10, StepCases

LEMMA RunStep == Inv /\ [Next]_vars => RunInv'
<1> SUFFICES ASSUME Inv, [Next]_vars PROVE RunInv'
  OBVIOUS
<1>0. TypeOK /\ HoldInv /\ RowInv /\ RunInv
  BY DEF Inv
<1>1. CASE Midnight \/ UNCHANGED vars
  <2>1. UNCHANGED <<pc, work, filedBy>>
    BY <1>1 DEF Midnight, vars, idVars
  <2> QED
    BY <1>0, <2>1 DEF RunInv, Runs
<1>2. ASSUME NEW w \in Workers, Step(w) PROVE RunInv'
  <2>0. Frame(w)
    BY <1>0, <1>2, StepFrame
  <2>1. ASSUME NEW v \in Workers, v # w PROVE Runs(v)'
    <3>1. pc'[v] = pc[v] /\ work'[v] = work[v] /\ Runs(v)
      BY <1>0, <2>0, <2>1 DEF Frame, Others, RunInv
    <3>2. pc[v] = "pItem" => filedBy'[work[v].id] = filedBy[work[v].id]
      BY <1>0, <2>0, HolderFacts DEF Frame
    <3> QED
      BY <3>1, <3>2 DEF Runs
  <2>2. Runs(w)'
    <3>0. Runs(w)
      BY <1>0 DEF RunInv
    <3>1. CASE pc[w] = "idle" /\ pc'[w] \in {"walk", "read"}
      <4>1. IF pc'[w] = "walk" THEN work'[w].run # 0 ELSE work'[w].run = 0 /\ work'[w].rest = <<>>
        <5>1. ~Walk(w)
          BY <3>1 DEF Walk
        <5> QED
          BY <1>0, <1>2, <3>1, <5>1, RunMoves
      <4> QED
        BY <3>1, <4>1 DEF Runs
    <3>2. CASE pc'[w] = "idle" /\ work'[w] = Idle
      BY <3>2, IdleFacts DEF Runs
    <3>3. CASE Walk(w)
      <4>1. pc[w] = "walk" /\ pc'[w] \in {"walk", "claim"} /\ work'[w].run = work[w].run
        BY <1>0, <3>3, WalkEffect
      <4> QED
        BY <3>0, <4>1 DEF Runs
    <3>4. CASE /\ pc[w] \notin {"idle", "walk"} /\ pc'[w] \notin {"idle", "walk"}
               /\ work'[w].seen = work[w].seen /\ work'[w].run = work[w].run
               /\ (work[w].rest = <<>> => work'[w].rest = <<>> /\ pc'[w] # "claim")
               /\ (pc'[w] = "pItem" => Claim(w))
      <4>1. ASSUME pc'[w] = "pItem"
            PROVE  /\ filedBy'[work'[w].id] = work'[w].run /\ work'[w].url \notin work'[w].seen
                   /\ pc[w] = "claim"
        BY <1>0, <3>4, <4>1, ClaimEffect, EndMoves DEF SameRun
      <4> QED
        BY <3>0, <3>4, <4>1 DEF Runs
    <3> QED
      BY <1>0, <1>2, <3>1, <3>2, <3>3, <3>4, RunMoves
  <2> QED
    BY <2>1, <2>2 DEF RunInv
<1> QED
  BY <1>1, <1>2 DEF Next

LEMMA MeetStep == Inv /\ [Next]_vars => MeetInv'
<1> SUFFICES ASSUME Inv, [Next]_vars PROVE MeetInv'
  OBVIOUS
<1>0. TypeOK /\ HoldInv /\ RowInv /\ MeetInv
  BY DEF Inv
<1>1. CASE Midnight \/ UNCHANGED vars
  BY <1>0, <1>1 DEF Midnight, vars, histVars, MeetInv, On
<1>2. ASSUME NEW w \in Workers, Step(w) PROVE MeetInv'
  <2>0. Frame(w)
    BY <1>0, <1>2, StepFrame
  <2>1. \A v \in Workers \ {w} : On(v)' = On(v)
    BY <2>0 DEF Frame, Others, On
  <2>2. raced \subseteq raced'
    BY <2>0 DEF Frame
  <2>3. ASSUME NEW u \in Urls, u \in On(w)', NEW v \in Workers \ {w}, u \in On(v)
        PROVE  u \in raced'
    <3>1. u \in On(w) => u \in raced'
      BY <1>0, <2>2, <2>3 DEF MeetInv
    <3>2. work'[w] = Idle => On(w)' = {NoUrl}
      BY IdleFacts, EmptySeq DEF On
    <3> QED
      BY <1>0, <1>2, <2>3, <3>1, <3>2, RunMoves, KNAssumption
  <2> QED
    BY <1>0, <2>1, <2>2, <2>3 DEF MeetInv
<1> QED
  BY <1>1, <1>2 DEF Next

(* An item, once written, stays written; only its worker writes it. *)
LEMMA ItemMoves ==
    ASSUME TypeOK, HoldInv, RowInv, NEW w \in Workers, Step(w), NEW i \in Items
    PROVE  \/ item'[i] = item[i]
           \/ i = work[w].id /\ RowOK(item'[i]) /\ item'[i] # NoItem /\ pc'[w] \in {"pVersion", "inState"}
                /\ work'[w].id = i /\ work'[w].row = item'[i]
<1>0. ASSUME NEW r, RowOK(r) PROVE r # NoItem
  BY <1>0, NoItemFacts DEF RowOK
<1>1. CASE ProposeItem(w)
  <2>1. pc[w] = "pItem" /\ pc'[w] = "pVersion" /\ item'[work[w].id] = work[w].row /\ work'[w] = work[w]
    BY <1>1, ProposeItemEffect DEF Same
  <2>2. RowOK(work[w].row)
    BY <2>1 DEF RowInv, Writing
  <2>3. i # work[w].id => item'[i] = item[i]
    BY StepFrame DEF Frame, SameRows
  <2> QED
    BY <1>0, <2>1, <2>2, <2>3
<1>2. CASE DecideItem(w)
  <2>1. i # work[w].id => item'[i] = item[i]
    BY StepFrame DEF Frame, SameRows
  <2>2. pc'[w] = "inState" /\ item'[work[w].id] = work'[w].row /\ RowOK(work'[w].row) /\ work'[w].id = work[w].id
    BY <1>2, DecideItemEffect
  <2> QED
    BY <1>0, <2>1, <2>2
<1>3. CASE ~ProposeItem(w) /\ ~DecideItem(w)
  <2>1. item' = item
    BY <1>3 DEF Step, FileStart, Walk, Claim, ProposeVersion, DecideStart, ReadItem, UnindexState,
                UnindexExpiry, IndexState, IndexExpiry, Fail, dbVars, idVars
  <2> QED
    BY <2>1
<1> QED
  BY <1>1, <1>2, <1>3

(* The item of a worker: kept, given up, an item that exists, or a new one. *)
LEMMA IdMoves ==
    ASSUME TypeOK, HoldInv, RowInv, NEW w \in Workers, Step(w)
    PROVE  \/ work'[w].id = work[w].id /\ work'[w].url = work[w].url /\ pc[w] # "idle"
                /\ (pc[w] \notin {"walk", "claim"} => pc'[w] \in Written \cup {"read"})
                /\ (pc[w] \in {"walk", "claim"} => pc'[w] \in {"walk", "claim"})
           \/ work'[w].id = 0 /\ pc'[w] \in {"idle", "walk", "claim"}
           \/ /\ work'[w].id \in Items /\ item[work'[w].id] # NoItem /\ pc'[w] = "read"
              /\ work'[w].url = url[work'[w].id] /\ pc[w] = "idle" /\ SameTables /\ SameIssue
           \/ /\ work'[w].id = issued + 1 /\ pc'[w] = "pItem" /\ Claim(w)
              /\ pc[w] = "claim" /\ SameTables /\ work'[w].url = work[w].url
<1>1. ASSUME NEW found \in Found, FileStart(w, found) PROVE work'[w].id = 0 /\ pc'[w] \in {"idle", "walk", "claim"}
  <2>1. work'[w].id = 0 /\ pc'[w] = "walk"
    BY <1>1, FileStartEffect
  <2> QED
    BY <2>1
<1>2. ASSUME NEW i \in Items, NEW to \in Decisions, DecideStart(w, i, to)
      PROVE  /\ work'[w].id \in Items /\ item[work'[w].id] # NoItem /\ pc'[w] = "read"
             /\ work'[w].url = url[work'[w].id] /\ pc[w] = "idle" /\ SameTables /\ SameIssue
  <2>1. work'[w].id = i /\ item[i] # NoItem /\ pc'[w] = "read" /\ work'[w].url = url[i] /\ pc[w] = "idle"
          /\ SameTables /\ SameIssue
    BY <1>2, DecideStartEffect
  <2> QED
    BY <2>1
<1>3. CASE Ends(w)
  BY <1>3, EndMoves
<1>4. CASE Walk(w)
  BY <1>4, WalkEffect
<1>5. CASE Claim(w)
  <2>1. CASE Ends(w)
    BY <1>3, <2>1
  <2>2. CASE ~Ends(w)
    BY <1>5, <2>2, ClaimEffect
  <2> QED
    BY <2>1, <2>2
<1>6. CASE Ongoing(w)
  BY <1>6, OngoingEffect DEF Writing, Written
<1>7. CASE ReadItem(w)
  BY <1>3, <1>7, ReadItemEffect DEF Written, Writing
<1>8. CASE IndexExpiry(w)
  BY <1>3, <1>8, IndexExpiryEffect DEF Written
<1>9. CASE Fail(w)
  BY <1>3, <1>9, FailEffect
<1> QED
  BY <1>1, <1>2, <1>4, <1>5, <1>6, <1>7, <1>8, <1>9, StepCases

LEMMA NewSteps ==
    ASSUME NEW w \in Workers, Step(w), pc[w] = "pItem" PROVE ProposeItem(w) \/ Fail(w)
  BY DEF Step, FileStart, Walk, Claim, ProposeVersion, DecideStart, ReadItem, UnindexState,
         UnindexExpiry, DecideItem, IndexState, IndexExpiry

LEMMA NewStep == Inv /\ [Next]_vars => NewInv'
<1> SUFFICES ASSUME Inv, [Next]_vars PROVE NewInv'
  OBVIOUS
<1> USE KNAssumption
<1>0. TypeOK /\ HoldInv /\ RowInv /\ NewInv /\ TypeOK'
  BY TypeStep DEF Inv
<1>1. CASE Midnight \/ UNCHANGED vars
  BY <1>0, <1>1 DEF Midnight, vars, dbVars, idVars, NewInv, NotByState, NotByExpiry
<1>2. ASSUME NEW w \in Workers, Step(w) PROVE NewInv'
  <2>0. Frame(w) /\ issued \in Nat
    <3>1. Frame(w)
      BY <1>0, <1>2, StepFrame
    <3> QED
      BY <1>0, <3>1 DEF TypeOK
  <2>a. \A v \in Workers \ {w} : pc'[v] = pc[v] /\ work'[v] = work[v]
    BY <2>0 DEF Frame, Others
  <2>b. \A v \in Workers : work[v].id # 0 => work[v].id \in Items /\ work[v].id <= issued
    <3>1. ASSUME NEW v \in Workers, work[v].id # 0 PROVE work[v].id \in Items /\ work[v].id <= issued
      <4>1. pc[v] \notin {"idle", "walk", "claim"}
        BY <1>0, <3>1, IdleFacts DEF HoldInv, Holds
      <4> QED
        BY <1>0, <4>1, HolderFacts
    <3> QED
      BY <3>1
  <2>c. \A i \in Items : item'[i] = NoItem => item[i] = NoItem
    BY <1>0, <1>2, ItemMoves
  <2>d. ASSUME work[w].id # 0, item[work[w].id] = NoItem
        PROVE  item'[work[w].id] # NoItem \/ Fail(w)
    <3>1. pc[w] = "pItem" /\ work[w].id \in Items
      BY <1>0, <2>b, <2>d DEF NewInv
    <3>2. CASE ProposeItem(w)
      <4>1. item'[work[w].id] = work[w].row
        BY <1>0, <3>2, ProposeItemEffect
      <4>2. work[w].row \in ItemRows
        BY <1>0, <3>1, RowFacts DEF Writing
      <4> QED
        BY <4>1, <4>2, NoItemFacts
    <3> QED
      BY <1>2, <3>1, <3>2, NewSteps
  <2>e. Fail(w) => work'[w].id = 0 /\ UNCHANGED <<item, byState, byExpiry>>
    BY <1>0, FailEffect, EndMoves
  <2>f. issued + 1 \in Items => item[issued + 1] = NoItem
    <3>1. ~(issued + 1 <= issued)
      BY <2>0
    <3> QED
      BY <1>0, <3>1 DEF HoldInv
  <2>g. ASSUME pc'[w] = "pItem"
        PROVE  work'[w].id = issued + 1 /\ issued + 1 \in Items /\ SameTables
    <3>1. work'[w].id = issued + 1 /\ SameTables
      <4>1. pc'[w] \notin Written \cup {"read"} /\ pc'[w] \notin {"walk", "claim", "idle"}
        BY <2>g DEF Written
      <4> QED
        BY <1>0, <1>2, <4>1, IdMoves
    <3>2. work'[w].id \in 0..MaxItems
      BY <1>0 DEF TypeOK
    <3> QED
      BY <2>0, <3>1, <3>2 DEF Items
  <2>1. ASSUME NEW v \in Workers, pc'[v] = "pItem" PROVE item'[work'[v].id] = NoItem
    <3>1. CASE v = w
      BY <2>1, <2>f, <2>g, <3>1 DEF SameTables
    <3>2. CASE v # w
      <4>1. pc[v] = "pItem" /\ work'[v].id = work[v].id
        BY <2>1, <2>a, <3>2
      <4>2. item[work[v].id] = NoItem /\ work[v].id \in Items /\ work[v].id # 0
        BY <1>0, <4>1, HolderFacts DEF NewInv
      <4>3. work[w].id # work[v].id
        BY <1>0, <3>2, <4>2 DEF NewInv
      <4>4. item'[work[v].id] = item[work[v].id]
        BY <2>0, <4>2, <4>3 DEF Frame, SameRows
      <4> QED
        BY <4>1, <4>2, <4>4
    <3> QED
      BY <3>1, <3>2
  <2>2. ASSUME NEW v \in Workers, work'[v].id # 0, item'[work'[v].id] = NoItem
        PROVE  pc'[v] = "pItem" /\ \A x \in Workers \ {v} : work'[x].id # work'[v].id
    <3>0. work'[v].id \in Items /\ item[work'[v].id] = NoItem
      <4>1. work'[v].id \in 0..MaxItems
        BY <1>0 DEF TypeOK
      <4>2. work'[v].id \in Items
        BY <2>2, <4>1 DEF Items
      <4> QED
        BY <2>2, <2>c, <4>2
    <3>1. CASE v = w
      <4>1. work'[w].id # work[w].id
        BY <2>2, <2>d, <2>e, <3>0, <3>1
      <4>2. work'[w].id = issued + 1 /\ pc'[w] = "pItem"
        BY <1>0, <1>2, <2>2, <3>0, <3>1, <4>1, IdMoves
      <4>3. ASSUME NEW x \in Workers \ {w} PROVE work'[x].id # issued + 1
        <5>1. work'[x] = work[x] /\ work[x].id \in 0..MaxItems
          BY <1>0, <2>a DEF TypeOK
        <5> QED
          BY <2>0, <2>b, <5>1
      <4> QED
        BY <3>1, <4>2, <4>3
    <3>2. CASE v # w
      <4>1. pc'[v] = pc[v] /\ work'[v] = work[v]
        BY <2>a, <3>2
      <4>2. pc[v] = "pItem" /\ \A x \in Workers \ {v} : work[x].id # work[v].id
        BY <1>0, <2>2, <3>0, <4>1 DEF NewInv
      <4>3. work'[w].id # work[v].id
        <5>1. work[w].id # work[v].id
          BY <3>2, <4>2
        <5>2. work[v].id # issued + 1
          BY <2>0, <2>2, <2>b, <4>1 DEF Items
        <5> QED
          BY <1>0, <1>2, <2>2, <3>0, <4>1, <5>1, <5>2, IdMoves
      <4> QED
        BY <2>a, <4>1, <4>2, <4>3
    <3> QED
      BY <3>1, <3>2
  <2>3. ASSUME NEW i \in Items, item'[i] = NoItem PROVE NotByState(i)' /\ NotByExpiry(i)'
    <3>1. item[i] = NoItem /\ NotByState(i) /\ NotByExpiry(i)
      BY <1>0, <2>3, <2>c DEF NewInv
    <3>2. CASE i = work[w].id
      <4>1. i # 0
        BY DEF Items
      <4> QED
        BY <2>3, <2>d, <2>e, <3>1, <3>2, <4>1 DEF NotByState, NotByExpiry
    <3>3. CASE i # work[w].id
      BY <2>0, <3>1, <3>3 DEF Frame, SameRows, NotByState, NotByExpiry
    <3> QED
      BY <3>2, <3>3
  <2> QED
    BY <2>1, <2>2, <2>3 DEF NewInv
<1> QED
  BY <1>1, <1>2 DEF Next

LEMMA RowStep == Inv /\ [Next]_vars => RowInv'
<1> SUFFICES ASSUME Inv, [Next]_vars PROVE RowInv'
  OBVIOUS
<1> USE KNAssumption
<1>0. TypeOK /\ HoldInv /\ RowInv /\ NewInv /\ TypeOK'
  BY TypeStep DEF Inv
<1>1. CASE Midnight
  <2>1. UNCHANGED <<item, pc, work>> /\ today' = today + 1
    BY <1>1 DEF Midnight, dbVars, idVars
  <2>2. ASSUME NEW r, RowOK(r) PROVE RowOK(r)'
    BY <1>0, <2>1, <2>2 DEF RowOK, TypeOK, ItemRows, Days
  <2> QED
    BY <1>0, <2>1, <2>2 DEF RowInv
<1>2. CASE UNCHANGED vars
  BY <1>0, <1>2 DEF vars, dbVars, idVars, RowInv, RowOK
<1>3. ASSUME NEW w \in Workers, Step(w) PROVE RowInv'
  <2>0. Frame(w)
    BY <1>0, <1>3, StepFrame DEF TypeOK
  <2>a. \A v \in Workers \ {w} : pc'[v] = pc[v] /\ work'[v] = work[v]
    BY <2>0 DEF Frame, Others
  <2>b. ASSUME NEW r PROVE RowOK(r)' <=> RowOK(r)
    BY <2>0 DEF Frame, RowOK
  <2>1. ASSUME NEW i \in Items PROVE item'[i] = NoItem \/ RowOK(item'[i])
    BY <1>0, <1>3, ItemMoves DEF RowInv
  <2> DEFINE Good(v) == /\ pc'[v] \in Writing => RowOK(work'[v].row)
                        /\ pc'[v] \in {"read", "unState", "unExpiry", "dItem"} => work'[v].to \in Decisions
  <2>2. ASSUME NEW v \in Workers, v # w PROVE Good(v)
    BY <1>0, <2>2, <2>a DEF RowInv
  <2>3. Good(w)
    <3>f. CASE Ends(w)
      BY <1>0, <3>f, EndMoves DEF Writing
    <3>1. ASSUME NEW found \in Found, FileStart(w, found) PROVE Good(w)
      <4>1. pc'[w] = "walk"
        BY <1>0, <3>1, FileStartEffect
      <4> QED
        BY <4>1 DEF Writing
    <3>2. CASE Walk(w)
      BY <1>0, <3>2, WalkEffect DEF Writing
    <3>3. CASE Claim(w)
      <4>1. CASE pc'[w] = "pItem" /\ work'[w].row = [state |-> "proposed", exp |-> today + ClaimDays]
        <5>1. RowOK([state |-> "proposed", exp |-> today + ClaimDays])
          BY <1>0, HorizonType DEF RowOK, ItemRows, States, Decided
        <5> QED
          BY <4>1, <5>1
      <4> QED
        BY <1>0, <3>3, <3>f, <4>1, ClaimEffect
    <3>4. CASE DecideItem(w)
      BY <1>0, <3>4, DecideItemEffect
    <3>5. CASE ProposeItem(w)
      BY <1>0, <3>5, ProposeItemEffect DEF RowInv, Same, Writing
    <3>6. CASE ProposeVersion(w)
      BY <1>0, <3>6, ProposeVersionEffect DEF RowInv, Same, Writing
    <3>7. CASE UnindexState(w)
      BY <1>0, <3>7, UnindexStateEffect DEF RowInv, Same, Writing
    <3>8. CASE UnindexExpiry(w)
      BY <1>0, <3>8, UnindexExpiryEffect DEF RowInv, Same, Writing
    <3>9. CASE IndexState(w)
      BY <1>0, <3>9, IndexStateEffect DEF RowInv, Same, Writing
    <3>10. ASSUME NEW i \in Items, NEW to \in Decisions, DecideStart(w, i, to) PROVE Good(w)
      <4>1. pc'[w] = "read" /\ work'[w].to = to
        BY <1>0, <3>10, DecideStartEffect
      <4> QED
        BY <4>1 DEF Writing
    <3>11. CASE ReadItem(w)
      <4>1. CASE pc'[w] = "unState" /\ work'[w].row = item[work[w].id] /\ work'[w].to = work[w].to /\ pc[w] = "read"
        <5>1. work[w].id \in Items /\ work[w].id # 0
          BY <1>0, <4>1, HolderFacts
        <5>2. item[work[w].id] # NoItem
          BY <1>0, <4>1, <5>1 DEF NewInv
        <5>3. RowOK(item[work[w].id])
          BY <1>0, <5>1, <5>2 DEF RowInv
        <5>4. work[w].to \in Decisions
          BY <1>0, <4>1 DEF RowInv
        <5> QED
          BY <4>1, <5>3, <5>4
      <4> QED
        BY <1>0, <3>11, <3>f, <4>1, ReadItemEffect
    <3>12. CASE IndexExpiry(w)
      <4>1. CASE pc'[w] = "read" /\ work'[w].to \in Decisions
        BY <4>1 DEF Writing
      <4> QED
        BY <1>0, <3>12, <3>f, <4>1, IndexExpiryEffect
    <3>13. CASE Fail(w)
      BY <1>0, <3>13, <3>f, FailEffect
    <3> QED
      BY <1>3, <3>1, <3>2, <3>3, <3>4, <3>5, <3>6, <3>7, <3>8, <3>9, <3>10, <3>11, <3>12, <3>13,
         StepCases DEF Ongoing
  <2>4. \A v \in Workers : Good(v)
    BY <2>2, <2>3
  <2> QED
    BY <2>1, <2>4, <2>b DEF RowInv
<1> QED
  BY <1>1, <1>2, <1>3 DEF Next

(* Where no two workers met, another worker holds another item. *)
LEMMA Apart ==
    ASSUME TypeOK, HoldInv, MeetInv, NEW v \in Workers, NEW w \in Workers, v # w,
           work[v].url \notin raced, work[v].id # 0
    PROVE  work[w].id # work[v].id
<1> SUFFICES ASSUME work[w].id = work[v].id PROVE FALSE
  OBVIOUS
<1>1. pc[v] \notin {"idle", "walk", "claim"} /\ pc[w] \notin {"idle", "walk", "claim"}
  BY IdleFacts DEF HoldInv, Holds
<1>2. work[v].url = url[work[v].id] /\ work[w].url = url[work[v].id] /\ work[v].url \in Urls
  BY <1>1, HolderFacts
<1> QED
  BY <1>2, KNAssumption DEF MeetInv, On

LEMMA OwnStep == Inv /\ [Next]_vars => OwnInv'
<1> SUFFICES ASSUME Inv, [Next]_vars PROVE OwnInv'
  OBVIOUS
<1> USE KNAssumption
<1>0. /\ TypeOK /\ HoldInv /\ RowInv /\ NewInv /\ MeetInv /\ OwnInv /\ MatchInv
      /\ TypeOK'
  BY TypeStep DEF Inv
<1>1. CASE Midnight \/ UNCHANGED vars
  <2>1. UNCHANGED <<item, byState, byExpiry, pc, work, raced>>
    BY <1>1 DEF Midnight, vars, dbVars, idVars, histVars
  <2> QED
    BY <1>0, <2>1 DEF OwnInv, Owns, NotByState, NotByExpiry
<1>2. ASSUME NEW w \in Workers, Step(w) PROVE OwnInv'
  <2>0. Frame(w)
    BY <1>0, <1>2, StepFrame
  <2>1. ASSUME NEW v \in Workers, v # w, work'[v].url \notin raced' PROVE Owns(v)'
    <3>1. pc'[v] = pc[v] /\ work'[v] = work[v] /\ work[v].url \notin raced
      BY <2>0, <2>1 DEF Frame, Others
    <3>2. Owns(v)
      BY <1>0, <3>1 DEF OwnInv
    <3>3. CASE pc[v] \in Written
      <4>1. work[v].id \in Items /\ work[v].id # 0
        BY <1>0, <3>3, HolderFacts DEF Written, Writing
      <4>2. work[w].id # work[v].id
        BY <1>0, <2>1, <3>1, <4>1, Apart
      <4>3. SameRows(work[v].id)
        BY <2>0, <4>1, <4>2 DEF Frame
      <4>4. pc[v] = "inExpiry" => work[v].row.state \in States
        BY <1>0, RowFacts DEF Writing
      <4> QED
        BY <3>1, <3>2, <4>3, <4>4 DEF Owns, NotByState, NotByExpiry, SameRows
    <3>4. CASE pc[v] \notin Written
      BY <3>1, <3>4 DEF Owns, Written, Writing
    <3> QED
      BY <3>3, <3>4
  <2>2. ASSUME work'[w].url \notin raced' PROVE Owns(w)'
    <3>a. ASSUME pc'[w] \notin Written PROVE Owns(w)'
      BY <3>a DEF Owns, Written, Writing
    <3>f. CASE Ends(w)
      BY <1>0, <3>a, <3>f, EndMoves DEF Written, Writing
    <3>1. ASSUME NEW found \in Found, FileStart(w, found) PROVE Owns(w)'
      <4>1. pc'[w] = "walk"
        BY <1>0, <3>1, FileStartEffect
      <4> QED
        BY <3>a, <4>1 DEF Written, Writing
    <3>2. CASE Walk(w)
      BY <1>0, <3>2, <3>a, WalkEffect DEF Written, Writing
    <3>3. CASE Claim(w)
      BY <1>0, <3>3, <3>a, <3>f, ClaimEffect DEF Written, Writing
    <3>4. ASSUME NEW i \in Items, NEW to \in Decisions, DecideStart(w, i, to) PROVE Owns(w)'
      <4>1. pc'[w] = "read"
        BY <1>0, <3>4, DecideStartEffect
      <4> QED
        BY <3>a, <4>1 DEF Written, Writing
    <3>5. CASE ReadItem(w)
      <4>1. CASE pc'[w] = "unState" /\ work'[w].row = item[work[w].id] /\ work'[w].id = work[w].id /\ SameTables
        BY <4>1 DEF Owns, Written, Writing, SameTables
      <4> QED
        BY <1>0, <3>5, <3>f, <4>1, ReadItemEffect
    <3>6. CASE IndexExpiry(w)
      BY <1>0, <3>6, <3>a, <3>f, IndexExpiryEffect DEF Written, Writing
    <3>7. CASE Fail(w)
      BY <1>0, <3>7, <3>f, FailEffect
    <3>8. CASE ProposeItem(w)
      BY <1>0, <3>8, ProposeItemEffect DEF Owns, Same, Written, Writing
    <3>b. ASSUME pc[w] \in Writing, work[w].url \notin raced
          PROVE  /\ Owns(w) /\ work[w].id \in Items
                 /\ item[work[w].id] # NoItem => url[work[w].id] \notin raced /\ Matches(work[w].id)
      <4>1. work[w].id \in Items /\ url[work[w].id] = work[w].url
        BY <1>0, <3>b, HolderFacts DEF Writing
      <4> QED
        BY <1>0, <3>b, <4>1 DEF OwnInv, MatchInv
    <3>9. CASE ProposeVersion(w)
      <4>1. /\ pc[w] = "pVersion" /\ pc'[w] = "inState" /\ work'[w] = work[w] /\ item' = item
            /\ work[w].url \notin raced
        BY <1>0, <2>2, <3>9, ProposeVersionEffect DEF Same, SameHist
      <4>2. Owns(w)
        BY <3>b, <4>1 DEF Writing
      <4> QED
        BY <4>1, <4>2 DEF Owns, Written, Writing
    <3>10. CASE UnindexState(w)
      <4>1. /\ pc[w] = "unState" /\ pc'[w] = "unExpiry" /\ work'[w] = work[w] /\ item' = item
            /\ byState' = byState \ {<<work[w].row.state, work[w].id>>}
            /\ work[w].url \notin raced
        BY <1>0, <2>2, <3>10, UnindexStateEffect DEF Same, SameHist
      <4>2. work[w].row = item[work[w].id] /\ work[w].row \in ItemRows
        BY <1>0, <3>b, <4>1, RowFacts DEF Writing, Written, Owns
      <4>3. Matches(work[w].id)
        BY <3>b, <4>1, <4>2, NoItemFacts DEF Writing
      <4>4. NotByState(work[w].id)'
        BY <4>1, <4>2, <4>3 DEF NotByState, Matches
      <4> QED
        BY <4>1, <4>2, <4>4 DEF Owns, Written, Writing
    <3>11. CASE UnindexExpiry(w)
      <4>1. /\ pc[w] = "unExpiry" /\ pc'[w] = "dItem" /\ work'[w] = work[w] /\ item' = item
            /\ byExpiry' = byExpiry \ {<<work[w].row.state, work[w].row.exp, work[w].id>>}
            /\ work[w].url \notin raced /\ byState' = byState
        BY <1>0, <2>2, <3>11, UnindexExpiryEffect DEF Same, SameHist
      <4>2. work[w].row = item[work[w].id] /\ work[w].row \in ItemRows /\ NotByState(work[w].id)
        BY <1>0, <3>b, <4>1, RowFacts DEF Writing, Written, Owns
      <4>3. Matches(work[w].id)
        BY <3>b, <4>1, <4>2, NoItemFacts DEF Writing
      <4>4. NotByExpiry(work[w].id)'
        BY <4>1, <4>2, <4>3 DEF NotByExpiry, Matches
      <4>5. NotByState(work[w].id)'
        BY <4>1, <4>2 DEF NotByState
      <4> QED
        BY <4>1, <4>2, <4>4, <4>5 DEF Owns, Written, Writing
    <3>12. CASE DecideItem(w)
      <4>1. pc'[w] = "inState" /\ work'[w].id = work[w].id /\ item'[work[w].id] = work'[w].row
        BY <1>0, <3>12, DecideItemEffect
      <4> QED
        BY <4>1 DEF Owns, Written, Writing
    <3>13. CASE IndexState(w)
      <4>1. /\ pc[w] = "inState" /\ pc'[w] = "inExpiry" /\ work'[w] = work[w] /\ item' = item
            /\ byState' = byState \cup {<<work[w].row.state, work[w].id>>}
            /\ work[w].url \notin raced
        BY <1>0, <2>2, <3>13, IndexStateEffect DEF Same, SameHist
      <4>2. work[w].row = item[work[w].id]
        BY <3>b, <4>1 DEF Owns, Written, Writing
      <4> QED
        BY <4>1, <4>2 DEF Owns
    <3> QED
      BY <1>2, <3>1, <3>2, <3>3, <3>4, <3>5, <3>6, <3>7, <3>8, <3>9, <3>10, <3>11, <3>12, <3>13,
         StepCases DEF Ongoing
  <2> QED
    BY <2>1, <2>2 DEF OwnInv
<1> QED
  BY <1>1, <1>2 DEF Next

LEMMA MatchStep == Inv /\ [Next]_vars => MatchInv'
<1> SUFFICES ASSUME Inv, [Next]_vars PROVE MatchInv'
  OBVIOUS
<1> USE KNAssumption
<1>0. /\ TypeOK /\ HoldInv /\ RowInv /\ NewInv /\ MeetInv /\ OwnInv /\ MatchInv
      /\ HoldInv'
  BY HoldStep DEF Inv
<1>1. CASE Midnight \/ UNCHANGED vars
  <2>1. UNCHANGED <<item, byState, byExpiry, url, raced>>
    BY <1>1 DEF Midnight, vars, dbVars, idVars, histVars
  <2> QED
    BY <1>0, <2>1 DEF MatchInv, Matches
<1>2. ASSUME NEW w \in Workers, Step(w) PROVE MatchInv'
  <2>0. Frame(w)
    BY <1>0, <1>2, StepFrame
  <2> SUFFICES ASSUME NEW i \in Items, url'[i] \notin raced', item'[i] # NoItem PROVE Matches(i)'
    BY DEF MatchInv
  <2>1. CASE i # work[w].id
    <3>1. SameRows(i)
      BY <2>0, <2>1 DEF Frame
    <3>2. item[i] # NoItem /\ url'[i] = url[i]
      BY <1>0, <2>0, <3>1 DEF Frame, SameRows, HoldInv
    <3>3. Matches(i)
      BY <1>0, <2>0, <3>2 DEF Frame, MatchInv
    <3> QED
      BY <3>1, <3>3 DEF Matches, SameRows
  <2>2. CASE i = work[w].id
    <3>0. pc[w] \notin {"idle", "walk", "claim"}
      BY <1>0, <2>2, IdleFacts DEF HoldInv, Holds, Items
    <3>1. url'[i] = url[i] /\ url[i] = work[w].url /\ work[w].url \notin raced
      <4>1. i <= issued /\ url[i] = work[w].url
        BY <1>0, <2>2, <3>0, HolderFacts
      <4> QED
        BY <2>0, <4>1 DEF Frame
    <3>2. item[i] # NoItem => Matches(i)
      BY <1>0, <3>1 DEF MatchInv
    <3>3. Owns(w)
      BY <1>0, <3>1 DEF OwnInv
    <3>4. CASE ProposeItem(w)
      <4>1. pc[w] = "pItem" /\ UNCHANGED <<byState, byExpiry>>
        BY <1>0, <3>4, ProposeItemEffect
      <4>2. NotByState(i) /\ NotByExpiry(i)
        BY <1>0, <2>2, <4>1 DEF NewInv
      <4> QED
        BY <4>1, <4>2 DEF Matches, NotByState, NotByExpiry
    <3>5. CASE DecideItem(w)
      <4>1. pc[w] = "dItem" /\ UNCHANGED <<byState, byExpiry>>
        BY <1>0, <3>5, DecideItemEffect
      <4>2. NotByState(i) /\ NotByExpiry(i)
        BY <2>2, <3>3, <4>1 DEF Owns
      <4> QED
        BY <4>1, <4>2 DEF Matches, NotByState, NotByExpiry
    <3>6. CASE ~ProposeItem(w) /\ ~DecideItem(w)
      <4>1. item' = item
        BY <1>2, <3>6 DEF Step, FileStart, Walk, Claim, ProposeVersion, DecideStart, ReadItem,
                          UnindexState, UnindexExpiry, IndexState, IndexExpiry, Fail, dbVars, idVars
      <4>2. Matches(i)
        BY <3>2, <4>1
      <4>3. CASE IndexState(w)
        <5>1. pc[w] = "inState" /\ byState' = byState \cup {<<work[w].row.state, i>>} /\ byExpiry' = byExpiry
          BY <1>0, <2>2, <4>3, IndexStateEffect
        <5>2. work[w].row = item[i]
          BY <2>2, <3>3, <5>1 DEF Owns, Written, Writing
        <5> QED
          BY <4>1, <4>2, <5>1, <5>2 DEF Matches
      <4>4. CASE IndexExpiry(w)
        <5>1. pc[w] = "inExpiry" /\ byState' = byState
                /\ byExpiry' = byExpiry \cup {<<work[w].row.state, work[w].row.exp, i>>}
          BY <1>0, <2>2, <4>4, IndexExpiryEffect
        <5>2. work[w].row = item[i]
          BY <2>2, <3>3, <5>1 DEF Owns, Written, Writing
        <5> QED
          BY <4>1, <4>2, <5>1, <5>2 DEF Matches
      <4>5. CASE ~IndexState(w) /\ ~IndexExpiry(w)
        <5>1. byState' \subseteq byState /\ byExpiry' \subseteq byExpiry
          BY <1>2, <3>6, <4>5 DEF Step, FileStart, Walk, Claim, ProposeVersion, DecideStart, ReadItem,
                          UnindexState, UnindexExpiry, Fail, dbVars, idVars
        <5> QED
          BY <4>1, <4>2, <5>1 DEF Matches
      <4> QED
        BY <4>3, <4>4, <4>5
    <3> QED
      BY <3>4, <3>5, <3>6
  <2> QED
    BY <2>1, <2>2
<1> QED
  BY <1>1, <1>2 DEF Next

LEMMA OweStep == Inv /\ [Next]_vars => OweInv'
<1> SUFFICES ASSUME Inv, [Next]_vars PROVE OweInv'
  OBVIOUS
<1> USE KNAssumption
<1>0. TypeOK /\ HoldInv /\ RowInv /\ NewInv /\ OwnInv /\ OweInv
  BY DEF Inv
<1>1. CASE Midnight \/ UNCHANGED vars
  <2>1. UNCHANGED <<item, byState, byExpiry, pc, work, torn>>
    BY <1>1 DEF Midnight, vars, dbVars, idVars, histVars
  <2> QED
    BY <1>0, <2>1 DEF OweInv, Owed, OwesState, OwesExpiry
<1>2. ASSUME NEW w \in Workers, Step(w) PROVE OweInv'
  <2>0. Frame(w)
    BY <1>0, <1>2, StepFrame
  <2> SUFFICES ASSUME NEW i \in Items, item'[i] # NoItem, i \notin torn' PROVE Owed(i)'
    BY DEF OweInv
  <2>a. ASSUME item'[i] = item[i], NEW v \in Workers, v # w
        PROVE  /\ OwesState(v, i) => OwesState(v, i)'
               /\ OwesExpiry(v, i) => OwesExpiry(v, i)'
    BY <2>0, <2>a DEF Frame, Others, OwesState, OwesExpiry
  <2>1. CASE i # work[w].id
    <3>1. SameRows(i)
      BY <2>0, <2>1 DEF Frame
    <3>2. item'[i] = item[i] /\ Owed(i)
      BY <1>0, <3>1 DEF SameRows, OweInv
    <3>3. item[i].state \in States /\ item[i].exp \in Days
      BY <1>0, <3>2 DEF RowInv, RowOK, ItemRows
    <3>4. <<item'[i].state, i>> \in byState' \/ \E v \in Workers : OwesState(v, i)'
      BY <2>1, <2>a, <3>1, <3>2, <3>3 DEF Owed, SameRows, OwesState
    <3>5. <<item'[i].state, item'[i].exp, i>> \in byExpiry' \/ \E v \in Workers : OwesExpiry(v, i)'
      BY <2>1, <2>a, <3>1, <3>2, <3>3 DEF Owed, SameRows, OwesExpiry
    <3> QED
      BY <3>4, <3>5 DEF Owed
  <2>2. CASE i = work[w].id
    <3>0. pc[w] \notin {"idle", "walk", "claim"}
      BY <1>0, <2>2, IdleFacts DEF HoldInv, Holds, Items
    <3>b. ASSUME item' = item, i \notin torn PROVE Owed(i)
      BY <1>0, <3>b DEF OweInv
    <3>1. CASE ProposeItem(w)
      <4>1. pc'[w] = "pVersion" /\ work'[w] = work[w] /\ item'[i] = work[w].row
        BY <1>0, <2>2, <3>1, ProposeItemEffect DEF Same
      <4>2. OwesState(w, i)' /\ OwesExpiry(w, i)'
        BY <2>2, <4>1 DEF OwesState, OwesExpiry
      <4> QED
        BY <4>2 DEF Owed
    <3>2. CASE DecideItem(w)
      <4>1. pc'[w] = "inState" /\ work'[w].id = work[w].id /\ item'[i] = work'[w].row
        BY <1>0, <2>2, <3>2, DecideItemEffect
      <4>2. OwesState(w, i)' /\ OwesExpiry(w, i)'
        BY <2>2, <4>1 DEF OwesState, OwesExpiry
      <4> QED
        BY <4>2 DEF Owed
    <3>3. CASE ProposeVersion(w)
      <4>1. /\ pc[w] = "pVersion" /\ pc'[w] = "inState" /\ work'[w] = work[w]
            /\ UNCHANGED <<item, byState, byExpiry, torn>>
        BY <1>0, <3>3, ProposeVersionEffect DEF Same
      <4>2. Owed(i)
        BY <3>b, <4>1
      <4>3. /\ OwesState(w, i) => OwesState(w, i)'
            /\ OwesExpiry(w, i) => OwesExpiry(w, i)'
        BY <4>1 DEF OwesState, OwesExpiry
      <4> QED
        BY <2>a, <4>1, <4>2, <4>3 DEF Owed
    <3>4. CASE UnindexState(w)
      <4>1. /\ pc[w] = "unState" /\ pc'[w] = "unExpiry" /\ work'[w] = work[w]
            /\ UNCHANGED <<item, byExpiry, torn>>
        BY <1>0, <3>4, UnindexStateEffect DEF Same
      <4>2. Owed(i)
        BY <3>b, <4>1
      <4>3. OwesState(w, i)' /\ ~OwesExpiry(w, i)
        BY <2>2, <4>1 DEF OwesState, OwesExpiry
      <4> QED
        BY <2>a, <4>1, <4>2, <4>3 DEF Owed
    <3>5. CASE UnindexExpiry(w)
      <4>1. pc'[w] = "dItem" /\ work'[w] = work[w]
        BY <1>0, <3>5, UnindexExpiryEffect DEF Same
      <4>2. OwesState(w, i)' /\ OwesExpiry(w, i)'
        BY <2>2, <4>1 DEF OwesState, OwesExpiry
      <4> QED
        BY <4>2 DEF Owed
    <3>6. CASE IndexState(w)
      <4>1. /\ pc[w] = "inState" /\ pc'[w] = "inExpiry" /\ work'[w] = work[w]
            /\ byState' = byState \cup {<<work[w].row.state, work[w].id>>}
            /\ UNCHANGED <<item, byExpiry, torn>>
        BY <1>0, <3>6, IndexStateEffect DEF Same
      <4>2. Owed(i)
        BY <3>b, <4>1
      <4>3. /\ OwesState(w, i) => <<item'[i].state, i>> \in byState'
            /\ OwesExpiry(w, i) => OwesExpiry(w, i)'
        BY <2>2, <4>1 DEF OwesState, OwesExpiry
      <4> QED
        BY <2>a, <4>1, <4>2, <4>3 DEF Owed
    <3>7. CASE ReadItem(w)
      <4>1. pc[w] = "read" /\ UNCHANGED <<item, byState, byExpiry, torn>>
        BY <1>0, <3>7, ReadItemEffect DEF SameTables
      <4>2. Owed(i)
        BY <3>b, <4>1
      <4>3. ~OwesState(w, i) /\ ~OwesExpiry(w, i)
        BY <4>1 DEF OwesState, OwesExpiry
      <4> QED
        BY <2>a, <4>1, <4>2, <4>3 DEF Owed
    <3>8. CASE IndexExpiry(w)
      <4>1. /\ pc[w] = "inExpiry" /\ UNCHANGED <<item, byState>>
            /\ byExpiry' = byExpiry \cup {<<work[w].row.state, work[w].row.exp, work[w].id>>}
            /\ torn' = IF work[w].url \in raced THEN torn ELSE torn \ {work[w].id}
        BY <1>0, <3>8, IndexExpiryEffect
      <4>2. CASE work[w].url \in raced
        <5>1. Owed(i)
          BY <3>b, <4>1, <4>2
        <5>2. ~OwesState(w, i) /\ (OwesExpiry(w, i) => <<item'[i].state, item'[i].exp, i>> \in byExpiry')
          BY <2>2, <4>1 DEF OwesState, OwesExpiry
        <5> QED
          BY <2>a, <4>1, <5>1, <5>2 DEF Owed
      <4>3. CASE work[w].url \notin raced
        <5>1. Owns(w)
          BY <1>0, <4>3 DEF OwnInv
        <5>2. work[w].row = item[i] /\ <<work[w].row.state, i>> \in byState
          BY <2>2, <4>1, <5>1 DEF Owns, Written, Writing
        <5> QED
          BY <2>2, <4>1, <5>2 DEF Owed
      <4> QED
        BY <4>2, <4>3
    <3>9. CASE Fail(w)
      <4>1. /\ UNCHANGED <<item, byState, byExpiry>>
            /\ torn' = IF pc[w] \in Halfway THEN torn \cup {work[w].id} ELSE torn
        BY <1>0, <3>9, FailEffect
      <4>2. pc[w] \notin Halfway /\ Owed(i)
        BY <2>2, <3>b, <4>1
      <4>3. ~OwesState(w, i) /\ ~OwesExpiry(w, i)
        BY <4>2 DEF OwesState, OwesExpiry, Halfway
      <4> QED
        BY <2>a, <4>1, <4>2, <4>3 DEF Owed
    <3> QED
      BY <1>2, <3>0, <3>1, <3>2, <3>3, <3>4, <3>5, <3>6, <3>7, <3>8, <3>9
         DEF Step, FileStart, Walk, Claim, DecideStart
  <2> QED
    BY <2>1, <2>2
<1> QED
  BY <1>1, <1>2 DEF Next

LEMMA FailStep == Inv /\ [Next]_vars => FailInv'
<1> SUFFICES ASSUME Inv, [Next]_vars PROVE FailInv'
  OBVIOUS
<1> USE KNAssumption
<1>0. TypeOK /\ HoldInv /\ RowInv /\ NewInv /\ FailInv /\ TypeOK'
  BY TypeStep DEF Inv
<1>1. CASE Midnight \/ UNCHANGED vars
  <2>1. UNCHANGED <<item, version, url, pc, work, torn, failed>>
    BY <1>1 DEF Midnight, vars, dbVars, idVars, histVars
  <2> QED
    BY <1>0, <2>1 DEF FailInv
<1>2. ASSUME NEW w \in Workers, Step(w) PROVE FailInv'
  <2>0. Frame(w)
    BY <1>0, <1>2, StepFrame
  <2>a. \A i \in Items : item[i] # NoItem => url'[i] = url[i]
    BY <1>0, <2>0 DEF Frame, HoldInv
  <2>b. \A i \in Items : item[i] # NoItem => item'[i] # NoItem
    BY <1>0, <1>2, ItemMoves
  <2>c. ASSUME pc[w] \in Halfway
        PROVE  work[w].id \in Items /\ item[work[w].id] # NoItem /\ work[w].url = url[work[w].id]
    <3>1. work[w].id \in Items /\ work[w].id # 0 /\ work[w].url = url[work[w].id]
      BY <1>0, <2>c, HolderFacts DEF Halfway
    <3> QED
      BY <1>0, <2>c, <3>1 DEF NewInv, Halfway
  <2>1. ASSUME NEW i \in torn' PROVE item'[i] # NoItem /\ url'[i] \in failed'
    <3>1. i \in Items
      BY <1>0 DEF TypeOK
    <3>2. CASE i \in torn
      BY <1>0, <2>0, <2>a, <2>b, <3>1, <3>2 DEF FailInv, Frame
    <3>3. CASE i \notin torn
      <4>1. Fail(w)
        BY <1>2, <2>1, <3>3 DEF Step, FileStart, Walk, Claim, ProposeItem, ProposeVersion, DecideStart,
             ReadItem, UnindexState, UnindexExpiry, DecideItem, IndexState, IndexExpiry, histVars, idVars
      <4>2. /\ failed' = IF pc[w] \in Halfway THEN failed \cup {work[w].url} ELSE failed
            /\ torn' = IF pc[w] \in Halfway THEN torn \cup {work[w].id} ELSE torn
        BY <1>0, <4>1, FailEffect
      <4>3. pc[w] \in Halfway /\ i = work[w].id /\ failed' = failed \cup {work[w].url}
        BY <2>1, <3>3, <4>2
      <4> QED
        BY <2>a, <2>b, <2>c, <4>3
    <3> QED
      BY <3>2, <3>3
  <2>2. ASSUME NEW i \in Items, item'[i] # NoItem, url'[i] \notin failed'
        PROVE  i \in version' \/ \E v \in Workers : work'[v].id = i /\ pc'[v] = "pVersion"
    <3>1. CASE item[i] = NoItem
      <4>1. i = work[w].id /\ work'[w].id = i
        BY <1>0, <1>2, <2>2, <3>1, ItemMoves
      <4>2. pc[w] = "pItem"
        BY <1>0, <3>1, <4>1 DEF NewInv, Items
      <4>3. CASE ProposeItem(w)
        BY <1>0, <4>1, <4>3, ProposeItemEffect
      <4>4. CASE Fail(w)
        BY <1>0, <2>2, <3>1, <4>4, FailEffect
      <4> QED
        BY <1>2, <4>2, <4>3, <4>4, NewSteps
    <3>2. CASE item[i] # NoItem
      <4>1. url[i] \notin failed
        BY <2>0, <2>2, <2>a, <3>2 DEF Frame
      <4>2. i \in version \/ \E v \in Workers : work[v].id = i /\ pc[v] = "pVersion"
        BY <1>0, <3>2, <4>1 DEF FailInv
      <4>3. version \subseteq version'
        BY <1>2 DEF Step, FileStart, Walk, Claim, ProposeItem, ProposeVersion, DecideStart,
             ReadItem, UnindexState, UnindexExpiry, DecideItem, IndexState, IndexExpiry, Fail, dbVars, idVars
      <4>4. ASSUME NEW v \in Workers, v # w, work[v].id = i, pc[v] = "pVersion"
            PROVE  work'[v].id = i /\ pc'[v] = "pVersion"
        BY <2>0, <4>4 DEF Frame, Others
      <4>5. ASSUME work[w].id = i, pc[w] = "pVersion" PROVE i \in version'
        <5>1. CASE ProposeVersion(w)
          BY <1>0, <4>5, <5>1, ProposeVersionEffect
        <5>2. CASE Fail(w)
          <6>1. failed' = failed \cup {work[w].url}
            BY <1>0, <4>5, <5>2, FailEffect DEF Halfway
          <6> QED
            BY <2>2, <2>a, <2>c, <3>2, <4>5, <6>1 DEF Halfway
        <5> QED
          BY <1>2, <4>5, <5>1, <5>2 DEF Step, FileStart, Walk, Claim, ProposeItem, DecideStart,
             ReadItem, UnindexState, UnindexExpiry, DecideItem, IndexState, IndexExpiry
      <4> QED
        BY <4>2, <4>3, <4>4, <4>5
    <3> QED
      BY <3>1, <3>2
  <2> QED
    BY <2>1, <2>2 DEF FailInv
<1> QED
  BY <1>1, <1>2 DEF Next

LEMMA FiledStep == Inv /\ [Next]_vars => FiledOnce'
<1> SUFFICES ASSUME Inv, [Next]_vars PROVE FiledOnce'
  OBVIOUS
<1>0. TypeOK /\ HoldInv /\ RunInv /\ RowInv /\ NewInv /\ WalkInv /\ FiledOnce
  BY DEF Inv
<1>1. CASE Midnight \/ UNCHANGED vars
  <2>1. UNCHANGED <<item, url, filedBy, raced, failed>>
    BY <1>1 DEF Midnight, vars, dbVars, idVars, histVars
  <2> QED
    BY <1>0, <2>1 DEF FiledOnce
<1>2. ASSUME NEW w \in Workers, Step(w) PROVE FiledOnce'
  <2>0. Frame(w)
    BY <1>0, <1>2, StepFrame
  <2>a. \A i \in Items : item[i] # NoItem => url'[i] = url[i] /\ filedBy'[i] = filedBy[i]
    BY <1>0, <2>0 DEF Frame, HoldInv
  <2>b. raced \cup failed \subseteq raced' \cup failed'
    BY <2>0 DEF Frame
  <2>c. ASSUME NEW i \in Items, NEW j \in Items, item'[i] # NoItem, item'[j] # NoItem,
               url'[i] = url'[j], filedBy'[i] # filedBy'[j], item[i] = NoItem
        PROVE  url'[i] \in raced' \cup failed'
    <3>1. i = work[w].id /\ i # j
      BY <1>0, <1>2, <2>c, ItemMoves
    <3>2. pc[w] = "pItem" /\ item[j] # NoItem
      BY <1>0, <2>0, <2>c, <3>1 DEF NewInv, Items, Frame, SameRows
    <3>3. i <= issued /\ url[i] = work[w].url
      BY <1>0, <3>1, <3>2, HolderFacts
    <3>4. url'[i] = work[w].url /\ url[j] = work[w].url /\ filedBy[j] # filedBy[i]
      BY <2>0, <2>a, <2>c, <3>2, <3>3 DEF Frame
    <3>5. filedBy[i] = work[w].run /\ work[w].run # 0 /\ work[w].url \notin work[w].seen
      BY <1>0, <3>1, <3>2 DEF RunInv, Runs
    <3>6. work[w].url \in raced \cup failed
      <4>1. work[w].url \in On(w)
        BY DEF On
      <4> QED
        BY <1>0, <3>2, <3>4, <3>5, <4>1 DEF WalkInv, Sought, Finds
    <3> QED
      BY <2>b, <3>4, <3>6
  <2>d. ASSUME NEW i \in Items, NEW j \in Items, item'[i] # NoItem, item'[j] # NoItem,
               url'[i] = url'[j], filedBy'[i] # filedBy'[j]
        PROVE  url'[i] \in raced' \cup failed'
    <3>1. CASE item[i] = NoItem
      BY <2>c, <2>d, <3>1
    <3>2. CASE item[j] = NoItem
      BY <2>c, <2>d, <3>2
    <3>3. CASE item[i] # NoItem /\ item[j] # NoItem
      BY <1>0, <2>a, <2>b, <2>d, <3>3 DEF FiledOnce
    <3> QED
      BY <3>1, <3>2, <3>3
  <2> QED
    BY <2>d DEF FiledOnce
<1> QED
  BY <1>1, <1>2 DEF Next

(* An item of a deliverable on which no workers met and none failed is where
   the walk of a worker that has the deliverable finds it. *)
LEMMA Listed ==
    ASSUME Inv, NEW w \in Workers, work[w].id = 0, NEW i \in Items, Sought(w, i)
    PROVE  <<item[i].state, i>> \in byState /\ i \in version
<1>0. TypeOK /\ HoldInv /\ MeetInv /\ OweInv /\ FailInv
  BY DEF Inv
<1>1. ASSUME NEW x \in Workers, work[x].id = i PROVE FALSE
  <2>1. x # w /\ i # 0
    BY <1>1, KNAssumption DEF Items
  <2>2. pc[x] \notin {"idle", "walk", "claim"}
    BY <1>0, <1>1, <2>1, IdleFacts DEF HoldInv, Holds
  <2>3. work[x].url = url[i] /\ url[i] \in Urls
    BY <1>0, <1>1, <2>2, HolderFacts
  <2> QED
    BY <1>0, <2>1, <2>3 DEF MeetInv, On, Sought
<1>2. i \notin torn
  BY <1>0 DEF FailInv, Sought
<1>3. <<item[i].state, i>> \in byState
  BY <1>0, <1>1, <1>2 DEF OweInv, Owed, OwesState, Sought
<1>4. i \in version
  BY <1>0, <1>1 DEF FailInv, Sought
<1> QED
  BY <1>3, <1>4

(* One page of the walk. *)
LEMMA WalkFinds ==
    ASSUME Inv, NEW w \in Workers, Walk(w), NEW i \in Items, Sought(w, i)
    PROVE  Finds(w, i)'
<1> USE KNAssumption
<1> DEFINE k     == work[w].part
           c     == work[w].cursor
           ids   == PageIds(Partitions[k], c)
           shown == Newest(ids, PageLimit)
           more  == shown # ids
           S     == work[w].seen \cup {url[j] : j \in shown \cap version}
           P     == IF more THEN k ELSE k + 1
           C     == IF more THEN Min(shown) ELSE MaxItems + 1
<1>0. TypeOK /\ HoldInv /\ RowInv /\ WalkInv /\ work \in [Workers -> WorkRecs]
  BY SMTT(30) DEF Inv, TypeOK, WorkRecs
<1>1. pc[w] = "walk" /\ work[w].id = 0 /\ k \in Nat /\ c \in Nat /\ Len(Partitions) \in Nat
  <2>1. pc[w] = "walk" /\ work[w].id = 0
    BY <1>0 DEF Walk, HoldInv, Holds
  <2>2. k \in 1..(Len(Partitions) + 1) /\ c \in 1..(MaxItems + 1)
    BY <1>0, SMTT(30) DEF WorkRecs
  <2> HIDE DEF k, c
  <2> QED
    BY <2>1, <2>2, PartitionCount
<1>2. work'[w].seen = S /\ work'[w].part = P /\ work'[w].cursor = C
  <2>1. work' = [work EXCEPT ![w] = [work[w] EXCEPT !.seen = S, !.cursor = C, !.part = P]]
    BY <1>0 DEF Walk, WorkRecs
  <2>2. work'[w] = [work[w] EXCEPT !.seen = S, !.cursor = C, !.part = P]
    <3> HIDE DEF S, C, P
    <3> QED
      BY <1>0, <2>1
  <2> HIDE DEF S, C, P
  <2> QED
    BY <1>0, <2>2 DEF WorkRecs
<1>3. pc'[w] = IF ~more /\ k = Len(Partitions) THEN "claim" ELSE "walk"
  BY <1>0 DEF Walk, Goto, TypeOK
<1>4. UNCHANGED <<item, url>>
  BY DEF Walk, dbVars, idVars
<1>5. <<item[i].state, i>> \in byState /\ i \in version
  BY <1>1, Listed
<1>6. Finds(w, i)
  BY <1>0 DEF WalkInv
<1>7. ids \in SUBSET (1..MaxItems)
  BY PageFacts
<1>8. /\ shown \subseteq ids
      /\ ids # {} => shown # {}
      /\ \A m \in shown, j \in ids : j >= m => j \in shown
  <2> HIDE DEF ids
  <2> QED
    BY <1>7, NewestPage
<1>9. more => Min(shown) \in shown
  <2>1. more => shown \in SUBSET (1..MaxItems) /\ shown # {}
    BY <1>7, <1>8
  <2> HIDE DEF shown, more
  <2> QED
    BY <2>1, Smallest
<1>10. ASSUME NEW n \in 1..Len(Partitions), Partitions[n] = PartitionOf(i),
              n < k \/ (n = k /\ (i >= c \/ i \in shown))
       PROVE  url[i] \in S
  <2>1. CASE n < k \/ (n = k /\ i >= c)
    BY <1>1, <1>6, <1>10, <2>1 DEF Finds, Passed
  <2>2. CASE i \in shown
    BY <1>5, <2>2
  <2> QED
    BY <1>10, <2>1, <2>2
<1>11. ASSUME Partitions[k] = PartitionOf(i), ~(i >= c) PROVE i \in ids
  <2>1. i < c
    BY <1>1, <1>11 DEF Items
  <2> QED
    BY <1>5, <1>11, <2>1 DEF PageIds, PartitionOf
<1>12. ASSUME pc'[w] = "walk", NEW n \in 1..Len(Partitions), Partitions[n] = PartitionOf(i),
              n < P \/ (n = P /\ i >= C)
       PROVE  url[i] \in S
  <2>1. CASE more
    <3>1. n < k \/ (n = k /\ i >= Min(shown))
      BY <1>12, <2>1
    <3>2. CASE n = k /\ i >= Min(shown) /\ ~(i >= c)
      <4>1. i \in ids
        BY <1>11, <1>12, <3>2
      <4>2. i \in shown
        BY <1>8, <1>9, <2>1, <3>2, <4>1
      <4> QED
        BY <1>10, <1>12, <3>2, <4>2
    <3> QED
      BY <1>10, <1>12, <3>1, <3>2
  <2>2. CASE ~more
    <3>1. P = k + 1 /\ C = MaxItems + 1
      BY <2>2
    <3>2. ~(i >= C)
      BY <3>1 DEF Items
    <3>3. n < k \/ n = k
      BY <1>1, <1>12, <3>1, <3>2
    <3>4. CASE n = k /\ ~(i >= c)
      <4>1. i \in shown
        BY <1>11, <1>12, <2>2, <3>4
      <4> QED
        BY <1>10, <1>12, <3>4, <4>1
    <3> QED
      BY <1>10, <1>12, <3>3, <3>4
  <2> QED
    BY <2>1, <2>2
<1>13. ASSUME pc'[w] = "claim" PROVE url[i] \in S
  <2>1. ~more /\ k = Len(Partitions)
    BY <1>3, <1>13
  <2>2. item[i].state \in Decided /\ url[i] \in Urls
    BY <1>0 DEF RowInv, RowOK, HoldInv, Sought
  <2>3. PICK n \in 1..Len(Partitions) : Partitions[n] = PartitionOf(i)
    BY <2>2, EveryPartition DEF PartitionOf
  <2>4. n < k \/ n = k
    BY <1>1, <2>1
  <2>5. CASE n = k /\ ~(i >= c)
    <3>1. i \in shown
      BY <1>11, <2>1, <2>3, <2>5
    <3> QED
      BY <1>10, <2>3, <2>5, <3>1
  <2> QED
    BY <1>10, <2>3, <2>4, <2>5
<1>14. pc'[w] \in {"walk", "claim"}
  BY <1>3
<1>15. PartitionOf(i)' = PartitionOf(i)
  BY <1>4 DEF PartitionOf
<1> HIDE DEF S, P, C, more, shown, ids, k, c
<1> QED
  BY <1>2, <1>4, <1>12, <1>13, <1>14, <1>15 DEF Finds, Passed

LEMMA WalkStep == Inv /\ [Next]_vars => WalkInv'
<1> SUFFICES ASSUME Inv, [Next]_vars PROVE WalkInv'
  OBVIOUS
<1> USE KNAssumption
<1>0. TypeOK /\ HoldInv /\ RunInv /\ RowInv /\ NewInv /\ MeetInv /\ WalkInv
  BY DEF Inv
<1>1. CASE Midnight \/ UNCHANGED vars
  <2>1. UNCHANGED <<item, url, filedBy, pc, work, raced, failed>>
    BY <1>1 DEF Midnight, vars, dbVars, idVars, histVars
  <2> QED
    BY <1>0, <2>1 DEF WalkInv, Sought, On, Finds, Passed, PartitionOf
<1>2. ASSUME NEW w \in Workers, Step(w) PROVE WalkInv'
  <2>0. Frame(w)
    BY <1>0, <1>2, StepFrame
  <2> SUFFICES ASSUME NEW v \in Workers, NEW i \in Items, Sought(v, i)' PROVE Finds(v, i)'
    BY DEF WalkInv
  <2>a. /\ item'[i] # NoItem /\ url'[i] \in On(v)' /\ url'[i] \notin raced \cup failed
        /\ work'[v].run # 0 /\ filedBy'[i] # work'[v].run
    BY <2>0 DEF Sought, Frame
  <2>b. item[i] # NoItem => url'[i] = url[i] /\ filedBy'[i] = filedBy[i]
    BY <1>0, <2>0 DEF Frame, HoldInv
  <2>c. i = work[w].id => /\ pc[w] \notin {"idle", "walk", "claim"} /\ i <= issued
                          /\ work[w].url = url[i] /\ url[i] \in Urls
                          /\ url'[i] = url[i] /\ filedBy'[i] = filedBy[i]
    <3>1. i = work[w].id => pc[w] \notin {"idle", "walk", "claim"}
      BY <1>0, IdleFacts DEF HoldInv, Holds, Items
    <3> QED
      BY <1>0, <2>0, <3>1, HolderFacts DEF Frame
  <2>1. CASE v # w
    <3>1. pc'[v] = pc[v] /\ work'[v] = work[v] /\ On(v)' = On(v)
      BY <2>0, <2>1 DEF Frame, Others, On
    <3>2. i # work[w].id
      <4> SUFFICES ASSUME i = work[w].id PROVE FALSE
        OBVIOUS
      <4>1. url[i] \in On(w) /\ url[i] \in On(v) /\ url[i] \in Urls /\ url[i] \notin raced
        BY <2>a, <2>c, <3>1 DEF On
      <4> QED
        BY <1>0, <2>1, <4>1 DEF MeetInv
    <3>3. item'[i] = item[i]
      BY <2>0, <3>2 DEF Frame, SameRows
    <3>4. Sought(v, i) /\ url'[i] = url[i]
      BY <2>a, <2>b, <3>1, <3>3 DEF Sought
    <3>5. Finds(v, i)
      BY <1>0, <3>4 DEF WalkInv
    <3> QED
      BY <3>1, <3>3, <3>4, <3>5 DEF Finds, Passed, PartitionOf
  <2>2. CASE v = w
    <3>1. CASE \E found \in Found : FileStart(w, found)
      <4>1. pc'[w] = "walk" /\ work'[w].part = 1 /\ work'[w].cursor = MaxItems + 1
        BY <1>0, <3>1, FileStartEffect
      <4>2. \A n \in 1..Len(Partitions) : ~(n < 1) /\ ~(i >= MaxItems + 1)
        BY PartitionCount DEF Items
      <4> QED
        BY <2>2, <4>1, <4>2 DEF Finds, Passed
    <3>2. CASE Walk(w) /\ On(w)' = On(w) /\ work'[w].run = work[w].run
      <4>1. item' = item
        BY <1>0, <3>2, WalkEffect DEF SameTables
      <4>2. Sought(w, i)
        BY <2>2, <2>a, <2>b, <3>2, <4>1 DEF Sought
      <4> QED
        BY <2>2, <3>2, <4>2, WalkFinds
    <3>3. CASE /\ pc[w] \notin {"idle", "walk"} /\ pc'[w] \notin {"idle", "walk"}
               /\ On(w)' \subseteq On(w)
               /\ work'[w].seen = work[w].seen /\ work'[w].run = work[w].run
      <4>1. item[i] # NoItem
        <5> SUFFICES ASSUME item[i] = NoItem PROVE FALSE
          OBVIOUS
        <5>1. i = work[w].id
          BY <1>0, <1>2, <2>a, ItemMoves
        <5>2. pc[w] = "pItem"
          BY <1>0, <5>1 DEF NewInv, Items
        <5>3. filedBy[i] = work[w].run
          BY <1>0, <5>1, <5>2 DEF RunInv, Runs
        <5> QED
          BY <2>2, <2>a, <2>c, <3>3, <5>1, <5>3
      <4>2. Sought(w, i) /\ url'[i] = url[i]
        BY <2>2, <2>a, <2>b, <3>3, <4>1 DEF Sought
      <4>3. Finds(w, i)
        BY <1>0, <4>2 DEF WalkInv
      <4> QED
        BY <2>2, <3>3, <4>2, <4>3 DEF Finds
    <3>4. work'[w] # Idle
      BY <2>2, <2>a, IdleFacts
    <3>5. pc'[w] = "read" => ~(pc[w] = "idle" /\ work'[w].run = 0)
      BY <2>2, <2>a
    <3> QED
      BY <1>0, <1>2, <2>2, <2>a, <3>1, <3>2, <3>3, <3>4, <3>5, RunMoves
  <2> QED
    BY <2>1, <2>2
<1> QED
  BY <1>1, <1>2 DEF Next

-----------------------------------------------------------------------------
LEMMA InitInv == Init => Inv
<1> SUFFICES ASSUME Init PROVE Inv
  OBVIOUS
<1> USE KNAssumption
<1>1. TypeOK
  <2>1. work \in [Workers -> WorkRecs]
    BY IdleType DEF Init
  <2>2. pc \in [Workers -> Labels] /\ item \in [Items -> ItemRows \cup {NoItem}]
    BY DEF Init, Labels
  <2> QED
    BY <2>1, <2>2 DEF Init, TypeOK, WorkRecs
<1>2. \A w \in Workers : /\ pc[w] = "idle" /\ work[w] = Idle /\ work[w].id = 0 /\ work[w].url = NoUrl
                         /\ work[w].run = 0 /\ work[w].rest = <<>>
  BY IdleFacts DEF Init
<1>3. \A i \in Items : item[i] = NoItem /\ ~(i <= issued)
  BY DEF Init, Items
<1>4. HoldInv
  BY <1>2, <1>3 DEF HoldInv, Holds
<1>5. MeetInv /\ RunInv
  <2>1. \A w \in Workers : On(w) = {NoUrl}
    BY <1>2, EmptySeq DEF On
  <2> QED
    BY <1>2, <2>1 DEF MeetInv, RunInv, Runs
<1>6. NewInv
  BY <1>2 DEF NewInv, NotByState, NotByExpiry, Init
<1>7. RowInv
  BY <1>2, <1>3 DEF RowInv, Writing
<1>8. OwnInv /\ MatchInv /\ OweInv
  BY <1>2, <1>3 DEF OwnInv, Owns, Written, Writing, MatchInv, OweInv
<1>9. FailInv /\ WalkInv /\ FiledOnce
  BY <1>3 DEF FailInv, WalkInv, Sought, FiledOnce, Init
<1> QED
  BY <1>1, <1>4, <1>5, <1>6, <1>7, <1>8, <1>9 DEF Inv

(* Every statement of propose, decide and the walk, every failure and every day
   keeps what items, queues and workers say of one another. *)
THEOREM Invariance == Spec => []Inv
<1>1. Inv /\ [Next]_vars => Inv'
  BY TypeStep, HoldStep, RunStep, MeetStep, NewStep, RowStep, OwnStep, MatchStep, OweStep, FailStep,
     WalkStep, FiledStep DEF Inv
<1> QED
  BY InitInv, <1>1, PTL DEF Spec

(* The tables and the workers keep their types: what decide writes into a queue
   is a state and a day, and the walk stays within its partitions. *)
THEOREM TypeCorrect == Spec => []TypeOK
<1>1. Inv => TypeOK
  BY DEF Inv
<1> QED
  BY Invariance, <1>1, PTL

LEMMA QuietAgrees == Inv => QueuesAgree
<1> SUFFICES ASSUME Inv PROVE QueuesAgree
  OBVIOUS
<1>1. InItsQueues
  BY DEF Inv, InItsQueues, Quiet, OweInv, Owed, OwesState, OwesExpiry
<1>2. OneQueue
  BY DEF Inv, OneQueue, Quiet, MatchInv, Matches
<1> QED
  BY <1>1, <1>2 DEF QueuesAgree

(* unindex and index bracket the rewrite of an item in every interleaving: an
   item that no worker holds is in the queues of its state, unless a write on it
   failed halfway, and in no other, unless two workers met. *)
THEOREM QueuesStayTrue == Spec => []QueuesAgree
  BY Invariance, QuietAgrees, PTL

(* already_filed finds every claim of a deliverable, in whatever state and on
   whatever page it is, so no second run of session-claims files it. *)
THEOREM ClaimFiledOnce == Spec => []FiledOnce
<1>1. Inv => FiledOnce
  BY DEF Inv
<1> QED
  BY Invariance, <1>1, PTL

LEMMA QuietShown == Inv => ClaimsShown
<1> SUFFICES ASSUME Inv, NEW i \in Items, Quiet(i)
             PROVE  /\ (/\ i \notin torn
                        /\ item[i].state \in {"proposed", "revisit"}
                        /\ item[i].exp >= today) => i \in ClaimRows
                    /\ (i \in ClaimRows /\ url[i] \notin raced) => item[i].state \in {"proposed", "revisit"}
  BY DEF ClaimsShown
<1>0. InItsQueues /\ OneQueue
  BY QuietAgrees DEF QueuesAgree
<1>1. RowOK(item[i])
  BY DEF Quiet, Inv, RowInv
<1>2. ASSUME i \notin torn, item[i].state \in {"proposed", "revisit"}, item[i].exp >= today
      PROVE  i \in ClaimRows
  <2>1. <<item[i].state, item[i].exp, i>> \in byExpiry
    BY <1>0, <1>2 DEF InItsQueues
  <2>2. item[i].exp \in Days /\ item[i].exp <= today + ExpiryDays /\ today <= item[i].exp
    BY <1>1, <1>2, KNAssumption DEF RowOK, ItemRows, Days, Inv, TypeOK
  <2> QED
    BY <1>2, <2>1, <2>2 DEF ClaimRows
<1>3. ASSUME i \in ClaimRows, url[i] \notin raced PROVE item[i].state \in {"proposed", "revisit"}
  <2>1. PICK s \in {"proposed", "revisit"}, d \in Days : <<s, d, i>> \in byExpiry
    BY <1>3 DEF ClaimRows
  <2>2. s \in States
    BY DEF States
  <2> QED
    BY <1>0, <1>3, <2>1, <2>2 DEF OneQueue
<1> QED
  BY <1>2, <1>3

(* The claims view shows everything that awaits a person, up to the longest
   expiry that decide gives, and nothing that was decided. *)
THEOREM ClaimsViewTrue == Spec => []ClaimsShown
  BY Invariance, QuietShown, PTL

=============================================================================
