--------------------------- MODULE NoteShare_proofs ---------------------------
(***************************************************************************)
(* Proofs about NoteShare, for any number of processes, reads, revocations *)
(* and faults, and any read limit.                                         *)
(***************************************************************************)
EXTENDS NoteShare, FiniteSetTheorems, TLAPS

(* A reservation belongs to a read of the process that has begun and was not
   answered; only a share that is known has any, and they are finitely many. *)
FlightInv ==
    \A p \in Procs :
        /\ IsFiniteSet(ledger[p].flight)
        /\ ledger[p].flight # {} => ledger[p].known
        /\ \A r \in ledger[p].flight :
              /\ ProcOf[r] = p
              /\ pc[r] \in {"fetch", "complete", "done"}
              /\ r \notin delivered

(* A read whose process revoked the share lost its reservation for good. *)
CutInv ==
    \A r \in cut :
        /\ pc[r] \in {"fetch", "complete", "done"}
        /\ r \notin ledger[ProcOf[r]].flight
        /\ r \notin delivered

(* What is delivered was audited and counted, each read once. *)
CountInv ==
    /\ IsFiniteSet(delivered) /\ Cardinality(delivered) <= counter
    /\ \A r \in delivered : pc[r] = "done" /\ r \in audits
    /\ \A r \in Reads : pc[r] = "count" => r \in audits

(* Nobody knows the id of the share before it was created. *)
CreateInv == create # "shared" => \A r \in Requests : pc[r] = "idle"

(* The share has ended for the ledger or for the snapshot s. *)
Spent(s) == s.revoked \/ s.reads >= Limit

(* Once a read came after the end, the end stays, no request of its process
   holds a snapshot from before it, and the read itself gets no further than
   the authorization, which finds the end in the ledger. *)
FenceInv ==
    \A r \in fenced :
        /\ create = "shared"
        /\ row = "revoked" \/ counter >= Limit
        /\ pc[r] \in {"loadCounter", "replace", "begin", "done"}
        /\ pc[r] = "begin" => Spent(ledger[ProcOf[r]])
        /\ r \notin delivered
        /\ \A q \in Reads : ProcOf[q] = ProcOf[r] =>
              /\ pc[q] = "loadCounter" => snap[q].revoked \/ counter >= Limit
              /\ pc[q] = "replace" => Spent(snap[q])

Inv == /\ TypeOK /\ FlightInv /\ CutInv /\ CountInv /\ CreateInv
       /\ FenceInv /\ ReservationKept

-----------------------------------------------------------------------------
(* Types *)

LEMMA GotoType ==
    ASSUME pc \in [Requests -> Labels], NEW r \in Requests, NEW l \in Labels, Goto(r, l)
    PROVE  pc' \in [Requests -> Labels]
  BY DEF Goto

LEMMA FaultType ==
    ASSUME faults \in Nat, NoFault \/ Fault PROVE faults' \in Nat
  BY DEF NoFault, Fault

LEMMA NoShareType == NoShare \in Shares
  BY DEF NoShare, Shares

LEMMA FreshShareType == FreshShare \in Shares
  BY NoShareType DEF FreshShare, Shares

LEMMA RefreshedType ==
    ASSUME NEW l \in Shares, NEW s \in Snapshots PROVE Refreshed(l, s) \in Shares
  BY DEF Refreshed, Shares, Snapshots

LEMMA RevokedType ==
    ASSUME NEW l \in Shares PROVE Revoked(l) \in Shares
  BY DEF Revoked, Shares

LEMMA TypeStep == TypeOK /\ [Next]_vars => TypeOK'
<1> SUFFICES ASSUME TypeOK, [Next]_vars PROVE TypeOK'
  OBVIOUS
<1> USE NSAssumption
<1>0. \A r \in Reads : r \in Requests /\ ProcOf[r] \in Procs
  BY DEF Requests
<1>1. CASE Persist
  BY <1>1 DEF TypeOK, Persist, historyVars
<1>2. CASE Insert
  BY <1>2, FreshShareType DEF TypeOK, Insert, historyVars, storeVars
<1>3. CASE Expire
  BY <1>3 DEF TypeOK, Expire, historyVars, storeVars
<1>4. ASSUME NEW r \in Reads, LoadRow(r) PROVE TypeOK'
  <2>1. pc' \in [Requests -> Labels] /\ faults' \in Nat
    BY <1>0, <1>4, GotoType, FaultType DEF LoadRow, Fails, TypeOK, Labels
  <2>2. snap' \in [Reads -> Snapshots]
    BY <1>4, ZenonT(60) DEF LoadRow, TypeOK, Snapshots
  <2>3. lateAt' \in [Reads -> BOOLEAN]
    BY <1>4 DEF LoadRow, TypeOK
  <2>4. fenced' \subseteq Reads
    BY <1>4 DEF LoadRow, TypeOK
  <2> QED
    BY <1>4, <2>1, <2>2, <2>3, <2>4 DEF LoadRow, TypeOK, storeVars
<1>5. ASSUME NEW r \in Reads, LoadCounter(r) PROVE TypeOK'
  <2>1. pc' \in [Requests -> Labels] /\ faults' \in Nat
    BY <1>0, <1>5, GotoType, FaultType DEF LoadCounter, Fails, TypeOK, Labels
  <2>2. snap' \in [Reads -> Snapshots]
    BY <1>5 DEF LoadCounter, TypeOK, Snapshots
  <2> QED
    BY <1>5, <2>1, <2>2 DEF LoadCounter, TypeOK, storeVars, historyVars
<1>6. ASSUME NEW r \in Reads, Replace(r) PROVE TypeOK'
  <2>1. pc' \in [Requests -> Labels]
    BY <1>0, <1>6, GotoType DEF Replace, TypeOK, Labels
  <2>2. Refreshed(ledger[ProcOf[r]], snap[r]) \in Shares
    BY <1>0, RefreshedType DEF TypeOK
  <2>3. ledger' \in [Procs -> Shares]
    BY <1>0, <1>6, <2>2 DEF Replace, TypeOK
  <2> QED
    BY <1>6, <2>1, <2>3 DEF Replace, TypeOK, storeVars, historyVars
<1>7. ASSUME NEW r \in Reads, Begin(r) PROVE TypeOK'
  <2>1. pc' \in [Requests -> Labels]
    BY <1>0, <1>7, GotoType DEF Begin, TypeOK, Labels
  <2>2. ledger' \in [Procs -> Shares]
    BY <1>0, <1>7 DEF Begin, TypeOK, Shares
  <2> QED
    BY <1>7, <2>1, <2>2 DEF Begin, TypeOK, storeVars, historyVars
<1>8. ASSUME NEW r \in Reads, Fetch(r) PROVE TypeOK'
  <2>1. pc' \in [Requests -> Labels]
    BY <1>0, <1>8, GotoType DEF Fetch, TypeOK, Labels
  <2> QED
    BY <1>8, <2>1 DEF Fetch, TypeOK, storeVars, historyVars
<1>9. ASSUME NEW r \in Reads, Complete(r) PROVE TypeOK'
  <2>1. pc' \in [Requests -> Labels]
    BY <1>0, <1>9, GotoType DEF Complete, TypeOK, Labels
  <2>2. ledger' \in [Procs -> Shares]
    BY <1>0, <1>9 DEF Complete, TypeOK, Shares
  <2> QED
    BY <1>9, <2>1, <2>2 DEF Complete, TypeOK, storeVars, historyVars
<1>10. ASSUME NEW r \in Reads, Audit(r) PROVE TypeOK'
  <2>1. pc' \in [Requests -> Labels] /\ faults' \in Nat
    BY <1>0, <1>10, GotoType, FaultType DEF Audit, Fails, TypeOK, Labels
  <2>2. audits' \subseteq Reads
    BY <1>10 DEF Audit, TypeOK
  <2> QED
    BY <1>10, <2>1, <2>2 DEF Audit, TypeOK, historyVars
<1>11. ASSUME NEW r \in Reads, Count(r) PROVE TypeOK'
  <2>1. pc' \in [Requests -> Labels] /\ faults' \in Nat
    BY <1>0, <1>11, GotoType, FaultType DEF Count, Fails, TypeOK, Labels
  <2>2. delivered' \subseteq Reads /\ counter' \in Nat
    BY <1>11 DEF Count, TypeOK
  <2> QED
    BY <1>11, <2>1, <2>2 DEF Count, TypeOK
<1>12. ASSUME NEW v \in Revokes, RevokeRow(v) PROVE TypeOK'
  <2>1. pc' \in [Requests -> Labels] /\ faults' \in Nat
    BY <1>12, GotoType, FaultType DEF RevokeRow, Fails, TypeOK, Labels, Requests
  <2>2. row' \in {"absent", "open", "revoked"}
    BY <1>12 DEF RevokeRow, TypeOK
  <2> QED
    BY <1>12, <2>1, <2>2 DEF RevokeRow, TypeOK, historyVars
<1>13. ASSUME NEW v \in Revokes, RevokeLocal(v) PROVE TypeOK'
  <2>0. ProcOf[v] \in Procs
    BY DEF Requests
  <2>1. pc' \in [Requests -> Labels]
    BY <1>13, GotoType DEF RevokeLocal, TypeOK, Labels, Requests
  <2>2. Revoked(ledger[ProcOf[v]]) \in Shares
    BY <2>0, RevokedType DEF TypeOK
  <2>3. ledger' \in [Procs -> Shares]
    BY <1>13, <2>0, <2>2 DEF RevokeLocal, TypeOK
  <2>4. cut' \subseteq Reads
    BY <1>13, <2>0 DEF RevokeLocal, TypeOK, Shares
  <2> QED
    BY <1>13, <2>1, <2>3, <2>4 DEF RevokeLocal, TypeOK, storeVars
<1>14. ASSUME NEW p \in Procs, Restart(p) PROVE TypeOK'
  <2>1. pc' \in [Requests -> Labels] /\ faults' \in Nat
    BY <1>14, FaultType DEF Restart, TypeOK, Labels
  <2>2. ledger' \in [Procs -> Shares]
    BY <1>14, NoShareType DEF Restart, TypeOK
  <2> QED
    BY <1>14, <2>1, <2>2 DEF Restart, TypeOK, storeVars, historyVars
<1>15. CASE UNCHANGED vars
  BY <1>15 DEF TypeOK, vars, storeVars, historyVars
<1> QED
  BY <1>1, <1>2, <1>3, <1>4, <1>5, <1>6, <1>7, <1>8, <1>9, <1>10, <1>11, <1>12, <1>13,
     <1>14, <1>15 DEF Next, ReadStep

-----------------------------------------------------------------------------
(* Each part of the invariant, step by step *)

(* What the types say of the requests and of the ledgers. *)
LEMMA TypeFacts ==
    ASSUME TypeOK
    PROVE  /\ \A r \in Reads : r \in Requests /\ ProcOf[r] \in Procs
           /\ \A v \in Revokes : v \in Requests /\ v \notin Reads /\ ProcOf[v] \in Procs
           /\ \A p \in Procs : ledger[p].flight \subseteq Reads /\ ledger[p].reads \in Nat
  BY NSAssumption DEF TypeOK, Requests, Shares

(* A step changes the label of one request, and only a Begin adds to the
   reservations of a process. *)
Moves(r, l) == pc'[r] = l /\ \A q \in Requests \ {r} : pc'[q] = pc[q]

LEMMA GotoMoves ==
    ASSUME TypeOK, NEW r \in Requests, NEW l, Goto(r, l) PROVE Moves(r, l)
  BY DEF TypeOK, Goto, Moves

LEMMA FlightStep == Inv /\ [Next]_vars => FlightInv'
<1> SUFFICES ASSUME Inv, [Next]_vars PROVE FlightInv'
  OBVIOUS
<1> USE NSAssumption
<1>0. TypeOK /\ FlightInv /\ TypeOK'
  BY TypeStep DEF Inv
<1>a. /\ \A r \in Reads : r \in Requests /\ ProcOf[r] \in Procs
      /\ \A v \in Revokes : v \in Requests /\ v \notin Reads /\ ProcOf[v] \in Procs
      /\ \A p \in Procs : ledger[p].flight \subseteq Reads
  BY <1>0, TypeFacts
<1>b. ASSUME UNCHANGED delivered,
             NEW r \in Requests, NEW l, Goto(r, l),
             l \in {"fetch", "complete", "done"} \/ r \notin Reads
                 \/ pc[r] \notin {"fetch", "complete", "done"},
             \A p \in Procs : /\ ledger'[p].flight \subseteq ledger[p].flight
                              /\ ledger'[p].known = ledger[p].known \/ ledger'[p].known
      PROVE  FlightInv'
  <2>1. Moves(r, l)
    BY <1>0, <1>b, GotoMoves
  <2>2. ASSUME NEW p \in Procs PROVE IsFiniteSet(ledger'[p].flight)
    BY <1>0, <1>b, FS_Subset DEF FlightInv
  <2>3. ASSUME NEW p \in Procs PROVE ledger'[p].flight # {} => ledger'[p].known
    BY <1>0, <1>b DEF FlightInv
  <2>4. ASSUME NEW p \in Procs, NEW q \in ledger'[p].flight
        PROVE  ProcOf[q] = p /\ pc'[q] \in {"fetch", "complete", "done"} /\ q \notin delivered'
    BY <1>0, <1>a, <1>b, <2>1 DEF FlightInv, Moves
  <2> QED
    BY <2>2, <2>3, <2>4 DEF FlightInv
<1>c. ASSUME UNCHANGED <<ledger, pc, delivered>> PROVE FlightInv'
  BY <1>0, <1>c DEF FlightInv
<1>1. CASE Persist \/ Expire \/ UNCHANGED vars
  BY <1>1, <1>c DEF Persist, Expire, vars, historyVars
<1>2. CASE Insert
  <2>1. FreshShare.flight = {} /\ FreshShare.known
    BY DEF FreshShare, NoShare
  <2> QED
    BY <1>0, <1>2, <2>1, FS_EmptySet, ZenonT(60) DEF Insert, FlightInv, historyVars, TypeOK
<1>3. ASSUME NEW r \in Reads, LoadRow(r) PROVE FlightInv'
  BY <1>3, <1>a, <1>b DEF LoadRow, Fails
<1>4. ASSUME NEW r \in Reads, LoadCounter(r) PROVE FlightInv'
  BY <1>4, <1>a, <1>b DEF LoadCounter, Fails, historyVars
<1>5. ASSUME NEW r \in Reads, Replace(r) PROVE FlightInv'
  <2>1. \A p \in Procs : /\ ledger'[p].flight \subseteq ledger[p].flight
                         /\ ledger'[p].known = ledger[p].known \/ ledger'[p].known
    BY <1>0, <1>5, <1>a DEF Replace, Refreshed, TypeOK
  <2> QED
    BY <1>5, <1>a, <1>b, <2>1 DEF Replace, historyVars
<1>6. ASSUME NEW r \in Reads, Begin(r) PROVE FlightInv'
  <2>1. CASE ledger' = ledger /\ Goto(r, "done")
    BY <1>6, <1>a, <1>b, <2>1 DEF Begin, historyVars
  <2>2. CASE Authorized(r, ledger[ProcOf[r]]) /\ Goto(r, "fetch")
               /\ ledger' = [ledger EXCEPT ![ProcOf[r]].flight = @ \cup {r}]
    <3>1. Moves(r, "fetch")
      BY <1>0, <1>a, <2>2, GotoMoves
    <3>2. pc[r] = "begin" /\ delivered' = delivered
      BY <1>6 DEF Begin, historyVars
    <3>3. r \notin delivered
      BY <3>2 DEF Inv, CountInv
    <3>4. ASSUME NEW p \in Procs
          PROVE  /\ ledger'[p].known = ledger[p].known
                 /\ ledger'[p].flight = IF p = ProcOf[r] THEN ledger[p].flight \cup {r}
                                                         ELSE ledger[p].flight
      BY <1>0, <1>a, <2>2 DEF TypeOK, Shares
    <3>5. ASSUME NEW p \in Procs PROVE IsFiniteSet(ledger'[p].flight)
      <4>1. IsFiniteSet(ledger[p].flight)
        BY <1>0 DEF FlightInv
      <4>2. IsFiniteSet(ledger[p].flight \cup {r})
        BY <4>1, FS_AddElement
      <4>3. ledger'[p].flight = ledger[p].flight \/ ledger'[p].flight = ledger[p].flight \cup {r}
        BY <3>4
      <4> QED
        BY <4>1, <4>2, <4>3
    <3>6. ASSUME NEW p \in Procs PROVE ledger'[p].flight # {} => ledger'[p].known
      BY <1>0, <2>2, <3>4 DEF FlightInv, Authorized
    <3>7. ASSUME NEW p \in Procs, NEW q \in ledger'[p].flight
          PROVE  ProcOf[q] = p /\ pc'[q] \in {"fetch", "complete", "done"} /\ q \notin delivered'
      <4>1. CASE q = r
        <5>1. r \notin ledger[p].flight
          BY <1>0, <3>2 DEF FlightInv
        <5>2. p = ProcOf[r]
          BY <4>1, <5>1, <3>4, <3>7
        <5> QED
          BY <4>1, <5>2, <3>1, <3>2, <3>3 DEF Moves
      <4>2. CASE q # r
        <5>1. q \in ledger[p].flight
          BY <4>2, <3>4, <3>7, ZenonT(60)
        <5> QED
          BY <4>2, <5>1, <1>0, <1>a, <3>1, <3>2 DEF FlightInv, Moves
      <4> QED
        BY <4>1, <4>2
    <3> QED
      BY <3>5, <3>6, <3>7 DEF FlightInv
  <2> QED
    BY <1>6, <2>1, <2>2 DEF Begin
<1>7. ASSUME NEW r \in Reads, Fetch(r) PROVE FlightInv'
  BY <1>7, <1>a, <1>b DEF Fetch, historyVars
<1>8. ASSUME NEW r \in Reads, Complete(r) PROVE FlightInv'
  <2>1. \A p \in Procs : /\ ledger'[p].flight = IF p = ProcOf[r] THEN ledger[p].flight \ {r}
                                                                 ELSE ledger[p].flight
                         /\ ledger'[p].known = ledger[p].known
    BY <1>0, <1>8, <1>a DEF Complete, TypeOK, Shares
  <2>2. PICK l : Goto(r, l)
    BY <1>8 DEF Complete
  <2>3. Moves(r, l) /\ delivered' = delivered
    BY <1>0, <1>8, <1>a, <2>2, GotoMoves DEF Complete, historyVars
  <2>4. ASSUME NEW p \in Procs PROVE IsFiniteSet(ledger'[p].flight)
    BY <1>0, <2>1, FS_Subset DEF FlightInv
  <2>5. ASSUME NEW p \in Procs PROVE ledger'[p].flight # {} => ledger'[p].known
    BY <1>0, <2>1 DEF FlightInv
  <2>6. ASSUME NEW p \in Procs, NEW q \in ledger'[p].flight
        PROVE  ProcOf[q] = p /\ pc'[q] \in {"fetch", "complete", "done"} /\ q \notin delivered'
    <3>1. q \in ledger[p].flight /\ q # r
      <4>1. q \in ledger[p].flight /\ (p = ProcOf[r] => q # r)
        BY <2>1, <2>6
      <4>2. ProcOf[q] = p
        BY <1>0, <4>1 DEF FlightInv
      <4> QED
        BY <4>1, <4>2
    <3> QED
      BY <1>0, <1>a, <2>3, <3>1 DEF FlightInv, Moves
  <2> QED
    BY <2>4, <2>5, <2>6 DEF FlightInv
<1>9. ASSUME NEW r \in Reads, Audit(r) PROVE FlightInv'
  BY <1>9, <1>a, <1>b DEF Audit, Fails, historyVars
<1>10. ASSUME NEW r \in Reads, Count(r) PROVE FlightInv'
  <2>1. Moves(r, "done") /\ ledger' = ledger /\ pc[r] = "count" /\ delivered' \subseteq delivered \cup {r}
    BY <1>0, <1>10, <1>a, GotoMoves DEF Count, Fails
  <2>2. ASSUME NEW p \in Procs, NEW q \in ledger'[p].flight
        PROVE  ProcOf[q] = p /\ pc'[q] \in {"fetch", "complete", "done"} /\ q \notin delivered'
    BY <1>0, <1>a, <2>1 DEF FlightInv, Moves
  <2> QED
    BY <1>0, <2>1, <2>2 DEF FlightInv
<1>11. ASSUME NEW v \in Revokes, RevokeRow(v) PROVE FlightInv'
  BY <1>11, <1>a, <1>b DEF RevokeRow, Fails, historyVars
<1>12. ASSUME NEW v \in Revokes, RevokeLocal(v) PROVE FlightInv'
  <2>1. \A p \in Procs : /\ ledger'[p].flight \subseteq ledger[p].flight
                         /\ ledger'[p].known = ledger[p].known
    BY <1>0, <1>12, <1>a DEF RevokeLocal, Revoked, TypeOK, Shares
  <2> QED
    BY <1>12, <1>a, <1>b, <2>1 DEF RevokeLocal
<1>13. ASSUME NEW p \in Procs, Restart(p) PROVE FlightInv'
  <2>1. \A q \in Procs : ledger'[q] = IF q = p THEN NoShare ELSE ledger[q]
    BY <1>0, <1>13 DEF Restart, TypeOK
  <2>2. NoShare.flight = {}
    BY DEF NoShare
  <2>3. \A r \in Requests : pc'[r] = IF ProcOf[r] = p /\ pc[r] # "idle" THEN "done" ELSE pc[r]
    BY <1>13 DEF Restart
  <2>4. delivered' = delivered
    BY <1>13 DEF Restart, historyVars
  <2>5. ASSUME NEW q \in Procs PROVE IsFiniteSet(ledger'[q].flight) /\ (ledger'[q].flight # {} => ledger'[q].known)
    <3>1. CASE q = p
      BY <3>1, <2>1, <2>2, FS_EmptySet
    <3>2. CASE q # p
      BY <3>2, <1>0, <2>1 DEF FlightInv
    <3> QED
      BY <3>1, <3>2
  <2>6. ASSUME NEW q \in Procs, NEW r \in ledger'[q].flight
        PROVE  ProcOf[r] = q /\ pc'[r] \in {"fetch", "complete", "done"} /\ r \notin delivered'
    <3>1. q # p /\ r \in ledger[q].flight /\ r \in Requests
      BY <1>a, <2>1, <2>2, <2>6
    <3> QED
      BY <1>0, <3>1, <2>3, <2>4 DEF FlightInv
  <2> QED
    BY <2>5, <2>6 DEF FlightInv
<1> QED
  BY <1>1, <1>2, <1>3, <1>4, <1>5, <1>6, <1>7, <1>8, <1>9, <1>10, <1>11, <1>12, <1>13
     DEF Next, ReadStep

LEMMA CutStep == Inv /\ [Next]_vars => CutInv'
<1> SUFFICES ASSUME Inv, [Next]_vars PROVE CutInv'
  OBVIOUS
<1> USE NSAssumption
<1>0. TypeOK /\ FlightInv /\ CutInv /\ cut \subseteq Reads
  BY DEF Inv, TypeOK
<1>a. /\ \A r \in Reads : r \in Requests /\ ProcOf[r] \in Procs
      /\ \A v \in Revokes : v \in Requests /\ v \notin Reads /\ ProcOf[v] \in Procs
  BY <1>0, TypeFacts
<1>b. ASSUME UNCHANGED cut, NEW r \in Requests, NEW l, Goto(r, l),
             delivered' \subseteq delivered \/ (r \notin cut /\ delivered' \subseteq delivered \cup {r}),
             r \notin cut \/ l \in {"fetch", "complete", "done"},
             \A q \in cut : ledger'[ProcOf[q]].flight \subseteq ledger[ProcOf[q]].flight \cup ({r} \ cut)
      PROVE  CutInv'
  <2>1. Moves(r, l)
    BY <1>0, <1>b, GotoMoves
  <2>2. ASSUME NEW q \in cut
        PROVE  /\ pc'[q] \in {"fetch", "complete", "done"} /\ q \notin delivered'
               /\ q \notin ledger'[ProcOf[q]].flight
    BY <1>0, <1>a, <1>b, <2>1 DEF CutInv, Moves
  <2> QED
    BY <1>b, <2>2 DEF CutInv
<1>1. CASE Persist \/ Expire \/ UNCHANGED vars
  BY <1>0, <1>1 DEF Persist, Expire, vars, historyVars, CutInv
<1>2. CASE Insert
  <2>1. FreshShare.flight = {}
    BY DEF FreshShare, NoShare
  <2>2. \A p \in Procs : ledger'[p].flight \subseteq ledger[p].flight
    BY <1>0, <1>2, <2>1 DEF Insert, TypeOK
  <2> QED
    BY <1>0, <1>a, <1>2, <2>2 DEF Insert, CutInv, historyVars
<1>3. ASSUME NEW r \in Reads, LoadRow(r) PROVE CutInv'
  BY <1>3, <1>0, <1>a, <1>b DEF LoadRow, Fails, CutInv
<1>4. ASSUME NEW r \in Reads, LoadCounter(r) PROVE CutInv'
  BY <1>4, <1>0, <1>a, <1>b DEF LoadCounter, Fails, historyVars, CutInv
<1>5. ASSUME NEW r \in Reads, Replace(r) PROVE CutInv'
  <2>1. \A p \in Procs : ledger'[p].flight = ledger[p].flight
    BY <1>0, <1>5, <1>a DEF Replace, Refreshed, TypeOK
  <2> QED
    BY <1>5, <1>0, <1>a, <1>b, <2>1 DEF Replace, historyVars, CutInv
<1>6. ASSUME NEW r \in Reads, Begin(r) PROVE CutInv'
  <2>1. r \notin cut /\ UNCHANGED <<cut, delivered>>
    BY <1>0, <1>6 DEF Begin, CutInv, historyVars
  <2>2. \A p \in Procs : ledger'[p].flight \subseteq ledger[p].flight \cup {r}
    BY <1>0, <1>6, <1>a DEF Begin, TypeOK, Shares
  <2>3. PICK l : Goto(r, l)
    BY <1>6 DEF Begin
  <2> QED
    BY <1>0, <1>a, <1>b, <2>1, <2>2, <2>3
<1>7. ASSUME NEW r \in Reads, Fetch(r) PROVE CutInv'
  BY <1>7, <1>a, <1>b DEF Fetch, historyVars
<1>8. ASSUME NEW r \in Reads, Complete(r) PROVE CutInv'
  <2>1. \A p \in Procs : ledger'[p].flight \subseteq ledger[p].flight
    BY <1>0, <1>8, <1>a DEF Complete, TypeOK, Shares
  <2>2. UNCHANGED <<cut, delivered>>
    BY <1>8 DEF Complete, historyVars
  <2>3. CASE r \in cut
    <3>1. r \notin ledger[ProcOf[r]].flight
      BY <1>0, <2>3 DEF CutInv
    <3>2. Goto(r, "done")
      BY <1>8, <3>1 DEF Complete
    <3> QED
      BY <1>0, <1>a, <1>b, <2>1, <2>2, <3>2
  <2>4. CASE r \notin cut
    <3>1. PICK l : Goto(r, l)
      BY <1>8 DEF Complete
    <3> QED
      BY <1>0, <1>a, <1>b, <2>1, <2>2, <2>4, <3>1
  <2> QED
    BY <2>3, <2>4
<1>9. ASSUME NEW r \in Reads, Audit(r) PROVE CutInv'
  BY <1>9, <1>0, <1>a, <1>b DEF Audit, Fails, historyVars, CutInv
<1>10. ASSUME NEW r \in Reads, Count(r) PROVE CutInv'
  <2>1. r \notin cut /\ UNCHANGED <<cut, ledger>> /\ delivered' \subseteq delivered \cup {r} /\ Goto(r, "done")
    BY <1>0, <1>10 DEF Count, Fails, CutInv
  <2> QED
    BY <1>0, <1>a, <1>b, <2>1
<1>11. ASSUME NEW v \in Revokes, RevokeRow(v) PROVE CutInv'
  <2>1. v \notin cut /\ UNCHANGED <<cut, ledger, delivered>>
    BY <1>0, <1>a, <1>11 DEF RevokeRow, historyVars
  <2>2. PICK l : Goto(v, l)
    BY <1>11 DEF RevokeRow, Fails
  <2> QED
    BY <1>a, <1>b, <2>1, <2>2
<1>12. ASSUME NEW v \in Revokes, RevokeLocal(v) PROVE CutInv'
  <2> DEFINE p == ProcOf[v]
  <2>1. p \in Procs /\ v \in Requests /\ v \notin Reads
    BY <1>a
  <2>2. Moves(v, "done") /\ cut' = cut \cup ledger[p].flight /\ delivered' = delivered
    BY <1>0, <1>12, <2>1, GotoMoves DEF RevokeLocal
  <2>3. Revoked(ledger[p]).flight = {}
    BY <1>0, <2>1 DEF Revoked, FlightInv, TypeOK, Shares
  <2>4. \A q \in Procs : ledger'[q] = IF q = p THEN Revoked(ledger[p]) ELSE ledger[q]
    BY <1>0, <1>12, <2>1 DEF RevokeLocal, TypeOK
  <2>5. \A r \in ledger[p].flight : ProcOf[r] = p /\ r \in Reads /\ r \notin delivered
                                      /\ pc[r] \in {"fetch", "complete", "done"}
    BY <1>0, <2>1, TypeFacts DEF FlightInv
  <2>6. ASSUME NEW r \in cut'
        PROVE  /\ pc'[r] \in {"fetch", "complete", "done"} /\ r \notin delivered'
               /\ r \notin ledger'[ProcOf[r]].flight
    <3>1. r \in Reads /\ r # v /\ r \in Requests /\ ProcOf[r] \in Procs
      BY <1>0, <1>a, <2>1, <2>2, <2>5
    <3>2. pc[r] \in {"fetch", "complete", "done"} /\ r \notin delivered
      BY <1>0, <2>2, <2>5 DEF CutInv
    <3>3. CASE ProcOf[r] = p
      BY <3>1, <3>2, <3>3, <2>2, <2>3, <2>4 DEF Moves
    <3>4. CASE ProcOf[r] # p
      <4>1. r \in cut
        BY <3>4, <2>2, <2>5
      <4> QED
        BY <3>1, <3>2, <3>4, <4>1, <1>0, <2>2, <2>4 DEF Moves, CutInv
    <3> QED
      BY <3>3, <3>4
  <2> QED
    BY <2>6 DEF CutInv
<1>13. ASSUME NEW p \in Procs, Restart(p) PROVE CutInv'
  <2>1. \A q \in Procs : ledger'[q] = IF q = p THEN NoShare ELSE ledger[q]
    BY <1>0, <1>13 DEF Restart, TypeOK
  <2>2. NoShare.flight = {}
    BY DEF NoShare
  <2>3. \A r \in Requests : pc'[r] \in {"done", pc[r]}
    BY <1>13 DEF Restart
  <2>4. UNCHANGED <<cut, delivered>>
    BY <1>13 DEF Restart, historyVars
  <2>5. ASSUME NEW r \in cut
        PROVE  /\ pc'[r] \in {"fetch", "complete", "done"} /\ r \notin delivered
               /\ r \notin ledger'[ProcOf[r]].flight
    BY <1>0, <1>a, <2>1, <2>2, <2>3 DEF CutInv
  <2> QED
    BY <2>4, <2>5 DEF CutInv
<1> QED
  BY <1>1, <1>2, <1>3, <1>4, <1>5, <1>6, <1>7, <1>8, <1>9, <1>10, <1>11, <1>12, <1>13
     DEF Next, ReadStep

(* Nobody delivers but Count, and it counts first. *)
LEMMA CountStep == Inv /\ [Next]_vars => CountInv'
<1> SUFFICES ASSUME Inv, [Next]_vars PROVE CountInv'
  OBVIOUS
<1> USE NSAssumption
<1>0. TypeOK /\ CountInv /\ delivered \subseteq Reads /\ counter \in Nat
  BY DEF Inv, TypeOK
<1>a. /\ \A r \in Reads : r \in Requests
      /\ \A v \in Revokes : v \in Requests /\ v \notin Reads
  BY <1>0, TypeFacts
<1>b. ASSUME UNCHANGED <<delivered, counter>>, audits \subseteq audits',
             \A r \in Reads : \/ pc'[r] = pc[r]
                              \/ pc[r] # "done" /\ (pc'[r] = "count" => r \in audits')
                              \/ pc'[r] = "done"
      PROVE  CountInv'
  BY <1>0, <1>b DEF CountInv
<1>c. ASSUME NEW r \in Requests, NEW l, Goto(r, l), pc[r] # "done", l # "count", UNCHANGED <<delivered, counter, audits>>
      PROVE  CountInv'
  <2>1. Moves(r, l)
    BY <1>0, <1>c, GotoMoves
  <2>2. \A q \in Reads : pc'[q] = pc[q] \/ (pc[q] # "done" /\ pc'[q] # "count")
    BY <1>a, <1>c, <2>1 DEF Moves
  <2> QED
    BY <1>b, <1>c, <2>2
<1>1. CASE Persist \/ Insert \/ Expire \/ UNCHANGED vars
  BY <1>1, <1>b DEF Persist, Insert, Expire, vars, storeVars, historyVars
<1>2. ASSUME NEW r \in Reads, LoadRow(r) \/ LoadCounter(r) \/ Replace(r) \/ Begin(r) \/ Fetch(r)
      PROVE  CountInv'
  BY <1>2, <1>a, <1>c DEF LoadRow, LoadCounter, Replace, Begin, Fetch, Fails, storeVars, historyVars
<1>3. ASSUME NEW r \in Reads, Complete(r) PROVE CountInv'
  <2>1. Goto(r, "done") \/ Goto(r, "audit")
    BY <1>3 DEF Complete
  <2> QED
    BY <1>3, <1>a, <1>c, <2>1 DEF Complete, storeVars, historyVars
<1>4. ASSUME NEW r \in Reads, Audit(r) PROVE CountInv'
  <2>1. CASE Goto(r, "count") /\ audits' = audits \cup {r}
    <3>1. Moves(r, "count")
      BY <1>0, <1>a, <2>1, GotoMoves
    <3>2. \A q \in Reads : pc'[q] = pc[q] \/ (pc[q] # "done" /\ q \in audits')
      BY <1>4, <1>a, <2>1, <3>1 DEF Moves, Audit
    <3> QED
      BY <1>4, <1>b, <2>1, <3>2 DEF Audit, historyVars
  <2>2. CASE Goto(r, "done") /\ audits \subseteq audits'
    <3>1. Moves(r, "done")
      BY <1>0, <1>a, <2>2, GotoMoves
    <3>2. \A q \in Reads : pc'[q] = pc[q] \/ pc'[q] = "done"
      BY <1>a, <3>1 DEF Moves
    <3> QED
      BY <1>4, <1>b, <2>2, <3>2 DEF Audit, historyVars
  <2> QED
    BY <1>4, <2>1, <2>2 DEF Audit, Fails
<1>5. ASSUME NEW r \in Reads, Count(r) PROVE CountInv'
  <2>1. Moves(r, "done") /\ pc[r] = "count" /\ audits' = audits
    BY <1>0, <1>5, <1>a, GotoMoves DEF Count, Fails
  <2>2. r \in audits /\ r \notin delivered
    BY <1>0, <2>1 DEF CountInv
  <2>3. CASE delivered' = delivered /\ counter' \in {counter, counter + 1}
    BY <1>0, <1>a, <2>1, <2>3, FS_CardinalityType DEF CountInv, Moves
  <2>4. CASE delivered' = delivered \cup {r} /\ counter' = counter + 1
    <3>1. IsFiniteSet(delivered') /\ Cardinality(delivered') = Cardinality(delivered) + 1
      BY <1>0, <2>2, <2>4, FS_AddElement DEF CountInv
    <3>2. Cardinality(delivered) \in Nat /\ Cardinality(delivered) <= counter
      BY <1>0, FS_CardinalityType DEF CountInv
    <3>3. Cardinality(delivered') <= counter'
      BY <1>0, <2>4, <3>1, <3>2
    <3> QED
      BY <1>0, <1>a, <2>1, <2>2, <2>4, <3>1, <3>3 DEF CountInv, Moves
  <2> QED
    BY <1>5, <2>3, <2>4 DEF Count
<1>6. ASSUME NEW v \in Revokes, RevokeRow(v) PROVE CountInv'
  BY <1>6, <1>a, <1>c DEF RevokeRow, Fails, historyVars
<1>7. ASSUME NEW v \in Revokes, RevokeLocal(v) PROVE CountInv'
  BY <1>7, <1>a, <1>c DEF RevokeLocal, storeVars
<1>8. ASSUME NEW p \in Procs, Restart(p) PROVE CountInv'
  <2>1. \A r \in Requests : pc'[r] = pc[r] \/ pc'[r] = "done"
    BY <1>8 DEF Restart
  <2> QED
    BY <1>8, <1>a, <1>b, <2>1 DEF Restart, storeVars, historyVars
<1> QED
  BY <1>1, <1>2, <1>3, <1>4, <1>5, <1>6, <1>7, <1>8 DEF Next, ReadStep

LEMMA ReservationStep == Inv /\ [Next]_vars => ReservationKept'
<1> SUFFICES ASSUME Inv, [Next]_vars PROVE ReservationKept'
  OBVIOUS
<1> USE NSAssumption
<1>0. TypeOK /\ FlightInv /\ ReservationKept
  BY DEF Inv
<1>a. /\ \A r \in Reads : r \in Requests /\ ProcOf[r] \in Procs
      /\ \A v \in Revokes : v \in Requests /\ v \notin Reads /\ ProcOf[v] \in Procs
  BY <1>0, TypeFacts
<1>b. ASSUME cut \subseteq cut',
             \A r \in Reads : pc'[r] \in {"fetch", "complete"} =>
                /\ pc[r] \in {"fetch", "complete"}
                /\ ledger[ProcOf[r]].flight \subseteq ledger'[ProcOf[r]].flight \cup cut'
      PROVE  ReservationKept'
  BY <1>0, <1>b DEF ReservationKept
<1>c. ASSUME NEW r \in Requests, NEW l, Goto(r, l),
             r \notin Reads \/ l \notin {"fetch", "complete"} \/ pc[r] \in {"fetch", "complete"},
             cut \subseteq cut',
             \A p \in Procs : ledger[p].flight \subseteq ledger'[p].flight \cup cut'
      PROVE  ReservationKept'
  <2>1. Moves(r, l)
    BY <1>0, <1>c, GotoMoves
  <2>2. \A q \in Reads : pc'[q] \in {"fetch", "complete"} => pc[q] \in {"fetch", "complete"}
    BY <1>a, <1>c, <2>1 DEF Moves
  <2> QED
    BY <1>a, <1>b, <1>c, <2>2
<1>1. CASE Persist \/ Expire \/ UNCHANGED vars
  BY <1>1, <1>b DEF Persist, Expire, vars, historyVars
<1>2. CASE Insert
  <2>1. \A r \in Reads : pc'[r] = "idle"
    BY <1>2, <1>a DEF Insert, Inv, CreateInv
  <2> QED
    BY <2>1 DEF ReservationKept
<1>3. ASSUME NEW r \in Reads, LoadRow(r) PROVE ReservationKept'
  BY <1>3, <1>a, <1>c DEF LoadRow, Fails
<1>4. ASSUME NEW r \in Reads, LoadCounter(r) PROVE ReservationKept'
  BY <1>4, <1>a, <1>c DEF LoadCounter, Fails, historyVars
<1>5. ASSUME NEW r \in Reads, Replace(r) PROVE ReservationKept'
  <2>1. \A p \in Procs : ledger'[p].flight = ledger[p].flight
    BY <1>0, <1>5, <1>a DEF Replace, Refreshed, TypeOK
  <2> QED
    BY <1>5, <1>a, <1>c, <2>1 DEF Replace, historyVars
<1>6. ASSUME NEW r \in Reads, Begin(r) PROVE ReservationKept'
  <2>1. CASE ledger' = ledger /\ Goto(r, "done")
    BY <1>6, <1>a, <1>c, <2>1 DEF Begin, historyVars
  <2>2. CASE Goto(r, "fetch") /\ ledger' = [ledger EXCEPT ![ProcOf[r]].flight = @ \cup {r}]
    <3>1. Moves(r, "fetch") /\ cut' = cut
      BY <1>0, <1>a, <1>6, <2>2, GotoMoves DEF Begin, historyVars
    <3>2. \A p \in Procs : ledger[p].flight \subseteq ledger'[p].flight
      BY <1>0, <1>a, <2>2 DEF TypeOK, Shares
    <3>3. r \in ledger'[ProcOf[r]].flight
      BY <1>0, <1>a, <2>2 DEF TypeOK, Shares
    <3> QED
      BY <1>0, <1>a, <3>1, <3>2, <3>3 DEF ReservationKept, Moves
  <2> QED
    BY <1>6, <2>1, <2>2 DEF Begin
<1>7. ASSUME NEW r \in Reads, Fetch(r) PROVE ReservationKept'
  BY <1>7, <1>a, <1>c DEF Fetch, historyVars
<1>8. ASSUME NEW r \in Reads, Complete(r) PROVE ReservationKept'
  <2>1. PICK l \in {"done", "audit"} : Goto(r, l)
    BY <1>8 DEF Complete
  <2>2. Moves(r, l) /\ cut' = cut
    BY <1>0, <1>a, <1>8, <2>1, GotoMoves DEF Complete, historyVars
  <2>3. \A p \in Procs : ledger[p].flight \ {r} \subseteq ledger'[p].flight
    BY <1>0, <1>8, <1>a DEF Complete, TypeOK, Shares
  <2> QED
    BY <1>0, <1>a, <2>1, <2>2, <2>3 DEF ReservationKept, Moves
<1>9. ASSUME NEW r \in Reads, Audit(r) PROVE ReservationKept'
  BY <1>9, <1>a, <1>c DEF Audit, Fails, historyVars
<1>10. ASSUME NEW r \in Reads, Count(r) PROVE ReservationKept'
  BY <1>10, <1>a, <1>c DEF Count, Fails
<1>11. ASSUME NEW v \in Revokes, RevokeRow(v) PROVE ReservationKept'
  BY <1>11, <1>a, <1>c DEF RevokeRow, Fails, historyVars
<1>12. ASSUME NEW v \in Revokes, RevokeLocal(v) PROVE ReservationKept'
  <2>1. \A p \in Procs : ledger[p].flight \subseteq ledger'[p].flight \cup cut'
    BY <1>0, <1>12, <1>a DEF RevokeLocal, TypeOK
  <2> QED
    BY <1>12, <1>a, <1>c, <2>1 DEF RevokeLocal
<1>13. ASSUME NEW p \in Procs, Restart(p) PROVE ReservationKept'
  <2>1. \A q \in Procs \ {p} : ledger'[q] = ledger[q]
    BY <1>0, <1>13 DEF Restart, TypeOK
  <2>2. \A r \in Requests : pc'[r] = IF ProcOf[r] = p /\ pc[r] # "idle" THEN "done" ELSE pc[r]
    BY <1>13 DEF Restart
  <2>3. cut' = cut
    BY <1>13 DEF Restart, historyVars
  <2> QED
    BY <1>a, <1>b, <2>1, <2>2, <2>3
<1> QED
  BY <1>1, <1>2, <1>3, <1>4, <1>5, <1>6, <1>7, <1>8, <1>9, <1>10, <1>11, <1>12, <1>13
     DEF Next, ReadStep

LEMMA CreateStep == Inv /\ [Next]_vars => CreateInv'
<1> SUFFICES ASSUME Inv, [Next]_vars PROVE CreateInv'
  OBVIOUS
<1>0. TypeOK /\ CreateInv
  BY DEF Inv
<1>a. \A r \in Reads : r \in Requests
  BY DEF Requests
<1>1. CASE create = "shared"
  <2>1. create' = "shared"
    BY <1>1 DEF Next, ReadStep, vars, Persist, Insert, Expire, LoadRow, LoadCounter, Replace,
                Begin, Fetch, Complete, Audit, Count, RevokeRow, RevokeLocal, Restart
  <2> QED
    BY <2>1 DEF CreateInv
<1>2. CASE create # "shared"
  <2>1. \A r \in Requests : pc[r] = "idle"
    BY <1>0, <1>2 DEF CreateInv
  <2>2. ~ \E r \in Reads : ReadStep(r)
    BY <1>2, <1>a, <2>1 DEF ReadStep, LoadRow, LoadCounter, Replace,
                Begin, Fetch, Complete, Audit, Count
  <2>3. ~ \E v \in Revokes : RevokeRow(v) \/ RevokeLocal(v)
    BY <1>2, <2>1 DEF Requests, RevokeRow, RevokeLocal
  <2>4. \A r \in Requests : pc'[r] = "idle"
    BY <2>1, <2>2, <2>3 DEF Next, vars, Persist, Insert, Expire, Restart
  <2> QED
    BY <2>4 DEF CreateInv
<1> QED
  BY <1>1, <1>2

(* A process that grants a read has not seen the end of the share. *)
LEMMA SpentRefuses ==
    ASSUME NEW r, NEW l \in Shares, IsFiniteSet(l.flight), Authorized(r, l)
    PROVE  ~Spent(l)
<1>1. Cardinality(l.flight) \in Nat
  BY FS_CardinalityType
<1>2. l.reads \in Nat /\ Limit \in Nat
  BY NSAssumption DEF Shares
<1>3. ~l.revoked /\ l.reads + Cardinality(l.flight) < Limit
  BY DEF Authorized
<1>4. l.reads < Limit
  BY <1>1, <1>2, <1>3
<1> QED
  BY <1>2, <1>3, <1>4 DEF Spent

LEMMA FenceStep == Inv /\ [Next]_vars => FenceInv'
<1> SUFFICES ASSUME Inv, [Next]_vars PROVE FenceInv'
  OBVIOUS
<1> USE NSAssumption
<1>0. TypeOK /\ FlightInv /\ FenceInv /\ TypeOK' /\ fenced \subseteq Reads
  BY TypeStep DEF Inv, TypeOK
<1>a. /\ \A r \in Reads : r \in Requests /\ ProcOf[r] \in Procs
      /\ \A v \in Revokes : v \in Requests /\ v \notin Reads /\ ProcOf[v] \in Procs
  BY <1>0, TypeFacts
<1>b. counter \in Nat /\ counter' \in Nat /\ Limit \in Nat
  BY <1>0 DEF TypeOK
(* A step that keeps the snapshots, after which the ledgers know no less, and
   that moves no read to where the fence does not let it. *)
<1>c. ASSUME fenced' = fenced, create' = create, snap' = snap,
             row' = row \/ row' = "revoked", counter' >= counter,
             \A r \in fenced : r \notin delivered',
             \A q \in Reads : pc'[q] = pc[q] \/ pc'[q] \notin {"loadCounter", "replace"},
             \A r \in fenced : pc'[r] \in {"loadCounter", "replace", "begin", "done"},
             \A r \in fenced : pc'[r] = "begin" => Spent(ledger'[ProcOf[r]])
      PROVE  FenceInv'
  <2> SUFFICES ASSUME NEW r \in fenced
               PROVE  /\ create = "shared"
                      /\ row' = "revoked" \/ counter' >= Limit
                      /\ \A q \in Reads : ProcOf[q] = ProcOf[r] =>
                           /\ pc'[q] = "loadCounter" => snap[q].revoked \/ counter' >= Limit
                           /\ pc'[q] = "replace" => Spent(snap[q])
    BY <1>c DEF FenceInv, Spent
  <2>1. create = "shared" /\ (row' = "revoked" \/ counter' >= Limit)
    BY <1>0, <1>b, <1>c DEF FenceInv
  <2>2. ASSUME NEW q \in Reads, ProcOf[q] = ProcOf[r]
        PROVE  /\ pc'[q] = "loadCounter" => snap[q].revoked \/ counter' >= Limit
               /\ pc'[q] = "replace" => Spent(snap[q])
    <3>1. /\ pc[q] = "loadCounter" => snap[q].revoked \/ counter >= Limit
          /\ pc[q] = "replace" => Spent(snap[q])
      BY <1>0, <2>2 DEF FenceInv
    <3>2. counter >= Limit => counter' >= Limit
      BY <1>b, <1>c
    <3>3. pc'[q] = pc[q] \/ pc'[q] \notin {"loadCounter", "replace"}
      BY <1>c
    <3> QED
      BY <3>1, <3>2, <3>3
  <2> QED
    BY <2>1, <2>2
<1>d. ASSUME fenced' = fenced, create' = create, snap' = snap,
             row' = row \/ row' = "revoked", counter' >= counter, delivered' = delivered,
             NEW q \in Requests, NEW l, Goto(q, l),
             q \notin Reads \/ l \notin {"loadCounter", "replace", "begin"},
             q \in fenced => l = "done",
             \A p \in Procs : Spent(ledger[p]) => Spent(ledger'[p])
      PROVE  FenceInv'
  <2>1. Moves(q, l)
    BY <1>0, <1>d, GotoMoves
  <2>2. \A r \in Reads : pc'[r] = pc[r] \/ pc'[r] \notin {"loadCounter", "replace"}
    BY <1>a, <1>d, <2>1 DEF Moves
  <2>3. ASSUME NEW r \in fenced
        PROVE  /\ r \notin delivered'
               /\ pc'[r] \in {"loadCounter", "replace", "begin", "done"}
               /\ pc'[r] = "begin" => Spent(ledger'[ProcOf[r]])
    BY <1>0, <1>a, <1>d, <2>1 DEF Moves, FenceInv
  <2> HIDE DEF Spent
  <2> QED
    BY <1>c, <1>d, <2>2, <2>3
<1>1. CASE Persist \/ Insert
  <2>1. create # "shared" /\ fenced' = fenced
    BY <1>1 DEF Persist, Insert, historyVars
  <2> QED
    BY <1>0, <2>1 DEF FenceInv
<1>2. CASE Expire \/ UNCHANGED vars
  <2>1. UNCHANGED <<fenced, create, row, counter, pc, ledger, delivered, snap>>
    BY <1>2 DEF Expire, vars, storeVars, historyVars
  <2> QED
    BY <1>0, <2>1 DEF FenceInv, Spent
<1>3. ASSUME NEW q \in Reads, LoadRow(q) PROVE FenceInv'
  <2>1. PICK l \in {"loadCounter", "done"} : Goto(q, l)
    BY <1>3 DEF LoadRow, Fails
  <2>2. Moves(q, l) /\ UNCHANGED <<row, counter, ledger, create, delivered>>
    BY <1>0, <1>a, <1>3, <2>1, GotoMoves DEF LoadRow, storeVars
  <2>3. pc[q] = "idle" /\ create = "shared"
    BY <1>3 DEF LoadRow
  <2>4. \A r \in Reads \ {q} : snap'[r] = snap[r]
    BY <1>0, <1>3 DEF LoadRow, TypeOK
  <2>5. l = "loadCounter" => snap'[q].revoked = (row = "revoked")
    <3>1. ASSUME l = "loadCounter" PROVE snap' = [snap EXCEPT ![q].revoked = (row = "revoked")]
      <4>1. pc'[q] # "done"
        BY <2>2, <3>1 DEF Moves
      <4> QED
        BY <1>0, <1>a, <1>3, <4>1 DEF LoadRow, Fails, Goto, TypeOK
    <3> QED
      BY <1>0, <3>1 DEF TypeOK, Snapshots
  <2>6. q \notin delivered
    BY <2>3 DEF Inv, CountInv
  <2>7. ASSUME NEW r \in fenced' PROVE row = "revoked" \/ counter >= Limit
    BY <1>0, <1>3, <2>7 DEF LoadRow, Over, FenceInv
  <2>8. ASSUME NEW r \in fenced'
        PROVE  /\ pc'[r] \in {"loadCounter", "replace", "begin", "done"}
               /\ pc'[r] = "begin" => Spent(ledger[ProcOf[r]])
               /\ r \notin delivered
    <3>1. CASE r = q
      BY <3>1, <2>2, <2>1, <2>6 DEF Moves
    <3>2. CASE r # q
      <4>1. r \in fenced /\ r \in Requests
        BY <1>0, <1>a, <1>3, <2>8, <3>2 DEF LoadRow
      <4> QED
        BY <1>0, <2>2, <3>2, <4>1 DEF FenceInv, Moves
    <3> QED
      BY <3>1, <3>2
  <2>9. ASSUME NEW r \in fenced', NEW s \in Reads, ProcOf[s] = ProcOf[r]
        PROVE  /\ pc'[s] = "loadCounter" => snap'[s].revoked \/ counter >= Limit
               /\ pc'[s] = "replace" => Spent(snap'[s])
    <3>1. CASE s = q
      <4>1. pc'[s] = l /\ l # "replace"
        BY <3>1, <2>1, <2>2 DEF Moves
      <4>2. l = "loadCounter" => snap'[s].revoked = (row = "revoked")
        BY <2>5, <3>1
      <4> QED
        BY <2>7, <4>1, <4>2
    <3>2. CASE s # q
      <4>1. pc'[s] = pc[s] /\ snap'[s] = snap[s]
        BY <1>a, <3>2, <2>2, <2>4 DEF Moves
      <4>2. CASE r \in fenced
        BY <1>0, <2>9, <4>1, <4>2 DEF FenceInv
      <4>3. CASE r \notin fenced
        <5>1. r = q /\ Over(ProcOf[q])
          BY <1>3, <2>9, <4>3 DEF LoadRow
        <5>2. pc[s] \notin {"loadCounter", "replace"}
          BY <2>9, <5>1 DEF Over, HoldsSnapshot
        <5> QED
          BY <4>1, <5>2
      <4> QED
        BY <4>2, <4>3
    <3> QED
      BY <3>1, <3>2
  <2> QED
    BY <2>2, <2>3, <2>7, <2>8, <2>9 DEF FenceInv, Spent
<1>4. ASSUME NEW q \in Reads, LoadCounter(q) PROVE FenceInv'
  <2>1. PICK l \in {"replace", "done"} : Goto(q, l)
    BY <1>4 DEF LoadCounter, Fails
  <2>2. Moves(q, l) /\ UNCHANGED <<row, counter, ledger, create, delivered, fenced>>
    BY <1>0, <1>a, <1>4, <2>1, GotoMoves DEF LoadCounter, storeVars, historyVars
  <2>3. pc[q] = "loadCounter"
    BY <1>4 DEF LoadCounter
  <2>4. \A r \in Reads \ {q} : snap'[r] = snap[r]
    BY <1>0, <1>4 DEF LoadCounter, TypeOK
  <2>5. l = "replace" => snap'[q].reads = counter /\ snap'[q].revoked = snap[q].revoked
    <3>1. ASSUME l = "replace" PROVE snap' = [snap EXCEPT ![q].reads = counter]
      <4>1. pc'[q] # "done"
        BY <2>2, <3>1 DEF Moves
      <4> QED
        BY <1>0, <1>a, <1>4, <4>1 DEF LoadCounter, Fails, Goto, TypeOK
    <3> QED
      BY <1>0, <3>1 DEF TypeOK, Snapshots
  <2>6. ASSUME NEW r \in fenced
        PROVE  /\ create = "shared" /\ (row = "revoked" \/ counter >= Limit)
               /\ pc'[r] \in {"loadCounter", "replace", "begin", "done"}
               /\ pc'[r] = "begin" => Spent(ledger[ProcOf[r]])
               /\ r \notin delivered
    BY <1>0, <1>a, <2>1, <2>2 DEF FenceInv, Moves
  <2>7. ASSUME NEW r \in fenced, NEW s \in Reads, ProcOf[s] = ProcOf[r]
        PROVE  /\ pc'[s] = "loadCounter" => snap'[s].revoked \/ counter >= Limit
               /\ pc'[s] = "replace" => Spent(snap'[s])
    <3>1. CASE s = q
      <4>1. pc'[s] = l /\ l # "loadCounter"
        BY <3>1, <2>1, <2>2 DEF Moves
      <4>2. snap[q].revoked \/ counter >= Limit
        BY <1>0, <2>3, <2>7, <3>1 DEF FenceInv
      <4> QED
        BY <2>5, <3>1, <4>1, <4>2 DEF Spent
    <3>2. CASE s # q
      <4>1. pc'[s] = pc[s] /\ snap'[s] = snap[s]
        BY <1>a, <3>2, <2>2, <2>4 DEF Moves
      <4> QED
        BY <1>0, <2>7, <4>1 DEF FenceInv
    <3> QED
      BY <3>1, <3>2
  <2> QED
    BY <2>2, <2>6, <2>7 DEF FenceInv, Spent
<1>5. ASSUME NEW q \in Reads, Replace(q) PROVE FenceInv'
  <2>1. Moves(q, "begin")
    BY <1>0, <1>a, <1>5, GotoMoves DEF Replace
  <2>2. UNCHANGED <<row, counter, create, snap, delivered, fenced>> /\ pc[q] = "replace"
    BY <1>5 DEF Replace, storeVars, historyVars
  <2>3. \A p \in Procs : ledger'[p] = IF p = ProcOf[q] THEN Refreshed(ledger[p], snap[q]) ELSE ledger[p]
    BY <1>0, <1>5 DEF Replace, TypeOK
  <2>4. ASSUME NEW r \in fenced, pc'[r] = "begin" PROVE Spent(ledger'[ProcOf[r]])
    <3>1. CASE ProcOf[r] = ProcOf[q]
      <4>1. Spent(snap[q])
        BY <1>0, <2>2, <3>1 DEF FenceInv
      <4>2. ledger'[ProcOf[r]] = Refreshed(ledger[ProcOf[r]], snap[q])
        BY <1>0, <1>a, <2>3, <3>1
      <4> QED
        BY <4>1, <4>2 DEF Spent, Refreshed
    <3>2. CASE ProcOf[r] # ProcOf[q]
      <4>1. ledger'[ProcOf[r]] = ledger[ProcOf[r]]
        BY <1>0, <1>a, <2>3, <3>2
      <4>2. pc[r] = "begin"
        BY <1>0, <1>a, <2>1, <2>4, <3>2 DEF Moves
      <4>3. Spent(ledger[ProcOf[r]])
        BY <1>0, <4>2 DEF FenceInv
      <4> QED
        BY <4>1, <4>3 DEF Spent
    <3> QED
      BY <3>1, <3>2
  <2>5. \A r \in fenced : r \notin delivered' /\ pc'[r] \in {"loadCounter", "replace", "begin", "done"}
    BY <1>0, <1>a, <2>1, <2>2 DEF FenceInv, Moves
  <2>6. \A r \in Reads : pc'[r] = pc[r] \/ pc'[r] \notin {"loadCounter", "replace"}
    BY <1>a, <2>1 DEF Moves
  <2> QED
    BY <1>b, <1>c, <2>2, <2>4, <2>5, <2>6
<1>6. ASSUME NEW q \in Reads, Begin(q) PROVE FenceInv'
  <2>1. PICK l \in {"fetch", "done"} : Goto(q, l)
    BY <1>6 DEF Begin
  <2>2. UNCHANGED <<row, counter, create, snap, delivered, fenced>> /\ pc[q] = "begin"
    BY <1>6 DEF Begin, storeVars, historyVars
  <2>3. \A p \in Procs : ledger'[p].revoked = ledger[p].revoked /\ ledger'[p].reads = ledger[p].reads
    BY <1>0, <1>6 DEF Begin, TypeOK, Shares
  <2>4. \A p \in Procs : Spent(ledger[p]) => Spent(ledger'[p])
    BY <2>3 DEF Spent
  <2>5. ASSUME q \in fenced PROVE l = "done"
    <3>1. Spent(ledger[ProcOf[q]])
      BY <1>0, <2>2, <2>5 DEF FenceInv
    <3>2. ~Authorized(q, ledger[ProcOf[q]])
      <4>1. ledger[ProcOf[q]] \in Shares /\ IsFiniteSet(ledger[ProcOf[q]].flight)
        BY <1>0, <1>a DEF TypeOK, FlightInv
      <4> HIDE DEF Spent
      <4> QED
        BY <3>1, <4>1, SpentRefuses
    <3>3. Goto(q, "done")
      BY <1>6, <3>2 DEF Begin
    <3> QED
      BY <1>0, <1>a, <2>1, <3>3 DEF Goto, TypeOK
  <2> QED
    BY <1>a, <1>b, <1>d, <2>1, <2>2, <2>4, <2>5
<1>7. ASSUME NEW q \in Reads, Fetch(q) PROVE FenceInv'
  <2>1. PICK l \in {"complete", "done"} : Goto(q, l)
    BY <1>7 DEF Fetch
  <2>2. UNCHANGED <<row, counter, create, snap, delivered, fenced, ledger>> /\ pc[q] = "fetch"
    BY <1>7 DEF Fetch, storeVars, historyVars
  <2>3. q \notin fenced
    BY <1>0, <2>2 DEF FenceInv
  <2> QED
    BY <1>a, <1>b, <1>d, <2>1, <2>2, <2>3
<1>8. ASSUME NEW q \in Reads, Complete(q) PROVE FenceInv'
  <2>1. PICK l \in {"audit", "done"} : Goto(q, l)
    BY <1>8 DEF Complete
  <2>2. UNCHANGED <<row, counter, create, snap, delivered, fenced>> /\ pc[q] = "complete"
    BY <1>8 DEF Complete, storeVars, historyVars
  <2>3. q \notin fenced
    BY <1>0, <2>2 DEF FenceInv
  <2>4. ASSUME NEW p \in Procs
        PROVE  ledger'[p].revoked = ledger[p].revoked /\ ledger'[p].reads >= ledger[p].reads
    <3>1. ledger[p] \in Shares
      BY <1>0 DEF TypeOK
    <3>2. ledger'[p].revoked = ledger[p].revoked
            /\ (ledger'[p].reads = ledger[p].reads \/ ledger'[p].reads = ledger[p].reads + 1)
      BY <1>0, <1>8, <3>1 DEF Complete, TypeOK, Shares
    <3> QED
      BY <3>1, <3>2 DEF Shares
  <2>5. \A p \in Procs : ledger[p].reads \in Nat /\ ledger'[p].reads \in Nat
    BY <1>0 DEF TypeOK, Shares
  <2>6. \A p \in Procs : Spent(ledger[p]) => Spent(ledger'[p])
    BY <1>b, <2>4, <2>5 DEF Spent
  <2> QED
    BY <1>a, <1>b, <1>d, <2>1, <2>2, <2>3, <2>6
<1>9. ASSUME NEW q \in Reads, Audit(q) PROVE FenceInv'
  <2>1. PICK l \in {"count", "done"} : Goto(q, l)
    BY <1>9 DEF Audit, Fails
  <2>2. UNCHANGED <<row, counter, create, snap, delivered, fenced, ledger>> /\ pc[q] = "audit"
    BY <1>9 DEF Audit, historyVars
  <2>3. q \notin fenced
    BY <1>0, <2>2 DEF FenceInv
  <2> QED
    BY <1>a, <1>b, <1>d, <2>1, <2>2, <2>3
<1>10. ASSUME NEW q \in Reads, Count(q) PROVE FenceInv'
  <2>1. Moves(q, "done")
    BY <1>0, <1>a, <1>10, GotoMoves DEF Count, Fails
  <2>2. UNCHANGED <<row, create, snap, fenced, ledger>> /\ pc[q] = "count"
    BY <1>10 DEF Count
  <2>3. q \notin fenced
    BY <1>0, <2>2 DEF FenceInv
  <2>4. counter' >= counter
    BY <1>b, <1>10 DEF Count
  <2>5. delivered' \subseteq delivered \cup {q}
    BY <1>10 DEF Count
  <2>6. ASSUME NEW r \in fenced
        PROVE  /\ r \notin delivered'
               /\ pc'[r] \in {"loadCounter", "replace", "begin", "done"}
               /\ pc'[r] = "begin" => Spent(ledger'[ProcOf[r]])
    BY <1>0, <1>a, <2>1, <2>2, <2>3, <2>5 DEF Moves, FenceInv
  <2>7. \A r \in Reads : pc'[r] = pc[r] \/ pc'[r] \notin {"loadCounter", "replace"}
    BY <1>a, <2>1 DEF Moves
  <2> QED
    BY <1>c, <2>2, <2>4, <2>6, <2>7
<1>11. ASSUME NEW v \in Revokes, RevokeRow(v) PROVE FenceInv'
  <2>1. PICK l : Goto(v, l)
    BY <1>11 DEF RevokeRow, Fails
  <2>2. UNCHANGED <<counter, create, snap, delivered, fenced, ledger>> /\ (row' = row \/ row' = "revoked")
    BY <1>11 DEF RevokeRow, historyVars
  <2> QED
    BY <1>0, <1>a, <1>b, <1>d, <2>1, <2>2
<1>12. ASSUME NEW v \in Revokes, RevokeLocal(v) PROVE FenceInv'
  <2>1. Goto(v, "done") /\ UNCHANGED <<row, counter, create, snap, delivered, fenced>>
    BY <1>12 DEF RevokeLocal, storeVars
  <2>2. \A p \in Procs : ledger'[p] = ledger[p] \/ ledger'[p].revoked
    BY <1>0, <1>12 DEF RevokeLocal, Revoked, TypeOK, Shares
  <2>3. \A p \in Procs : Spent(ledger[p]) => Spent(ledger'[p])
    BY <2>2 DEF Spent
  <2> QED
    BY <1>a, <1>b, <1>d, <2>1, <2>3
<1>13. ASSUME NEW p \in Procs, Restart(p) PROVE FenceInv'
  <2>1. \A q \in Procs \ {p} : ledger'[q] = ledger[q]
    BY <1>0, <1>13 DEF Restart, TypeOK
  <2>2. \A r \in Requests : pc'[r] = IF ProcOf[r] = p /\ pc[r] # "idle" THEN "done" ELSE pc[r]
    BY <1>13 DEF Restart
  <2>3. UNCHANGED <<row, counter, snap, delivered, fenced>>
    BY <1>13 DEF Restart, historyVars, storeVars
  <2>4. CASE create = "shared"
    <3>1. create' = create
      BY <1>13, <2>4 DEF Restart
    <3>2. ASSUME NEW r \in fenced
          PROVE  /\ r \notin delivered'
                 /\ pc'[r] \in {"loadCounter", "replace", "begin", "done"}
                 /\ pc'[r] = "begin" => Spent(ledger'[ProcOf[r]])
      <4>1. CASE ProcOf[r] = p
        <5>1. pc'[r] = "done"
          BY <1>0, <1>a, <2>2, <4>1 DEF FenceInv
        <5> QED
          BY <1>0, <2>3, <5>1 DEF FenceInv
      <4>2. CASE ProcOf[r] # p
        <5>1. pc'[r] = pc[r] /\ ledger'[ProcOf[r]] = ledger[ProcOf[r]]
          BY <1>0, <1>a, <2>1, <2>2, <4>2
        <5>2. pc[r] = "begin" => Spent(ledger[ProcOf[r]])
          BY <1>0 DEF FenceInv
        <5> QED
          BY <1>0, <2>3, <5>1, <5>2 DEF FenceInv, Spent
      <4> QED
        BY <4>1, <4>2
    <3>3. \A q \in Reads : pc'[q] = pc[q] \/ pc'[q] \notin {"loadCounter", "replace"}
      BY <1>a, <2>2
    <3> QED
      BY <1>b, <1>c, <2>3, <3>1, <3>2, <3>3
  <2>5. CASE create # "shared"
    BY <1>0, <2>3, <2>5 DEF FenceInv
  <2> QED
    BY <2>4, <2>5
<1> QED
  BY <1>1, <1>2, <1>3, <1>4, <1>5, <1>6, <1>7, <1>8, <1>9, <1>10, <1>11, <1>12, <1>13
     DEF Next, ReadStep

-----------------------------------------------------------------------------
LEMMA InitInv == Init => Inv
<1> SUFFICES ASSUME Init PROVE Inv
  OBVIOUS
<1> USE NSAssumption
<1>1. TypeOK
  BY NoShareType DEF Init, TypeOK, Labels, Snapshots
<1>2. FlightInv
  <2>1. \A p \in Procs : ledger[p].flight = {}
    BY DEF Init, NoShare
  <2> QED
    BY <2>1, FS_EmptySet DEF FlightInv
<1>3. CountInv
  <2>1. \A r \in Reads : pc[r] = "idle"
    BY DEF Init, Requests
  <2> QED
    BY <2>1, FS_EmptySet DEF Init, CountInv
<1>4. CutInv /\ FenceInv /\ CreateInv
  BY DEF Init, CutInv, FenceInv, CreateInv
<1>5. ReservationKept
  BY DEF Init, ReservationKept, Requests
<1> QED
  BY <1>1, <1>2, <1>3, <1>4, <1>5 DEF Inv

(* Every step of the handlers, of the clock and of a restart keeps what the
   ledgers, the row, the counter and the requests say of one another. *)
THEOREM Invariance == Spec => []Inv
<1>1. Inv /\ [Next]_vars => Inv'
  BY TypeStep, FlightStep, CutStep, CountStep, CreateStep, FenceStep, ReservationStep DEF Inv
<1> QED
  BY InitInv, <1>1, PTL DEF Spec

(* The row, the counter, the ledgers and the requests keep their types. *)
THEOREM TypeCorrect == Spec => []TypeOK
<1>1. Inv => TypeOK
  BY DEF Inv
<1> QED
  BY Invariance, <1>1, PTL

(* note_share_read returns the content only after the audit row and the counter
   were written, so the store knows of every read that was delivered. *)
THEOREM DeliveredIsCounted == Spec => []DeliveredCounted
<1>1. Inv => DeliveredCounted
  BY DEF Inv, CountInv, DeliveredCounted
<1> QED
  BY Invariance, <1>1, PTL

(* A read that comes after the revocation, or after the last allowed read, gets
   nothing, when no request of its process holds a snapshot from before; the
   requests that come after it do not matter. *)
THEOREM EndStays == Spec => []EndIsFinal
<1>1. Inv => EndIsFinal
  BY DEF Inv, FenceInv, EndIsFinal
<1> QED
  BY Invariance, <1>1, PTL

(* NoteShare::revoke takes the reservations of the reads in flight, and
   complete_read answers none of them afterwards. *)
THEOREM RevocationCuts == Spec => []RevokedReadDropped
<1>1. Inv => RevokedReadDropped
  BY DEF Inv, CutInv, RevokedReadDropped
<1> QED
  BY Invariance, <1>1, PTL

(* NoteShareLedger::replace never strands a read between begin and complete. *)
THEOREM ReservationStays == Spec => []ReservationKept
<1>1. Inv => ReservationKept
  BY DEF Inv
<1> QED
  BY Invariance, <1>1, PTL
===============================================================================
