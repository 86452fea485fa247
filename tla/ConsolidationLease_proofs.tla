---------------------- MODULE ConsolidationLease_proofs ----------------------
(* Proofs about ConsolidationLease for every number of replicas, sessions,
   crashes and every clock skew: the claim count is exact, a completion is
   fenced to the last claimant, and a live lease is never stolen. *)
EXTENDS ConsolidationLease, TLAPS

(* A sequence grows by one element when a claim or a completion applies. *)
LEMMA GrowSeq ==
    ASSUME NEW S, NEW q \in Seq(S), NEW o \in S
    PROVE  /\ Append(q, o) \in Seq(S)
           /\ Len(Append(q, o)) = Len(q) + 1
           /\ Append(q, o)[Len(q) + 1] = o
           /\ \A i \in 1..Len(q) : Append(q, o)[i] = q[i]
           /\ Append(q, o) # <<>>
  OBVIOUS

(* Rows are built from their parts, and have them. *)
LEMMA RowType ==
    ASSUME NEW st \in ReqStates, NEW o \in Owners \cup {NoOwner},
           NEW e \in Nat, NEW a \in Nat
    PROVE  Row(st, o, e, a) \in Rows
  BY DEF Row, Rows

LEMMA RowParts ==
    ASSUME NEW r \in Rows
    PROVE  /\ r.state \in ReqStates
           /\ r.owner \in Owners \cup {NoOwner}
           /\ r.expires \in Nat
           /\ r.attempts \in Nat
  BY DEF Rows

LEMMA MeType ==
    ASSUME LoopType, NEW w \in Replicas
    PROVE  Me(w) \in Owners
  BY DEF LoopType, Me, Owners

LEMMA ClockType ==
    ASSUME DbType, NEW w \in Replicas
    PROVE  Clock(w) \in Nat
  BY ConsAssumption DEF DbType, Clock

LEMMA RunLogType ==
    ASSUME LoopType, NEW w \in Replicas, NEW x \in {"running", "finished"}
    PROVE  <<Me(w), x>> \in Owners \X {"running", "finished"}
  BY MeType

LEMMA LabelType ==
    /\ "sleep" \in Labels /\ "recv" \in Labels /\ "claimRead" \in Labels
    /\ "claimApply" \in Labels /\ "finalLog" \in Labels /\ "down" \in Labels
    /\ "runLog" \in Labels /\ "gate" \in Labels /\ "renew" \in Labels
    /\ "work" \in Labels /\ "completeRead" \in Labels /\ "completeApply" \in Labels
  BY DEF Labels, Holding

(* A step keeps the types of the database and of the clock. *)
LEMMA DbStep == DbType /\ LoopType /\ StackType /\ [Next]_vars => DbType'
<1> SUFFICES ASSUME DbType, LoopType, StackType, [Next]_vars PROVE DbType'
  OBVIOUS
<1> USE DEF dbVars
<1>1. CASE Tick
  BY <1>1 DEF Tick, DbType
<1>2. ASSUME NEW s \in Sessions, WriteTool(s) PROVE DbType'
  <2>1. Upserted(row[s]) \in Rows
    BY RowType DEF Upserted, DbType, ReqStates
  <2> QED
    BY <1>2, <2>1 DEF WriteTool, DbType
<1>3. ASSUME NEW w \in Replicas,
             \/ Wake(w) \/ ScanPending(w) \/ ScanStale(w) \/ ScanFails(w)
             \/ (\E s \in Sessions : Take(w, s))
             \/ PassDone(w) \/ ClaimRead(w) \/ CompleteRead(w) \/ Restart(w)
      PROVE  DbType'
  BY <1>3 DEF Wake, ScanPending, ScanStale, ScanFails, Take, PassDone, ClaimRead,
              CompleteRead, Restart, DbType
<1>4. ASSUME NEW w \in Replicas, ClaimApply(w) PROVE DbType'
  <2>1. sid[w] \in Sessions /\ Me(w) \in Owners
    BY MeType DEF LoopType
  <2>2. ClaimRow(w) \in Rows
    BY <2>1, RowType, RowParts DEF ClaimRow, ReqStates, StackType
  <2>3. Append(grants[sid[w]], Me(w)) \in Seq(Owners)
    BY <2>1, GrowSeq DEF DbType
  <2> QED
    BY <1>4, <2>1, <2>2, <2>3 DEF ClaimApply, Granted, DbType
<1>5. ASSUME NEW w \in Replicas, RunLog(w) \/ FinalLog(w) PROVE DbType'
  <2>1. sid[w] \in Sessions
    BY DEF LoopType
  <2>2. \A x \in {"running", "finished"} :
            runs[sid[w]] \cup {<<Me(w), x>>} \in SUBSET (Owners \X {"running", "finished"})
    BY <2>1, RunLogType DEF DbType
  <2> DEFINE log(x) == [runs EXCEPT ![sid[w]] = runs[sid[w]] \cup {<<Me(w), x>>}]
  <2>4. runs' \in {runs, log("running"), log("finished")}
    BY <1>5 DEF RunLog, FinalLog
  <2>5. runs' \in [Sessions -> SUBSET (Owners \X {"running", "finished"})]
    BY <2>1, <2>2, <2>4 DEF DbType
  <2> QED
    BY <1>5, <2>5 DEF RunLog, FinalLog, DbType
<1>6. ASSUME NEW w \in Replicas, Gate(w) \/ Work(w) \/ Crash(w) PROVE DbType'
  BY <1>6 DEF Gate, StartWork, Work, Crash, DbType, LoopType
<1>7. ASSUME NEW w \in Replicas, Renew(w) PROVE DbType'
  <2>1. sid[w] \in Sessions
    BY DEF LoopType
  <2>2. RenewedRow(w, row[sid[w]]) \in Rows
    BY <2>1, RowType, RowParts DEF RenewedRow, StackType, DbType
  <2> QED
    BY <1>7, <2>1, <2>2 DEF Renew, StartWork, DbType
<1>8. ASSUME NEW w \in Replicas, CompleteApply(w) PROVE DbType'
  <2>1. sid[w] \in Sessions /\ Me(w) \in Owners
    BY MeType DEF LoopType
  <2>2. FinishedRow(w, row[sid[w]]) \in Rows
    BY <2>1, RowType, RowParts DEF FinishedRow, ReqStates, StackType, DbType
  <2>3. Append(finishers[sid[w]], Me(w)) \in Seq(Owners)
    BY <2>1, GrowSeq DEF DbType
  <2> QED
    BY <1>8, <2>1, <2>2, <2>3 DEF CompleteApply, Finished, DbType
<1>9. CASE UNCHANGED vars
  BY <1>9 DEF vars, DbType
<1> QED
  BY <1>1, <1>2, <1>3, <1>4, <1>5, <1>6, <1>7, <1>8, <1>9 DEF Next, WorkerStep

(* A step keeps the types of the loop: label, incarnation and stream. *)
LEMMA LoopStep == DbType /\ LoopType /\ [Next]_vars => LoopType'
<1> SUFFICES ASSUME DbType, LoopType, [Next]_vars PROVE LoopType'
  OBVIOUS
<1> USE LabelType, ClockType DEF Goto, scanVars, workerVars, LoopType
<1>1. CASE Tick \/ (\E s \in Sessions : WriteTool(s)) \/ UNCHANGED vars
  BY <1>1 DEF Tick, WriteTool, vars
<1>2. ASSUME NEW w \in Replicas, Wake(w) \/ PassDone(w) \/ Restart(w)
      PROVE  LoopType'
  BY <1>2 DEF Wake, PassDone, Restart
<1>3. ASSUME NEW w \in Replicas, ScanPending(w) \/ ScanStale(w) \/ ScanFails(w)
      PROVE  LoopType'
  BY <1>3 DEF ScanPending, ScanStale, ScanFails
<1>4. ASSUME NEW w \in Replicas, NEW s \in Sessions, Take(w, s) PROVE LoopType'
  BY <1>4 DEF Take
<1>5. ASSUME NEW w \in Replicas, ClaimRead(w) \/ ClaimApply(w) \/ RunLog(w)
      PROVE  LoopType'
  BY <1>5 DEF ClaimRead, ClaimApply, RunLog, Release
<1>6. ASSUME NEW w \in Replicas, Gate(w) \/ Renew(w) PROVE LoopType'
  BY <1>6 DEF Gate, Renew, StartWork
<1>7. ASSUME NEW w \in Replicas, Work(w) PROVE LoopType'
  BY <1>7 DEF Work
<1>8. ASSUME NEW w \in Replicas, CompleteRead(w) \/ CompleteApply(w) \/ FinalLog(w)
      PROVE  LoopType'
  BY <1>8 DEF CompleteRead, CompleteApply, FinalLog, Release
<1>9. ASSUME NEW w \in Replicas, Crash(w) PROVE LoopType'
  BY <1>9 DEF Crash
<1> QED
  BY <1>1, <1>2, <1>3, <1>4, <1>5, <1>6, <1>7, <1>8, <1>9 DEF Next, WorkerStep

(* A step keeps the types of what a run keeps on its stack. *)
LEMMA StackStep == DbType /\ LoopType /\ StackType /\ [Next]_vars => StackType'
<1> SUFFICES ASSUME DbType, LoopType, StackType, [Next]_vars PROVE StackType'
  OBVIOUS
<1>a. FirstPhase \in Phases /\ "dream" \in Phases /\ "prune" \in Phases
  BY DEF FirstPhase, Phases
<1>b. NoRow \in Rows /\ (\A s \in Sessions : row[s] \in Rows)
  BY RowType DEF NoRow, ReqStates, DbType
<1>c. \A w \in Replicas : Clock(w) + LeaseSecs \in Nat /\ sid[w] \in Sessions
  BY ClockType, ConsAssumption DEF LoopType
<1>d. \A w \in Replicas : Release(w) => StackType'
  BY <1>a, <1>b DEF Release, StackType
<1> USE <1>a, <1>b, <1>c, <1>d, ClockType DEF StackType, workerVars
<1>1. CASE Tick \/ (\E s \in Sessions : WriteTool(s)) \/ UNCHANGED vars
  BY <1>1 DEF Tick, WriteTool, vars
<1>2. ASSUME NEW w \in Replicas,
             \/ Wake(w) \/ ScanPending(w) \/ ScanStale(w) \/ ScanFails(w)
             \/ PassDone(w) \/ Restart(w)
      PROVE  StackType'
  BY <1>2 DEF Wake, ScanPending, ScanStale, ScanFails, PassDone, Restart
<1>3. ASSUME NEW w \in Replicas, NEW s \in Sessions, Take(w, s) PROVE StackType'
  BY <1>3 DEF Take
<1>4. ASSUME NEW w \in Replicas, ClaimRead(w) PROVE StackType'
  BY <1>4 DEF ClaimRead
<1>5. ASSUME NEW w \in Replicas, ClaimApply(w) PROVE StackType'
  BY <1>5 DEF ClaimApply
<1>6. ASSUME NEW w \in Replicas, RunLog(w) PROVE StackType'
  BY <1>6 DEF RunLog
<1>7. ASSUME NEW w \in Replicas, Gate(w) PROVE StackType'
  BY <1>7 DEF Gate
<1>8. ASSUME NEW w \in Replicas, Renew(w) PROVE StackType'
  BY <1>8 DEF Renew
<1>9. ASSUME NEW w \in Replicas, Work(w) PROVE StackType'
  BY <1>9 DEF Work
<1>10. ASSUME NEW w \in Replicas, CompleteRead(w) \/ CompleteApply(w) \/ FinalLog(w)
      PROVE  StackType'
  BY <1>10 DEF CompleteRead, CompleteApply, FinalLog
<1>11. ASSUME NEW w \in Replicas, Crash(w) PROVE StackType'
  BY <1>11 DEF Crash
<1> QED
  BY <1>1, <1>2, <1>3, <1>4, <1>5, <1>6, <1>7, <1>8, <1>9, <1>10, <1>11
     DEF Next, WorkerStep

(* The initial rows, workers and clock have their types. *)
LEMMA InitType == Init => TypeOK
<1>1. NoRow \in Rows
  BY RowType DEF NoRow, ReqStates
<1>2. ASSUME Init PROVE DbType
  BY <1>1, <1>2 DEF Init, DbType
<1>3. ASSUME Init PROVE LoopType
  BY <1>3, LabelType, ConsAssumption DEF Init, LoopType
<1>4. ASSUME Init PROVE StackType
  BY <1>1, <1>4, ConsAssumption DEF Init, StackType, FirstPhase, Phases
<1> QED
  BY <1>2, <1>3, <1>4 DEF TypeOK

(* Every variable keeps its type through the statements of the database and
   every step of the worker loop. *)
THEOREM TypeCorrect == Spec => []TypeOK
<1>1. TypeOK /\ [Next]_vars => TypeOK'
  BY DbStep, LoopStep, StackStep DEF TypeOK
<1> QED
  BY <1>1, InitType, PTL DEF Spec

-----------------------------------------------------------------------------
(* What one grant, one renewal or one completion does to its row. *)
LEMMA GrantFacts ==
    ASSUME LeaseInv, NEW w \in Replicas, pc[w] = "claimApply", Granted(w)
    PROVE  /\ row' = [row EXCEPT ![sid[w]] = ClaimRow(w)]
           /\ grants' = [grants EXCEPT ![sid[w]] = Append(grants[sid[w]], Me(w))]
           /\ row[sid[w]].state \in {"pending", "leased"}
           /\ snap[w].attempts = row[sid[w]].attempts
           /\ row[sid[w]].state = "leased" => row[sid[w]].expires <= taken[w]
           /\ row[sid[w]].state = "leased" => row[sid[w]].expires < exp[w]
<1> USE DEF LeaseInv, TypeOK
<1>1. sid[w] \in Sessions /\ row[sid[w]] \in Rows /\ snap[w] \in Rows /\ taken[w] \in Nat
  BY DEF LoopType, DbType, StackType
<1>2. /\ row[sid[w]].attempts \in Nat /\ row[sid[w]].expires \in Nat
      /\ snap[w].attempts \in Nat /\ snap[w].expires \in Nat
  BY <1>1, RowParts
<1>3. CASE snap[w].state = "pending" /\ row[sid[w]].state = "pending"
  BY <1>1, <1>3 DEF Granted, SnapInv, RowInv
<1>4. CASE /\ snap[w].state = "leased" /\ row[sid[w]].state = "leased"
           /\ row[sid[w]].expires = snap[w].expires
  BY <1>1, <1>2, <1>4, ConsAssumption, SMTT(30) DEF Granted, SnapInv, LeaseEndInv
<1> QED
  BY <1>3, <1>4 DEF Granted, ClaimIf

(* The row keeps naming its last grant, and its attempts keep counting them. *)
LEMMA RowInvStep == LeaseInv /\ [Next]_vars => RowInv' /\ AttemptCountExact'
<1> SUFFICES ASSUME LeaseInv, [Next]_vars PROVE RowInv' /\ AttemptCountExact'
  OBVIOUS
<1>t. DbType /\ LoopType /\ StackType
  BY DEF LeaseInv, TypeOK
<1>n. /\ now \in Nat /\ Skew \in [Replicas -> Nat] /\ LeaseSecs \in Nat
      /\ inc \in [Replicas -> Nat]
      /\ \A s \in Sessions : row[s].expires \in Nat /\ row[s].attempts \in Nat
  BY <1>t, RowParts, ConsAssumption DEF DbType, LoopType
<1>o. \A o \in Owners : o = <<o[1], o[2]>> /\ o[1] \in Replicas /\ o[2] \in Nat
  BY DEF Owners
<1>1. CASE Tick
  BY <1>1, <1>n, <1>o DEF Tick, LeaseInv, RowInv, AttemptCountExact, Clock, dbVars, workerVars
<1>2. ASSUME NEW s \in Sessions, WriteTool(s) PROVE RowInv' /\ AttemptCountExact'
  <2>1. row' \in {row, [row EXCEPT ![s] = Upserted(row[s])]}
    BY <1>2 DEF WriteTool
  <2>2. \A x \in Sessions : row'[x] = row[x]
            \/ (row[x].state = "absent" /\ row'[x] = Row("pending", NoOwner, 0, 0))
    BY <2>1, <1>t DEF Upserted, DbType
  <2>3. \A x \in Sessions : Len(grants[x]) = 0 \/ row[x].state # "absent"
    BY <1>n DEF LeaseInv, RowInv, AttemptCountExact
  <2> QED
    BY <1>2, <2>2, <2>3 DEF WriteTool, LeaseInv, RowInv, AttemptCountExact, Clock, Row,
       workerVars
<1>3. ASSUME UNCHANGED <<now, row, grants, inc>> PROVE RowInv' /\ AttemptCountExact'
  BY <1>3 DEF LeaseInv, RowInv, AttemptCountExact, Clock
<1>4. ASSUME NEW w \in Replicas, ClaimApply(w) PROVE RowInv' /\ AttemptCountExact'
  <2>1. CASE UNCHANGED <<row, grants>>
    BY <1>3, <1>4, <2>1 DEF ClaimApply
  <2>2. CASE Granted(w)
    <3>1. /\ sid[w] \in Sessions /\ Me(w) \in Owners /\ pc[w] = "claimApply"
          /\ grants[sid[w]] \in Seq(Owners)
          /\ UNCHANGED <<now, inc>>
      BY <1>4, <1>t, MeType DEF LoopType, ClaimApply, DbType
    <3>2. /\ row' = [row EXCEPT ![sid[w]] = ClaimRow(w)]
          /\ grants' = [grants EXCEPT ![sid[w]] = Append(grants[sid[w]], Me(w))]
          /\ snap[w].attempts = Len(grants[sid[w]])
      BY <2>2, <3>1, GrantFacts DEF LeaseInv, AttemptCountExact
    <3>3. /\ exp[w] <= Clock(w) + LeaseSecs
          /\ Me(w)[1] = w /\ Me(w)[2] = inc[w]
      BY <1>n, <3>1, <1>t DEF LeaseInv, LeaseEndInv, Me, Clock, StackType
    <3>4. \A x \in Sessions \ {sid[w]} : row'[x] = row[x] /\ grants'[x] = grants[x]
      BY <3>1, <3>2, <1>t DEF DbType
    <3>5. row'[sid[w]] = ClaimRow(w) /\ grants'[sid[w]] = Append(grants[sid[w]], Me(w))
      BY <3>1, <3>2, <1>t DEF DbType
    <3>6. /\ row'[sid[w]].attempts = Len(grants'[sid[w]])
          /\ row'[sid[w]].state = "leased" /\ row'[sid[w]].owner = Me(w)
          /\ row'[sid[w]].expires = exp[w]
          /\ grants'[sid[w]] # <<>>
          /\ Me(w) = grants'[sid[w]][Len(grants'[sid[w]])]
      <4>1. /\ row'[sid[w]].attempts = snap[w].attempts + 1
            /\ row'[sid[w]].state = "leased" /\ row'[sid[w]].owner = Me(w)
            /\ row'[sid[w]].expires = exp[w]
        BY <3>5 DEF ClaimRow, Row
      <4> QED
        BY <4>1, <3>1, <3>2, <3>5, GrowSeq
    <3>7. Clock(w)' = Clock(w)
      BY <3>1 DEF Clock
    <3>8. ASSUME NEW x \in Sessions, x # sid[w]
          PROVE  RowInv!(x)' /\ row'[x].attempts = Len(grants'[x])
      BY <3>1, <3>4, <3>8 DEF LeaseInv, RowInv, AttemptCountExact, Clock
    <3> QED
      BY <1>n, <3>1, <3>3, <3>6, <3>7, <3>8, SMTT(30) DEF RowInv, AttemptCountExact
  <2> QED
    BY <1>4, <2>1, <2>2 DEF ClaimApply
<1>5. ASSUME NEW w \in Replicas, Renew(w) PROVE RowInv' /\ AttemptCountExact'
  <2>1. CASE row' = row
    BY <1>3, <1>5, <2>1 DEF Renew
  <2>2. CASE OwnedBy(w, row[sid[w]]) /\ row' = [row EXCEPT ![sid[w]] = RenewedRow(w, row[sid[w]])]
    <3>1. /\ sid[w] \in Sessions /\ pc[w] = "renew" /\ UNCHANGED <<now, inc, grants>>
      BY <1>5, <1>t DEF LoopType, Renew
    <3>2. /\ \A x \in Sessions \ {sid[w]} : row'[x] = row[x]
          /\ row'[sid[w]] = RenewedRow(w, row[sid[w]])
      BY <2>2, <3>1, <1>t DEF DbType
    <3>3. /\ row'[sid[w]].state = row[sid[w]].state /\ row'[sid[w]].owner = row[sid[w]].owner
          /\ row'[sid[w]].attempts = row[sid[w]].attempts
          /\ row'[sid[w]].expires = exp[w]
      BY <3>2 DEF RenewedRow, Row
    <3>4. row[sid[w]].owner[1] = w /\ row[sid[w]].owner[2] = inc[w]
      BY <2>2 DEF OwnedBy, Me
    <3>5. exp[w] <= Clock(w) + LeaseSecs
      BY <3>1 DEF LeaseInv, LeaseEndInv
    <3> QED
      BY <3>1, <3>2, <3>3, <3>4, <3>5 DEF LeaseInv, RowInv, AttemptCountExact, Clock
  <2> QED
    BY <1>5, <2>1, <2>2 DEF Renew
<1>6. ASSUME NEW w \in Replicas, CompleteApply(w) PROVE RowInv' /\ AttemptCountExact'
  <2>1. CASE row' = row
    BY <1>3, <1>6, <2>1 DEF CompleteApply
  <2>2. CASE Finished(w)
    <3>1. /\ sid[w] \in Sessions /\ UNCHANGED <<now, inc, grants>>
      BY <1>6, <1>t DEF LoopType, CompleteApply
    <3>2. /\ \A x \in Sessions \ {sid[w]} : row'[x] = row[x]
          /\ row'[sid[w]] = FinishedRow(w, row[sid[w]])
      BY <2>2, <3>1, <1>t DEF DbType, Finished
    <3>3. /\ row'[sid[w]].state \in {"completed", "failed"}
          /\ row'[sid[w]].attempts = row[sid[w]].attempts
      BY <3>2 DEF FinishedRow, Row
    <3> QED
      BY <3>1, <3>2, <3>3 DEF LeaseInv, RowInv, AttemptCountExact, Clock
  <2> QED
    BY <1>6, <2>1, <2>2 DEF CompleteApply
<1>7. ASSUME NEW w \in Replicas, Crash(w) PROVE RowInv' /\ AttemptCountExact'
  <2>1. /\ UNCHANGED <<now, row, grants>>
        /\ inc' = [inc EXCEPT ![w] = inc[w] + 1]
    BY <1>7 DEF Crash
  <2>2. \A o \in Owners : o[2] <= inc[o[1]] =>
             o[2] <= inc'[o[1]] /\ (o[2] = inc'[o[1]] => o[2] = inc[o[1]])
    BY <2>1, <1>n, <1>o
  <2> QED
    BY <2>1, <2>2 DEF LeaseInv, RowInv, AttemptCountExact, Clock
<1>8. CASE UNCHANGED vars
  BY <1>3, <1>8 DEF vars, dbVars, workerVars
<1>9. ASSUME NEW w \in Replicas,
             \/ Wake(w) \/ ScanPending(w) \/ ScanStale(w) \/ ScanFails(w)
             \/ (\E s \in Sessions : Take(w, s))
             \/ PassDone(w) \/ ClaimRead(w) \/ RunLog(w) \/ Gate(w) \/ Work(w)
             \/ CompleteRead(w) \/ FinalLog(w) \/ Restart(w)
      PROVE  RowInv' /\ AttemptCountExact'
  BY <1>3, <1>9 DEF Wake, ScanPending, ScanStale, ScanFails, Take, PassDone,
       ClaimRead, RunLog, Gate, Work, CompleteRead, FinalLog, Restart, dbVars
<1> QED
  BY <1>1, <1>2, <1>4, <1>5, <1>6, <1>7, <1>8, <1>9 DEF Next, WorkerStep

(* How the rows move in one step: attempts and expiry grow together, finished
   rows stay, and nobody touches a lease that is another worker's to renew. *)
RowMove(s) ==
    /\ (row[s].state = "leased" /\ row'[s].state = "leased") =>
          /\ row[s].attempts <= row'[s].attempts
          /\ row[s].expires <= row'[s].expires
          /\ row[s].attempts < row'[s].attempts => row[s].expires < row'[s].expires
    /\ row[s].state \notin {"absent", "pending"} => row'[s].state \notin {"absent", "pending"}
    /\ Terminal(row[s]) => row'[s] = row[s]
    /\ \A v \in Replicas :
          (/\ pc[v] = "renew" /\ pc'[v] = "renew"
           /\ row'[s].state = "leased" /\ row'[s].owner = Me(v)) => row'[s] = row[s]

LEMMA RowMoves ==
    ASSUME LeaseInv, [Next]_vars, NEW s \in Sessions
    PROVE  RowMove(s)
<1>t. DbType /\ LoopType /\ StackType
  BY DEF LeaseInv, TypeOK
<1>n. \A x \in Sessions : row[x].expires \in Nat /\ row[x].attempts \in Nat
  BY <1>t, RowParts DEF DbType
<1>0. ASSUME row'[s] = row[s] PROVE RowMove(s)
  BY <1>0, <1>n DEF RowMove
<1>1. ASSUME NEW x \in Sessions, WriteTool(x) PROVE RowMove(s)
  <2>1. row'[s] = row[s] \/ (row[s].state = "absent" /\ row'[s].state = "pending")
    BY <1>1, <1>t DEF WriteTool, Upserted, Row, DbType
  <2> QED
    BY <1>0, <2>1 DEF RowMove, Terminal
<1>2. ASSUME NEW w \in Replicas, ClaimApply(w) PROVE RowMove(s)
  <2>1. CASE UNCHANGED row
    BY <1>0, <2>1
  <2>2. CASE Granted(w) /\ s = sid[w]
    <3>1. pc[w] = "claimApply" /\ sid[w] \in Sessions /\ pc'[w] # "renew"
      BY <1>2, <1>t DEF ClaimApply, LoopType, Goto, Release
    <3>2. /\ row'[s] = ClaimRow(w)
          /\ row[s].state \in {"pending", "leased"}
          /\ snap[w].attempts = row[s].attempts
          /\ row[s].state = "leased" => row[s].expires < exp[w]
      BY <2>2, <3>1, GrantFacts, <1>t DEF DbType
    <3>3. /\ row'[s].state = "leased" /\ row'[s].owner = Me(w)
          /\ row'[s].expires = exp[w] /\ row'[s].attempts = row[s].attempts + 1
      BY <3>2 DEF ClaimRow, Row
    <3>4. \A v \in Replicas : Me(v) = Me(w) => v = w
      BY DEF Me
    <3>5. exp[w] \in Nat
      BY <1>t DEF StackType
    <3> QED
      BY <1>n, <3>1, <3>2, <3>3, <3>4, <3>5 DEF RowMove, Terminal
  <2>3. CASE Granted(w) /\ s # sid[w]
    BY <1>0, <2>3, <1>t DEF Granted, DbType
  <2> QED
    BY <1>2, <2>1, <2>2, <2>3 DEF ClaimApply
<1>3. ASSUME NEW w \in Replicas, Renew(w) PROVE RowMove(s)
  <2>1. CASE s = sid[w] /\ OwnedBy(w, row[s]) /\ row'[s] = RenewedRow(w, row[s])
    <3>1. pc[w] = "renew" /\ pc'[w] # "renew"
      BY <1>3, <1>t DEF Renew, StartWork, Goto, LoopType
    <3>2. /\ row'[s].state = "leased" /\ row[s].state = "leased"
          /\ row'[s].owner = Me(w) /\ row'[s].attempts = row[s].attempts
          /\ row'[s].expires = exp[w]
      BY <2>1 DEF RenewedRow, Row, OwnedBy
    <3>3. row[s].expires <= exp[w]
      BY <2>1, <3>1 DEF LeaseInv, LeaseEndInv
    <3>4. \A v \in Replicas : Me(v) = Me(w) => v = w
      BY DEF Me
    <3> QED
      BY <1>n, <3>1, <3>2, <3>3, <3>4 DEF RowMove, Terminal
  <2> QED
    BY <1>0, <1>3, <2>1, <1>t DEF Renew, DbType
<1>4. ASSUME NEW w \in Replicas, CompleteApply(w) PROVE RowMove(s)
  <2>1. CASE s = sid[w] /\ OwnedBy(w, row[s]) /\ row'[s] = FinishedRow(w, row[s])
    <3>1. row'[s].state \in {"completed", "failed"}
      BY <2>1 DEF FinishedRow, Row
    <3> QED
      BY <2>1, <3>1 DEF RowMove, Terminal, OwnedBy
  <2> QED
    BY <1>0, <1>4, <2>1, <1>t DEF CompleteApply, Finished, CompleteIf, DbType
<1>5. ASSUME NEW w \in Replicas,
             \/ Wake(w) \/ ScanPending(w) \/ ScanStale(w) \/ ScanFails(w)
             \/ (\E x \in Sessions : Take(w, x))
             \/ PassDone(w) \/ ClaimRead(w) \/ RunLog(w) \/ Gate(w) \/ Work(w)
             \/ CompleteRead(w) \/ FinalLog(w) \/ Restart(w) \/ Crash(w)
      PROVE  RowMove(s)
  BY <1>0, <1>5 DEF Wake, ScanPending, ScanStale, ScanFails, Take, PassDone, ClaimRead,
       RunLog, Gate, Work, CompleteRead, FinalLog, Restart, Crash, dbVars
<1>6. CASE Tick \/ UNCHANGED vars
  BY <1>0, <1>6 DEF Tick, vars, dbVars
<1> QED
  BY <1>1, <1>2, <1>3, <1>4, <1>5, <1>6 DEF Next, WorkerStep

(* How a worker comes to the three labels at which it carries a lease end. *)
WorkerMove(v) ==
    \/ /\ pc'[v] = pc[v] /\ sid'[v] = sid[v] /\ snap'[v] = snap[v]
       /\ taken'[v] = taken[v] /\ exp'[v] = exp[v] /\ inc'[v] = inc[v]
    \/ pc'[v] \notin {"claimRead", "claimApply", "renew"}
    \/ /\ pc'[v] = "claimRead" /\ now' = now
       /\ taken'[v] = Clock(v) /\ exp'[v] = Clock(v) + LeaseSecs
    \/ /\ pc'[v] = "claimApply" /\ pc[v] = "claimRead" /\ now' = now
       /\ Claimable(v, row[sid[v]]) /\ snap'[v] = row[sid[v]] /\ sid'[v] = sid[v]
       /\ taken'[v] = taken[v] /\ exp'[v] = exp[v] /\ row' = row
    \/ /\ pc'[v] = "renew" /\ now' = now /\ exp'[v] = Clock(v) + LeaseSecs
       /\ sid'[v] = sid[v] /\ row' = row /\ inc' = inc

LEMMA WorkerMoves ==
    ASSUME LeaseInv, [Next]_vars, NEW v \in Replicas
    PROVE  WorkerMove(v) /\ now' \in Nat /\ now <= now'
<1>t. DbType /\ LoopType /\ StackType
  BY DEF LeaseInv, TypeOK
<1>n. now \in Nat
  BY <1>t DEF DbType
<1> USE <1>t, <1>n DEF LoopType, StackType, WorkerMove, Goto, workerVars, scanVars
<1>1. CASE Tick \/ (\E s \in Sessions : WriteTool(s)) \/ UNCHANGED vars
  BY <1>1 DEF Tick, WriteTool, vars
<1>2. ASSUME NEW w \in Replicas,
             \/ Wake(w) \/ ScanPending(w) \/ ScanStale(w) \/ ScanFails(w)
             \/ PassDone(w) \/ Restart(w)
      PROVE  WorkerMove(v) /\ now' = now
  BY <1>2 DEF Wake, ScanPending, ScanStale, ScanFails, PassDone, Restart
<1>3. ASSUME NEW w \in Replicas, NEW s \in Sessions, Take(w, s)
      PROVE  WorkerMove(v) /\ now' = now
  BY <1>3 DEF Take
<1>4. ASSUME NEW w \in Replicas, ClaimRead(w) PROVE WorkerMove(v) /\ now' = now
  BY <1>4 DEF ClaimRead, Release, dbVars
<1>5. ASSUME NEW w \in Replicas, ClaimApply(w) \/ RunLog(w)
      PROVE  WorkerMove(v) /\ now' = now
  BY <1>5 DEF ClaimApply, RunLog, Release
<1>6. ASSUME NEW w \in Replicas, Gate(w) PROVE WorkerMove(v) /\ now' = now
  BY <1>6 DEF Gate, StartWork
<1>7. ASSUME NEW w \in Replicas, Renew(w) \/ Work(w)
      PROVE  WorkerMove(v) /\ now' = now
  BY <1>7 DEF Renew, StartWork, Work
<1>8. ASSUME NEW w \in Replicas, CompleteRead(w) \/ CompleteApply(w) \/ FinalLog(w)
      PROVE  WorkerMove(v) /\ now' = now
  BY <1>8 DEF CompleteRead, CompleteApply, FinalLog, Release
<1>9. ASSUME NEW w \in Replicas, Crash(w) PROVE WorkerMove(v) /\ now' = now
  BY <1>9 DEF Crash
<1> QED
  BY <1>1, <1>2, <1>3, <1>4, <1>5, <1>6, <1>7, <1>8, <1>9 DEF Next, WorkerStep

(* A snapshot never becomes newer than its row, and a lease end computed by a
   worker never lies beyond what its clock allows. *)
LEMMA StackInvStep == LeaseInv /\ [Next]_vars => SnapInv' /\ LeaseEndInv'
<1> SUFFICES ASSUME LeaseInv, [Next]_vars, NEW v \in Replicas
             PROVE  SnapInv!(v)' /\ LeaseEndInv!(v)'
  BY DEF SnapInv, LeaseEndInv
<1>t. DbType /\ LoopType /\ StackType /\ DbType' /\ LoopType' /\ StackType'
  BY DbStep, LoopStep, StackStep DEF LeaseInv, TypeOK
<1>m. /\ WorkerMove(v) /\ now' \in Nat /\ now <= now'
      /\ sid[v] \in Sessions /\ RowMove(sid[v])
  BY WorkerMoves, RowMoves, <1>t DEF LoopType
<1>n. /\ now \in Nat /\ Skew[v] \in Nat /\ LeaseSecs \in Nat
      /\ taken[v] \in Nat /\ exp[v] \in Nat
      /\ row[sid[v]].expires \in Nat /\ row[sid[v]].attempts \in Nat
      /\ snap[v].expires \in Nat /\ snap[v].attempts \in Nat
      /\ row'[sid[v]].expires \in Nat /\ row'[sid[v]].attempts \in Nat
      /\ row[sid[v]].state \in ReqStates
  BY <1>t, <1>m, RowParts, ConsAssumption DEF DbType, LoopType, StackType
<1>1. CASE pc'[v] \notin {"claimRead", "claimApply", "renew"}
  BY <1>1
<1>2. CASE /\ pc'[v] = pc[v] /\ sid'[v] = sid[v] /\ snap'[v] = snap[v]
           /\ taken'[v] = taken[v] /\ exp'[v] = exp[v] /\ inc'[v] = inc[v]
  <2>0. row[sid[v]].state \notin {"absent", "pending", "leased"}
            => row'[sid[v]].state # "leased"
    BY <1>m, <1>n DEF RowMove, Terminal, ReqStates
  <2>1. SnapInv!(v)'
    <3> SUFFICES ASSUME pc[v] = "claimApply", snap[v].state = "leased"
                 PROVE  /\ snap[v].expires <= taken[v]
                        /\ row'[sid[v]].state \notin {"absent", "pending"}
                        /\ row'[sid[v]].state = "leased" =>
                              /\ snap[v].attempts <= row'[sid[v]].attempts
                              /\ snap[v].expires <= row'[sid[v]].expires
                              /\ snap[v].attempts < row'[sid[v]].attempts
                                    => snap[v].expires < row'[sid[v]].expires
      BY <1>2 DEF LeaseInv, SnapInv
    <3>1. /\ snap[v].expires <= taken[v]
          /\ row[sid[v]].state \notin {"absent", "pending"}
          /\ row[sid[v]].state = "leased" =>
                /\ snap[v].attempts <= row[sid[v]].attempts
                /\ snap[v].expires <= row[sid[v]].expires
                /\ snap[v].attempts < row[sid[v]].attempts
                      => snap[v].expires < row[sid[v]].expires
      BY DEF LeaseInv, SnapInv
    <3>2. row'[sid[v]].state = "leased" => row[sid[v]].state = "leased"
      BY <2>0, <3>1
    <3> QED
      BY <1>m, <1>n, <3>1, <3>2 DEF RowMove
  <2>2. LeaseEndInv!(v)'
    BY <1>2, <1>m, <1>n DEF LeaseInv, LeaseEndInv, RowMove, Clock, OwnedBy, Me
  <2> QED
    BY <2>1, <2>2
<1>3. CASE /\ pc'[v] = "claimRead" /\ now' = now
           /\ taken'[v] = Clock(v) /\ exp'[v] = Clock(v) + LeaseSecs
  BY <1>3, <1>n DEF Clock
<1>4. CASE /\ pc'[v] = "claimApply" /\ pc[v] = "claimRead" /\ now' = now
           /\ Claimable(v, row[sid[v]]) /\ snap'[v] = row[sid[v]] /\ sid'[v] = sid[v]
           /\ taken'[v] = taken[v] /\ exp'[v] = exp[v] /\ row' = row
  BY <1>4, <1>m, <1>n, SMTT(30) DEF LeaseInv, LeaseEndInv, RowInv, Claimable, Clock
<1>5. CASE /\ pc'[v] = "renew" /\ now' = now /\ exp'[v] = Clock(v) + LeaseSecs
           /\ sid'[v] = sid[v] /\ row' = row /\ inc' = inc
  <2>1. OwnedBy(v, row[sid[v]]) => row[sid[v]].expires <= Clock(v) + LeaseSecs
    BY <1>m DEF LeaseInv, RowInv, OwnedBy, Me
  <2> QED
    BY <1>5, <1>m, <1>n, <2>1 DEF OwnedBy, Me, Clock
<1> QED
  BY <1>1, <1>2, <1>3, <1>4, <1>5, <1>m DEF WorkerMove

(* The inductive invariant of the lease holds in every reachable state. *)
THEOREM LeaseInvariant == Spec => []LeaseInv
<1>1. Init => LeaseInv
  <2> SUFFICES ASSUME Init PROVE LeaseInv
    OBVIOUS
  <2>1. TypeOK
    BY InitType
  <2>2. RowInv /\ AttemptCountExact
    BY DEF Init, RowInv, AttemptCountExact, NoRow, Row
  <2>3. SnapInv /\ LeaseEndInv
    BY DEF Init, SnapInv, LeaseEndInv
  <2> QED
    BY <2>1, <2>2, <2>3 DEF LeaseInv
<1>2. LeaseInv /\ [Next]_vars => LeaseInv'
  BY DbStep, LoopStep, StackStep, RowInvStep, StackInvStep DEF LeaseInv, TypeOK
<1> QED
  BY <1>1, <1>2, PTL DEF Spec

(* The attempt count of a row, computed by each claimant from the row it read,
   equals the number of claims the database applied. *)
THEOREM AttemptCount == Spec => []AttemptCountExact
  BY LeaseInvariant, PTL DEF LeaseInv

(* A lease changes hands only after it expired on the claimant's clock, even
   when its holder renewed it between the claimant's read and its LWT. *)
THEOREM LiveLeaseKept == Spec => NoLiveSteal
<1> DEFINE NoSteal(s) ==
        (row[s].state = "leased" /\ row'[s].state = "leased"
           /\ Len(grants'[s]) > Len(grants[s]))
        => row[s].expires <= now + Skew[row'[s].owner[1]]
<1>1. ASSUME LeaseInv, [Next]_vars, NEW s \in Sessions PROVE NoSteal(s)
  <2>t. DbType /\ LoopType /\ StackType
    BY <1>1 DEF LeaseInv, TypeOK
  <2>0. ASSUME grants'[s] = grants[s] PROVE NoSteal(s)
    BY <2>0, <2>t DEF DbType
  <2>1. ASSUME NEW w \in Replicas, ClaimApply(w) PROVE NoSteal(s)
    <3>1. CASE Granted(w) /\ s = sid[w]
      <4>1. pc[w] = "claimApply"
        BY <2>1 DEF ClaimApply
      <4>2. /\ row[s].state = "leased" => row[s].expires <= taken[w]
            /\ row'[s] = ClaimRow(w) /\ taken[w] <= Clock(w)
        BY <1>1, <3>1, <4>1, GrantFacts, <2>t DEF DbType, LeaseInv, LeaseEndInv
      <4>3. row'[s].owner[1] = w
        BY <4>2 DEF ClaimRow, Row, Me
      <4>4. /\ taken[w] \in Nat /\ Clock(w) \in Nat /\ row[s].expires \in Nat
        BY <2>t, ClockType, RowParts DEF StackType, DbType
      <4> QED
        BY <4>2, <4>3, <4>4 DEF Clock
    <3> QED
      BY <2>0, <2>1, <3>1, <2>t DEF ClaimApply, Granted, DbType
  <2>2. ASSUME UNCHANGED grants PROVE NoSteal(s)
    BY <2>0, <2>2
  <2> QED
    BY <1>1, <2>1, <2>2 DEF Next, WorkerStep, Tick, WriteTool, Wake, ScanPending,
       ScanStale, ScanFails, Take, PassDone, ClaimRead, RunLog, Gate, Renew, Work,
       CompleteRead, CompleteApply, FinalLog, Restart, Crash, vars, dbVars
<1>2. LeaseInv /\ [Next]_vars => \A s \in Sessions : NoSteal(s)
  BY <1>1
<1> QED
  BY <1>2, LeaseInvariant, PTL DEF Spec, NoLiveSteal

-----------------------------------------------------------------------------
(* How grants and completions move in one step: a claim adds a grant to a row
   that is not finished, a completion finishes a leased row for its owner. *)
FenceMove(s) ==
    \/ /\ grants'[s] = grants[s] /\ finishers'[s] = finishers[s]
       /\ Terminal(row'[s]) <=> Terminal(row[s])
    \/ /\ ~Terminal(row[s]) /\ ~Terminal(row'[s]) /\ finishers'[s] = finishers[s]
       /\ \E o \in Owners : grants'[s] = Append(grants[s], o)
    \/ /\ row[s].state = "leased" /\ Terminal(row'[s]) /\ grants'[s] = grants[s]
       /\ finishers'[s] = Append(finishers[s], row[s].owner)

LEMMA FenceMoves ==
    ASSUME LeaseInv, [Next]_vars, NEW s \in Sessions
    PROVE  FenceMove(s)
<1>t. DbType /\ LoopType /\ StackType
  BY DEF LeaseInv, TypeOK
<1>0. ASSUME row'[s] = row[s], grants'[s] = grants[s], finishers'[s] = finishers[s]
      PROVE  FenceMove(s)
  BY <1>0 DEF FenceMove
<1>1. ASSUME NEW x \in Sessions, WriteTool(x) PROVE FenceMove(s)
  <2>1. row'[s] = row[s] \/ (row[s].state = "absent" /\ row'[s].state = "pending")
    BY <1>1, <1>t DEF WriteTool, Upserted, Row, DbType
  <2> QED
    BY <1>1, <2>1 DEF WriteTool, FenceMove, Terminal
<1>2. ASSUME NEW w \in Replicas, ClaimApply(w) PROVE FenceMove(s)
  <2>1. CASE Granted(w) /\ s = sid[w]
    <3>1. /\ pc[w] = "claimApply" /\ Me(w) \in Owners
          /\ finishers' = finishers
      BY <1>2, <1>t, MeType DEF ClaimApply
    <3>2. /\ row'[s] = ClaimRow(w) /\ grants'[s] = Append(grants[s], Me(w))
          /\ row[s].state \in {"pending", "leased"}
      BY <2>1, <3>1, GrantFacts, <1>t DEF DbType
    <3> QED
      BY <3>1, <3>2 DEF FenceMove, Terminal, ClaimRow, Row
  <2> QED
    BY <1>0, <1>2, <2>1, <1>t DEF ClaimApply, Granted, DbType
<1>3. ASSUME NEW w \in Replicas, Renew(w) PROVE FenceMove(s)
  <2>1. row'[s] = row[s] \/ row'[s] = RenewedRow(w, row[s])
    BY <1>3, <1>t DEF Renew, DbType
  <2>2. row'[s].state = row[s].state
    BY <2>1 DEF RenewedRow, Row
  <2> QED
    BY <1>3, <2>2 DEF Renew, FenceMove, Terminal
<1>4. ASSUME NEW w \in Replicas, CompleteApply(w) PROVE FenceMove(s)
  <2>1. CASE Finished(w) /\ s = sid[w]
    <3>1. /\ row'[s] = FinishedRow(w, row[s]) /\ OwnedBy(w, row[s])
          /\ finishers'[s] = Append(finishers[s], Me(w)) /\ grants' = grants
      BY <1>4, <2>1, <1>t DEF Finished, CompleteIf, CompleteApply, DbType
    <3> QED
      BY <3>1 DEF FenceMove, Terminal, FinishedRow, Row, OwnedBy
  <2> QED
    BY <1>0, <1>4, <2>1, <1>t DEF CompleteApply, Finished, DbType
<1>5. ASSUME NEW w \in Replicas,
             \/ Wake(w) \/ ScanPending(w) \/ ScanStale(w) \/ ScanFails(w)
             \/ (\E x \in Sessions : Take(w, x))
             \/ PassDone(w) \/ ClaimRead(w) \/ RunLog(w) \/ Gate(w) \/ Work(w)
             \/ CompleteRead(w) \/ FinalLog(w) \/ Restart(w) \/ Crash(w)
      PROVE  FenceMove(s)
  BY <1>0, <1>5 DEF Wake, ScanPending, ScanStale, ScanFails, Take, PassDone, ClaimRead,
       RunLog, Gate, Work, CompleteRead, FinalLog, Restart, Crash, dbVars
<1>6. CASE Tick \/ UNCHANGED vars
  BY <1>0, <1>6 DEF Tick, vars, dbVars
<1> QED
  BY <1>1, <1>2, <1>3, <1>4, <1>5, <1>6 DEF Next, WorkerStep

(* The owner that finishes a row is the last one a claim was granted to. *)
LEMMA FencedStep == FenceInv /\ [Next]_vars => CompletionFenced'
<1> SUFFICES ASSUME FenceInv, [Next]_vars, NEW s \in Sessions
             PROVE  CompletionFenced!(s)'
  BY DEF CompletionFenced
<1>1. /\ FenceMove(s) /\ grants[s] \in Seq(Owners) /\ finishers[s] \in Seq(Owners)
      /\ CompletionFenced!(s)
      /\ row[s].state = "leased" =>
            /\ grants[s] # <<>> /\ row[s].owner = grants[s][Len(grants[s])]
            /\ row[s].owner \in Owners
  BY FenceMoves DEF FenceInv, LeaseInv, TypeOK, DbType, CompletionFenced, RowInv
<1>2. CASE /\ grants'[s] = grants[s] /\ finishers'[s] = finishers[s]
           /\ Terminal(row'[s]) <=> Terminal(row[s])
  BY <1>1, <1>2
<1>3. CASE ~Terminal(row[s]) /\ ~Terminal(row'[s]) /\ finishers'[s] = finishers[s]
  BY <1>1, <1>3
<1>4. CASE /\ row[s].state = "leased" /\ Terminal(row'[s]) /\ grants'[s] = grants[s]
           /\ finishers'[s] = Append(finishers[s], row[s].owner)
  <2>1. finishers[s] = <<>>
    BY <1>1, <1>4 DEF Terminal
  <2>2. finishers'[s] = <<row[s].owner>>
    BY <1>4, <2>1
  <2> QED
    BY <1>1, <1>4, <2>2
<1> QED
  BY <1>1, <1>2, <1>3, <1>4 DEF FenceMove

(* How a worker comes to believe that it holds or has finished its row. *)
HoldMove(v) ==
    \/ pc'[v] \notin Holding \cup {"finalLog"}
    \/ /\ pc[v] \in Holding \cup {"finalLog"} /\ pc'[v] \in Holding \cup {"finalLog"}
       /\ sid'[v] = sid[v] /\ inc'[v] = inc[v]
       /\ \/ pc'[v] # "finalLog"
          \/ pc[v] = "finalLog"
          \/ OwnedBy(v, row[sid[v]]) /\ finishers'[sid[v]] = Append(finishers[sid[v]], Me(v))
    \/ /\ pc'[v] = "runLog" /\ sid'[v] = sid[v] /\ inc'[v] = inc[v]
       /\ grants'[sid[v]] = Append(grants[sid[v]], Me(v))

LEMMA HoldMoves ==
    ASSUME LeaseInv, [Next]_vars, NEW v \in Replicas
    PROVE  HoldMove(v)
<1>t. DbType /\ LoopType /\ StackType
  BY DEF LeaseInv, TypeOK
<1> USE <1>t DEF LoopType, HoldMove, Goto, workerVars, scanVars, Holding
<1>1. CASE Tick \/ (\E s \in Sessions : WriteTool(s)) \/ UNCHANGED vars
  BY <1>1 DEF Tick, WriteTool, vars
<1>2. ASSUME NEW w \in Replicas,
             \/ Wake(w) \/ ScanPending(w) \/ ScanStale(w) \/ ScanFails(w)
             \/ PassDone(w) \/ Restart(w)
      PROVE  HoldMove(v)
  BY <1>2 DEF Wake, ScanPending, ScanStale, ScanFails, PassDone, Restart
<1>3. ASSUME NEW w \in Replicas, NEW s \in Sessions, Take(w, s) PROVE HoldMove(v)
  BY <1>3 DEF Take
<1>4. ASSUME NEW w \in Replicas, ClaimRead(w) \/ RunLog(w) PROVE HoldMove(v)
  BY <1>4 DEF ClaimRead, RunLog, Release
<1>5. ASSUME NEW w \in Replicas, ClaimApply(w) PROVE HoldMove(v)
  BY <1>5 DEF ClaimApply, Granted, Release, DbType
<1>6. ASSUME NEW w \in Replicas, Gate(w) \/ Renew(w) PROVE HoldMove(v)
  BY <1>6 DEF Gate, Renew, StartWork
<1>7. ASSUME NEW w \in Replicas, Work(w) PROVE HoldMove(v)
  BY <1>7 DEF Work
<1>8. ASSUME NEW w \in Replicas, CompleteRead(w) \/ FinalLog(w) PROVE HoldMove(v)
  BY <1>8 DEF CompleteRead, FinalLog, Release
<1>9. ASSUME NEW w \in Replicas, CompleteApply(w) PROVE HoldMove(v)
  BY <1>9 DEF CompleteApply, Finished, CompleteIf, Release, DbType
<1>10. ASSUME NEW w \in Replicas, Crash(w) PROVE HoldMove(v)
  BY <1>10 DEF Crash
<1> QED
  BY <1>1, <1>2, <1>3, <1>4, <1>5, <1>6, <1>7, <1>8, <1>9, <1>10 DEF Next, WorkerStep

(* Nobody is removed from the grants of a row, or from its finishers. *)
LEMMA GrantKept ==
    ASSUME FenceInv, [Next]_vars, NEW s \in Sessions, NEW o,
           \E i \in 1..Len(grants[s]) : grants[s][i] = o
    PROVE  /\ \E i \in 1..Len(grants'[s]) : grants'[s][i] = o
           /\ finishers[s] = <<o>> => finishers'[s] = <<o>>
<1>1. /\ FenceMove(s) /\ grants[s] \in Seq(Owners) /\ CompletionFenced!(s)
  BY FenceMoves DEF FenceInv, LeaseInv, TypeOK, DbType, CompletionFenced
<1>2. ASSUME grants'[s] = grants[s]
      PROVE  \E i \in 1..Len(grants'[s]) : grants'[s][i] = o
  BY <1>2
<1>3. ASSUME \E x \in Owners : grants'[s] = Append(grants[s], x)
      PROVE  \E i \in 1..Len(grants'[s]) : grants'[s][i] = o
  <2>1. PICK x \in Owners : grants'[s] = Append(grants[s], x)
    BY <1>3
  <2>2. /\ Len(grants'[s]) = Len(grants[s]) + 1
        /\ \A i \in 1..Len(grants[s]) : grants'[s][i] = grants[s][i]
    BY <1>1, <2>1, GrowSeq
  <2>3. PICK i \in 1..Len(grants[s]) : grants[s][i] = o
    OBVIOUS
  <2>4. i \in 1..Len(grants'[s])
    BY <1>1, <2>2
  <2> QED
    BY <2>2, <2>3, <2>4
<1>4. finishers[s] = <<o>> => finishers'[s] = <<o>>
  <2>1. <<o>> # <<>>
    OBVIOUS
  <2> QED
    BY <1>1, <2>1 DEF FenceMove, Terminal
<1> QED
  BY <1>1, <1>2, <1>3, <1>4 DEF FenceMove

(* A worker that holds, or has finished, a row was granted it. *)
LEMMA LogInvStep == FenceInv /\ [Next]_vars => LogInv'
<1> SUFFICES ASSUME FenceInv, [Next]_vars, NEW v \in Replicas PROVE LogInv!(v)'
  BY DEF LogInv
<1>1. /\ HoldMove(v) /\ sid[v] \in Sessions /\ LogInv!(v) /\ CompletionFenced
      /\ grants[sid[v]] \in Seq(Owners) /\ Me(v) \in Owners
  BY HoldMoves, MeType DEF FenceInv, LeaseInv, TypeOK, LoopType, DbType, LogInv
<1>2. CASE pc'[v] \notin Holding \cup {"finalLog"}
  BY <1>2
<1>3. CASE /\ pc[v] \in Holding \cup {"finalLog"} /\ pc'[v] \in Holding \cup {"finalLog"}
           /\ sid'[v] = sid[v] /\ inc'[v] = inc[v]
           /\ \/ pc'[v] # "finalLog"
              \/ pc[v] = "finalLog"
              \/ OwnedBy(v, row[sid[v]]) /\ finishers'[sid[v]] = Append(finishers[sid[v]], Me(v))
  <2>1. Me(v)' = Me(v)
    BY <1>3 DEF Me
  <2>2. /\ \E i \in 1..Len(grants'[sid[v]]) : grants'[sid[v]][i] = Me(v)
        /\ finishers[sid[v]] = <<Me(v)>> => finishers'[sid[v]] = <<Me(v)>>
    BY <1>1, <1>3, GrantKept
  <2>3. OwnedBy(v, row[sid[v]]) => finishers[sid[v]] = <<>>
    BY <1>1 DEF OwnedBy, CompletionFenced, Terminal
  <2>4. pc'[v] = "finalLog" => finishers'[sid[v]] = <<Me(v)>>
    BY <1>1, <1>3, <2>2, <2>3
  <2> QED
    BY <1>3, <2>1, <2>2, <2>4
<1>4. CASE /\ pc'[v] = "runLog" /\ sid'[v] = sid[v] /\ inc'[v] = inc[v]
           /\ grants'[sid[v]] = Append(grants[sid[v]], Me(v))
  <2>1. Me(v)' = Me(v)
    BY <1>4 DEF Me
  <2>2. /\ Len(grants'[sid[v]]) = Len(grants[sid[v]]) + 1
        /\ grants'[sid[v]][Len(grants[sid[v]]) + 1] = Me(v)
    BY <1>1, <1>4, GrowSeq
  <2>3. \E i \in 1..Len(grants'[sid[v]]) : grants'[sid[v]][i] = Me(v)
    BY <1>1, <2>2
  <2> QED
    BY <1>4, <2>1, <2>3
<1> QED
  BY <1>1, <1>2, <1>3, <1>4 DEF HoldMove

(* A log entry is written by a worker at its log label, and kept. *)
LEMMA LoggedStep == FenceInv /\ [Next]_vars => RunLogBacked'
<1> SUFFICES ASSUME FenceInv, [Next]_vars, NEW s \in Sessions, NEW e \in runs'[s]
             PROVE  /\ e[2] = "finished" => finishers'[s] = <<e[1]>>
                    /\ \E i \in 1..Len(grants'[s]) : grants'[s][i] = e[1]
  BY DEF RunLogBacked
<1>t. DbType /\ LoopType
  BY DEF FenceInv, LeaseInv, TypeOK
<1> DEFINE Logged(w) ==
        /\ s = sid[w]
        /\ \/ e = <<Me(w), "running">> /\ pc[w] = "runLog"
           \/ e = <<Me(w), "finished">> /\ pc[w] = "finalLog"
<1>1. e \in runs[s] \/ \E w \in Replicas : Logged(w)
  <2>1. CASE UNCHANGED runs
    BY <2>1
  <2>2. ASSUME NEW w \in Replicas, RunLog(w)
        PROVE  e \in runs[s] \/ \E x \in Replicas : Logged(x)
    <3>1. \/ runs'[s] = runs[s]
          \/ s = sid[w] /\ runs'[s] = runs[s] \cup {<<Me(w), "running">>}
      BY <2>2, <1>t DEF RunLog, DbType, LoopType
    <3> QED
      BY <2>2, <3>1 DEF RunLog
  <2>3. ASSUME NEW w \in Replicas, FinalLog(w)
        PROVE  e \in runs[s] \/ \E x \in Replicas : Logged(x)
    <3>1. \/ runs'[s] = runs[s]
          \/ s = sid[w] /\ runs'[s] = runs[s] \cup {<<Me(w), "finished">>}
      BY <2>3, <1>t DEF FinalLog, DbType, LoopType
    <3> QED
      BY <2>3, <3>1 DEF FinalLog
  <2> QED
    BY <2>1, <2>2, <2>3 DEF Next, WorkerStep, Tick, WriteTool, Wake, ScanPending,
       ScanStale, ScanFails, Take, PassDone, ClaimRead, ClaimApply, Gate, Renew, Work,
       CompleteRead, CompleteApply, Restart, Crash, vars, dbVars
<1>2. /\ e[2] = "finished" => finishers[s] = <<e[1]>>
      /\ \E i \in 1..Len(grants[s]) : grants[s][i] = e[1]
  <2>1. CASE e \in runs[s]
    BY <2>1 DEF FenceInv, RunLogBacked
  <2>2. CASE \E w \in Replicas : Logged(w)
    <3>1. PICK w \in Replicas : Logged(w)
      BY <2>2
    <3>2. e[1] = Me(w) /\ (e[2] = "finished" => pc[w] = "finalLog")
          /\ pc[w] \in Holding \cup {"finalLog"}
      BY <3>1 DEF Holding
    <3> QED
      BY <3>1, <3>2 DEF FenceInv, LogInv
  <2> QED
    BY <1>1, <2>1, <2>2
<1> QED
  BY <1>2, GrantKept

(* The invariant of fencing holds in every reachable state. *)
THEOREM FenceInvariant == Spec => []FenceInv
<1>1. Init => CompletionFenced /\ LogInv /\ RunLogBacked
  BY DEF Init, CompletionFenced, LogInv, RunLogBacked, Terminal, NoRow, Row, Holding
<1>2. LeaseInv /\ CompletionFenced /\ LogInv /\ RunLogBacked <=> FenceInv
  BY DEF FenceInv
<1>3. FenceInv /\ [Next]_vars => CompletionFenced' /\ LogInv' /\ RunLogBacked'
  BY FencedStep, LogInvStep, LoggedStep
<1> QED
  BY <1>1, <1>2, <1>3, LeaseInvariant, PTL DEF Spec

(* A worker that lost its lease never completes or fails the row of the worker
   that took it over, and no row is finished twice. *)
THEOREM Fenced == Spec => []CompletionFenced
  BY FenceInvariant, PTL DEF FenceInv

(* The run log shows only runs that had the lease, and only completions that
   the database applied as finished. *)
THEOREM LogBacked == Spec => []RunLogBacked
  BY FenceInvariant, PTL DEF FenceInv

-----------------------------------------------------------------------------
(* The jobs the rows stand for. *)
jobs == [s \in Sessions |-> JobOf(s)]

(* A step that moves at most one row is at most one move of its job. *)
LEMMA JobStep ==
    ASSUME NEW s \in Sessions,
           \A x \in Sessions \ {s} : JobOf(x)' = JobOf(x),
           \/ JobOf(s)' = JobOf(s)
           \/ /\ JobOf(s) = Job!Fresh
              /\ JobOf(s)' = [phase |-> "open", holder |-> NoOwner, epoch |-> 0,
                              closer |-> NoOwner]
           \/ /\ JobOf(s).phase \in {"open", "held"}
              /\ \E h \in Owners :
                    JobOf(s)' = [phase |-> "held", holder |-> h,
                                 epoch |-> JobOf(s).epoch + 1, closer |-> NoOwner]
           \/ /\ JobOf(s).phase = "held"
              /\ JobOf(s)' = [phase |-> "closed", holder |-> NoOwner,
                              epoch |-> JobOf(s).epoch, closer |-> JobOf(s).holder]
    PROVE  [Job!Next]_jobs
<1>1. /\ jobs \in [Sessions -> {JobOf(x) : x \in Sessions}]
      /\ jobs[s] = JobOf(s) /\ jobs'[s] = JobOf(s)'
      /\ \A x \in Sessions : jobs[x] = JobOf(x) /\ jobs'[x] = JobOf(x)'
      /\ jobs' = [x \in Sessions |-> JobOf(x)']
      /\ jobs = [x \in Sessions |-> JobOf(x)]
  BY DEF jobs
<1>2. jobs' = [jobs EXCEPT ![s] = jobs'[s]]
  BY <1>1
<1>3. CASE JobOf(s)' = JobOf(s)
  BY <1>1, <1>3
<1>4. CASE /\ JobOf(s) = Job!Fresh
           /\ JobOf(s)' = [phase |-> "open", holder |-> NoOwner, epoch |-> 0,
                           closer |-> NoOwner]
  <2>1. Job!Open(s)
    BY <1>1, <1>2, <1>4 DEF Job!Open, Job!Only, Job!Fresh, jobs
  <2> QED
    BY <2>1 DEF Job!Next
<1>5. CASE /\ JobOf(s).phase \in {"open", "held"}
           /\ \E h \in Owners :
                 JobOf(s)' = [phase |-> "held", holder |-> h,
                              epoch |-> JobOf(s).epoch + 1, closer |-> NoOwner]
  <2>1. Job!Grant(s)
    BY <1>1, <1>2, <1>5 DEF Job!Grant, Job!Only, jobs
  <2> QED
    BY <2>1 DEF Job!Next
<1>6. CASE /\ JobOf(s).phase = "held"
           /\ JobOf(s)' = [phase |-> "closed", holder |-> NoOwner,
                           epoch |-> JobOf(s).epoch, closer |-> JobOf(s).holder]
  <2>1. Job!Close(s)
    BY <1>1, <1>2, <1>6 DEF Job!Close, Job!Only, jobs
  <2> QED
    BY <2>1 DEF Job!Next
<1> QED
  BY <1>3, <1>4, <1>5, <1>6

(* What the parts of a job are before and after its row moves. *)
LEMMA JobParts ==
    ASSUME NEW s \in Sessions
    PROVE  /\ JobOf(s).phase = JobPhase(row[s].state) /\ JobOf(s).holder = row[s].owner
           /\ JobOf(s).epoch = row[s].attempts
           /\ JobPhase("absent") = "none" /\ JobPhase("pending") = "open"
           /\ JobPhase("leased") = "held"
           /\ JobPhase("completed") = "closed" /\ JobPhase("failed") = "closed"
  BY DEF JobOf, JobPhase

(* Every step of the queue is a move of one job, or leaves all jobs alone. *)
LEMMA JobSimulated == FenceInv /\ [Next]_vars => [Job!Next]_jobs
<1> SUFFICES ASSUME FenceInv, [Next]_vars PROVE [Job!Next]_jobs
  OBVIOUS
<1>t. DbType /\ LoopType /\ StackType /\ LeaseInv
  BY DEF FenceInv, LeaseInv, TypeOK
<1>u. ASSUME UNCHANGED <<row, finishers>> PROVE [Job!Next]_jobs
  BY <1>u DEF jobs, JobOf
<1>f. \A s \in Sessions : ~Terminal(row[s]) => finishers[s] = <<>>
  BY DEF FenceInv, CompletionFenced
<1>1. ASSUME NEW s \in Sessions, WriteTool(s) PROVE [Job!Next]_jobs
  <2>1. \A x \in Sessions \ {s} : JobOf(x)' = JobOf(x)
    BY <1>1, <1>t DEF WriteTool, JobOf, DbType
  <2>2. CASE row'[s] = row[s]
    BY <1>1, <2>1, <2>2, JobStep DEF WriteTool, JobOf
  <2>3. CASE row[s].state = "absent" /\ row'[s] = Row("pending", NoOwner, 0, 0)
    <3>1. /\ finishers[s] = <<>> /\ finishers'[s] = <<>>
          /\ row[s].owner = NoOwner /\ row[s].attempts = 0
      BY <1>1, <1>f, <1>t, <2>3 DEF WriteTool, Terminal, LeaseInv, RowInv
    <3>2. JobOf(s) = Job!Fresh
      BY <2>3, <3>1 DEF JobOf, JobPhase, Job!Fresh
    <3>3. JobOf(s)' = [phase |-> "open", holder |-> NoOwner, epoch |-> 0,
                       closer |-> NoOwner]
      BY <2>3, <3>1 DEF JobOf, JobPhase, Row
    <3> QED
      BY <2>1, <3>2, <3>3, JobStep
  <2> QED
    BY <1>1, <1>t, <2>2, <2>3 DEF WriteTool, Upserted, DbType
<1>2. ASSUME NEW w \in Replicas, ClaimApply(w) PROVE [Job!Next]_jobs
  <2>1. CASE Granted(w)
    <3>1. /\ sid[w] \in Sessions /\ pc[w] = "claimApply" /\ Me(w) \in Owners
          /\ finishers' = finishers
      BY <1>2, <1>t, MeType DEF ClaimApply, LoopType
    <3>2. /\ row' = [row EXCEPT ![sid[w]] = ClaimRow(w)]
          /\ row[sid[w]].state \in {"pending", "leased"}
          /\ snap[w].attempts = row[sid[w]].attempts
      BY <2>1, <3>1, <1>t, GrantFacts
    <3>3. /\ \A x \in Sessions \ {sid[w]} : row'[x] = row[x]
          /\ row'[sid[w]] = ClaimRow(w)
      BY <3>1, <3>2, <1>t DEF DbType
    <3>4. finishers[sid[w]] = <<>>
      BY <1>f, <3>1, <3>2 DEF Terminal
    <3> PICK s \in Sessions : s = sid[w]
      BY <3>1
    <3>5. JobOf(s)' = [phase |-> "held", holder |-> Me(w),
                       epoch |-> JobOf(s).epoch + 1, closer |-> NoOwner]
      BY <3>1, <3>2, <3>3, <3>4 DEF JobOf, JobPhase, ClaimRow, Row
    <3>6. JobOf(s).phase \in {"open", "held"}
      BY <3>1, <3>2, JobParts
    <3>7. \A x \in Sessions \ {s} : JobOf(x)' = JobOf(x)
      BY <3>1, <3>3 DEF JobOf
    <3>8. \E h \in Owners : JobOf(s)' = [phase |-> "held", holder |-> h,
                                epoch |-> JobOf(s).epoch + 1, closer |-> NoOwner]
      BY <3>1, <3>5
    <3> QED
      BY <3>6, <3>7, <3>8, JobStep
  <2> QED
    BY <1>2, <1>u, <2>1 DEF ClaimApply
<1>3. ASSUME NEW w \in Replicas, Renew(w) PROVE [Job!Next]_jobs
  <2>1. \A x \in Sessions : row'[x] = row[x] \/ row'[x] = RenewedRow(w, row[x])
    BY <1>3, <1>t DEF Renew, DbType
  <2>2. ASSUME NEW x \in Sessions PROVE JobOf(x)' = JobOf(x)
    <3>1. /\ row'[x].state = row[x].state /\ row'[x].owner = row[x].owner
          /\ row'[x].attempts = row[x].attempts
      <4>1. CASE row'[x] = row[x]
        BY <4>1
      <4>2. CASE row'[x] = RenewedRow(w, row[x])
        BY <4>2 DEF RenewedRow, Row
      <4> QED
        BY <2>1, <4>1, <4>2
    <3> QED
      BY <1>3, <3>1 DEF Renew, JobOf
  <2>3. \A x \in Sessions : JobOf(x)' = JobOf(x)
    BY <2>2
  <2> QED
    BY <2>3 DEF jobs
<1>4. ASSUME NEW w \in Replicas, CompleteApply(w) PROVE [Job!Next]_jobs
  <2>1. CASE Finished(w)
    <3>1. /\ sid[w] \in Sessions /\ OwnedBy(w, row[sid[w]]) /\ Me(w) \in Owners
          /\ row' = [row EXCEPT ![sid[w]] = FinishedRow(w, row[sid[w]])]
          /\ finishers' = [finishers EXCEPT ![sid[w]] = Append(finishers[sid[w]], Me(w))]
      BY <2>1, <1>t, MeType DEF Finished, CompleteIf, LoopType
    <3>2. /\ \A x \in Sessions \ {sid[w]} :
                 row'[x] = row[x] /\ finishers'[x] = finishers[x]
          /\ row'[sid[w]] = FinishedRow(w, row[sid[w]])
          /\ finishers'[sid[w]] = Append(finishers[sid[w]], Me(w))
      BY <3>1, <1>t DEF DbType
    <3>3. finishers[sid[w]] = <<>>
      BY <1>f, <3>1 DEF Terminal, OwnedBy
    <3>4. finishers'[sid[w]] # <<>> /\ finishers'[sid[w]][1] = Me(w)
      BY <3>1, <3>2, <3>3
    <3>5. /\ row'[sid[w]].state \in {"completed", "failed"}
          /\ row'[sid[w]].owner = NoOwner
          /\ row'[sid[w]].attempts = row[sid[w]].attempts
      BY <3>2 DEF FinishedRow, Row
    <3> PICK s \in Sessions : s = sid[w]
      BY <3>1
    <3>6. JobOf(s)' = [phase |-> "closed", holder |-> NoOwner,
                       epoch |-> JobOf(s).epoch, closer |-> JobOf(s).holder]
      BY <3>1, <3>4, <3>5 DEF JobOf, JobPhase, OwnedBy
    <3>7. JobOf(s).phase = "held"
      BY <3>1, JobParts DEF OwnedBy
    <3>8. \A x \in Sessions \ {s} : JobOf(x)' = JobOf(x)
      BY <3>2 DEF JobOf
    <3> QED
      BY <3>6, <3>7, <3>8, JobStep
  <2> QED
    BY <1>4, <1>u, <2>1 DEF CompleteApply
<1>5. ASSUME NEW w \in Replicas,
             \/ Wake(w) \/ ScanPending(w) \/ ScanStale(w) \/ ScanFails(w)
             \/ (\E x \in Sessions : Take(w, x))
             \/ PassDone(w) \/ ClaimRead(w) \/ RunLog(w) \/ Gate(w) \/ Work(w)
             \/ CompleteRead(w) \/ FinalLog(w) \/ Restart(w) \/ Crash(w)
      PROVE  [Job!Next]_jobs
  BY <1>u, <1>5 DEF Wake, ScanPending, ScanStale, ScanFails, Take, PassDone, ClaimRead,
       RunLog, Gate, Work, CompleteRead, FinalLog, Restart, Crash, dbVars
<1>6. CASE Tick \/ UNCHANGED vars
  BY <1>u, <1>6 DEF Tick, vars, dbVars
<1> QED
  BY <1>1, <1>2, <1>3, <1>4, <1>5, <1>6 DEF Next, WorkerStep

(* The queue with its workers, crashes and lost replies implements LeasedJob:
   every grant has the next epoch, every job is closed once, by its holder. *)
THEOREM Refinement == Spec => ImplementsLeasedJob
<1>1. Init => Job!Init
  BY DEF Init, Job!Init, Job!Fresh, JobOf, JobPhase, NoRow, Row
<1>2. FenceInv /\ [Next]_vars => [Job!Next]_jobs
  BY JobSimulated
<1> QED
  BY <1>1, <1>2, FenceInvariant, PTL DEF Spec, ImplementsLeasedJob, Job!Spec, jobs

-----------------------------------------------------------------------------
(* A lease is never shorter than the one its run was granted: while a worker
   believes it holds a session, the row has moved on past "pending" and, if it
   is leased, to whomever, it is leased for at least that long. *)
HeldInv ==
    \A w \in Replicas : pc[w] \in Holding =>
        /\ row[sid[w]].state \notin {"absent", "pending"}
        /\ row[sid[w]].state = "leased" => taken[w] + LeaseSecs <= row[sid[w]].expires

(* How a worker comes to hold: by the grant of its own claim, and alone. *)
RunMove(v) ==
    \/ pc'[v] \notin Holding
    \/ pc[v] \in Holding /\ sid'[v] = sid[v] /\ taken'[v] = taken[v]
    \/ /\ pc[v] = "claimApply" /\ Granted(v)
       /\ sid'[v] = sid[v] /\ taken'[v] = taken[v]
       /\ \A u \in Replicas \ {v} : pc'[u] = pc[u]

LEMMA RunMoves ==
    ASSUME LeaseInv, [Next]_vars, NEW v \in Replicas
    PROVE  RunMove(v)
<1>t. DbType /\ LoopType /\ StackType
  BY DEF LeaseInv, TypeOK
<1> USE <1>t DEF LoopType, StackType, RunMove, Goto, workerVars, scanVars, Holding
<1>1. CASE Tick
  BY <1>1 DEF Tick
<1>2. CASE (\E s \in Sessions : WriteTool(s)) \/ UNCHANGED vars
  BY <1>2 DEF WriteTool, vars
<1>3. ASSUME NEW w \in Replicas,
             \/ Wake(w) \/ ScanPending(w) \/ ScanStale(w) \/ ScanFails(w)
             \/ PassDone(w) \/ Restart(w)
      PROVE  RunMove(v)
  BY <1>3 DEF Wake, ScanPending, ScanStale, ScanFails, PassDone, Restart
<1>4. ASSUME NEW w \in Replicas, NEW s \in Sessions, Take(w, s) PROVE RunMove(v)
  BY <1>4 DEF Take
<1>5. ASSUME NEW w \in Replicas, ClaimRead(w) \/ RunLog(w) PROVE RunMove(v)
  BY <1>5 DEF ClaimRead, RunLog, Release
<1>6. ASSUME NEW w \in Replicas, ClaimApply(w) PROVE RunMove(v)
  BY <1>6 DEF ClaimApply, Release
<1>7. ASSUME NEW w \in Replicas, Gate(w) \/ Renew(w) PROVE RunMove(v)
  BY <1>7 DEF Gate, Renew, StartWork
<1>8. ASSUME NEW w \in Replicas, Work(w) PROVE RunMove(v)
  BY <1>8 DEF Work
<1>9. ASSUME NEW w \in Replicas, CompleteRead(w) \/ CompleteApply(w) \/ FinalLog(w)
      PROVE  RunMove(v)
  BY <1>9 DEF CompleteRead, CompleteApply, FinalLog, Release
<1>10. ASSUME NEW w \in Replicas, Crash(w) PROVE RunMove(v)
  BY <1>10 DEF Crash
<1> QED
  BY <1>1, <1>2, <1>3, <1>4, <1>5, <1>6, <1>7, <1>8, <1>9, <1>10 DEF Next, WorkerStep

LEMMA HeldInvStep == LeaseInv /\ HeldInv /\ [Next]_vars => HeldInv'
<1> SUFFICES ASSUME LeaseInv, HeldInv, [Next]_vars, NEW v \in Replicas, pc'[v] \in Holding
             PROVE  HeldInv!(v)'
  BY DEF HeldInv
<1>t. DbType /\ LoopType /\ StackType /\ DbType'
  BY DbStep DEF LeaseInv, TypeOK
<1>s. /\ sid[v] \in Sessions /\ row[sid[v]].expires \in Nat /\ row'[sid[v]].expires \in Nat
      /\ taken[v] \in Nat /\ row[sid[v]].state \in ReqStates
  BY <1>t, RowParts DEF LoopType, DbType, StackType, Rows
<1>1. CASE pc[v] \in Holding /\ sid'[v] = sid[v] /\ taken'[v] = taken[v]
  <2>1. /\ row[sid[v]].state \notin {"absent", "pending"}
        /\ row[sid[v]].state = "leased" => taken[v] + LeaseSecs <= row[sid[v]].expires
    BY <1>1 DEF HeldInv
  <2>2. /\ row'[sid[v]].state \notin {"absent", "pending"}
        /\ (row[sid[v]].state = "leased" /\ row'[sid[v]].state = "leased")
              => row[sid[v]].expires <= row'[sid[v]].expires
        /\ Terminal(row[sid[v]]) => row'[sid[v]] = row[sid[v]]
    BY <1>s, <2>1, RowMoves DEF RowMove
  <2>3. row'[sid[v]].state = "leased" => row[sid[v]].state = "leased"
    BY <1>s, <2>1, <2>2 DEF Terminal, ReqStates
  <2> QED
    BY <1>1, <1>s, <2>1, <2>2, <2>3, ConsAssumption
<1>2. CASE pc[v] = "claimApply" /\ Granted(v) /\ sid'[v] = sid[v] /\ taken'[v] = taken[v]
  <2>1. row'[sid[v]] = ClaimRow(v)
    BY <1>2, <1>s, <1>t, GrantFacts DEF DbType
  <2>2. exp[v] = taken[v] + LeaseSecs
    BY <1>2 DEF LeaseInv, LeaseEndInv
  <2> QED
    BY <1>2, <1>s, <2>1, <2>2, ConsAssumption DEF ClaimRow, Row
<1> QED
  BY <1>1, <1>2, RunMoves DEF RunMove

(* The claim that makes two of them found the row leased, and over. *)
LEMMA OverlapStep == LeaseInv /\ HeldInv /\ OneConsolidator /\ [Next]_vars => OneConsolidator'
<1> SUFFICES ASSUME LeaseInv, HeldInv, OneConsolidator, [Next]_vars,
                    NEW v \in Replicas, NEW w \in Replicas, v # w,
                    pc'[v] \in Holding, pc'[w] \in Holding, sid'[v] = sid'[w]
             PROVE  Outlasted(v, w)' \/ Outlasted(w, v)'
  BY DEF OneConsolidator
<1> DEFINE Kept(x)  == pc[x] \in Holding /\ sid'[x] = sid[x] /\ taken'[x] = taken[x]
           Fresh(x) == /\ pc[x] = "claimApply" /\ Granted(x)
                       /\ sid'[x] = sid[x] /\ taken'[x] = taken[x]
                       /\ \A u \in Replicas \ {x} : pc'[u] = pc[u]
<1>t. DbType /\ LoopType /\ StackType
  BY DEF LeaseInv, TypeOK
<1>1. \A x \in {v, w} : Kept(x) \/ Fresh(x)
  BY RunMoves DEF RunMove
<1>2. CASE Kept(v) /\ Kept(w)
  BY <1>2 DEF OneConsolidator, Outlasted
<1>3. ASSUME NEW x \in {v, w}, NEW y \in {v, w}, x # y, Fresh(x)
      PROVE  Outlasted(y, x)'
  <2>1. Kept(y)
    BY <1>1, <1>3 DEF Holding
  <2>2. row[sid[x]].state = "leased" /\ taken[y] + LeaseSecs <= row[sid[x]].expires
    <3>1. row[sid[x]].state \in {"pending", "leased"}
      BY <1>3, GrantFacts
    <3>2. sid[y] = sid[x]
      BY <1>3, <2>1
    <3> QED BY <2>1, <3>1, <3>2 DEF HeldInv
  <2>3. row[sid[x]].expires <= taken[x]
    BY <1>3, <2>2, GrantFacts
  <2>4. taken[x] \in Nat /\ taken[y] \in Nat /\ row[sid[x]].expires \in Nat
    BY <1>t, RowParts DEF LoopType, DbType, StackType
  <2> QED
    BY <1>3, <2>1, <2>2, <2>3, <2>4, ConsAssumption DEF Outlasted
<1> QED
  BY <1>1, <1>2, <1>3

(* "Exactly one replica consolidates a given (tenant, session) at a time", but
   for runs that outlast the lease they were granted: for every number of
   replicas and sessions, every skew of their clocks and however long a phase
   takes, whatever crashes, replies lost and renewals failed. *)
THEOREM OneAtATime == Spec => []OneConsolidator
<1>1. Init => HeldInv /\ OneConsolidator
  BY DEF Init, HeldInv, OneConsolidator, Holding
<1>2. LeaseInv /\ HeldInv /\ OneConsolidator /\ [Next]_vars => HeldInv' /\ OneConsolidator'
  BY HeldInvStep, OverlapStep
<1> QED
  BY <1>1, <1>2, LeaseInvariant, PTL DEF Spec

=============================================================================
