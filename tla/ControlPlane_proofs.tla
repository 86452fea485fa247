--------------------------- MODULE ControlPlane_proofs ---------------------------
(***************************************************************************)
(* Proofs about ControlPlane, for any number of sessions, commands, notes, *)
(* devices, faults and any size of the cursor space.                       *)
(***************************************************************************)
EXTENDS ControlPlane, FiniteSetTheorems, WellFoundedInduction, TLAPS

(* Which task may be where, and with which command. *)
AtCommand == {"launch", "respawn", "readRow", "applyRow", "note", "wait", "capture"}

TaskAt(w) ==
    /\ pc[w] \in AtCommand => cmd[w] \in Commands
    /\ want[w] # "heartbeat" => cmd[w] \in Commands
    /\ pc[w] = "idle" => cmd[w] = NoCmd
    /\ pc[w] \in {"readRow", "applyRow"} => want[w] \in {"running", "succeeded", "failed"}
    /\ pc[w] \in {"launch", "respawn"} => want[w] = "accepted"

(* The task of a command is started by the session that launched it: it serves
   no other command and launches nothing. *)
WaiterAt(c) ==
    /\ cmd[c] \in {NoCmd, c}
    /\ pc[c] \notin {"launch", "respawn", "note"}
    /\ want[c] \in {"heartbeat", "succeeded", "failed"}

TaskInv ==
    /\ \A w \in Writers : TaskAt(w)
    /\ \A c \in Commands : WaiterAt(c)

(* A command is in the hands of one task. *)
OneTask ==
    \A v, w \in Writers : cmd[v] \in Commands /\ cmd[v] = cmd[w] => v = w

(* Nothing above the high water was handed out; a task that is about to reserve
   has not reserved since it read, and one whose answer was lost and whose token
   is still there has a block that nobody was given. *)
CursorInv ==
    /\ \A k \in 1..MaxCursor : k > hw => handed[k] = 0
    /\ \A w \in Writers :
          /\ pc[w] \in {"applyCursor", "checkCursor"} => base[w] <= hw
          /\ pc[w] = "applyCursor" /\ token = w => hw = base[w]
          /\ pc[w] = "checkCursor" /\ OwnBlock(w) =>
                \A k \in 1..MaxCursor : k > base[w] => handed[k] = 0

(* Whatever is in hand or was started has its row; what is accepted and not yet
   launched was not started before. *)
RunInv ==
    /\ \A w \in Writers : cmd[w] \in Commands => rows[cmd[w]].state # "absent"
    /\ \A j \in 1..Len(turns) : rows[turns[j]].state # "absent"
    /\ \A w \in Writers : want[w] = "accepted" =>
          \A j \in 1..Len(turns) : turns[j] # cmd[w]

-----------------------------------------------------------------------------
(* TypeOK in two parts: the locals of the tasks, and everything else. *)
TaskType ==
    /\ pc \in [Writers -> Labels]
    /\ cmd \in [Writers -> Commands \cup {NoCmd}]
    /\ want \in [Writers -> Wants]
    /\ base \in [Writers -> Nat]
    /\ cur \in [Writers -> Nat]
    /\ seen \in [Writers -> CmdStates]

(* What a task does with its own locals at the end of a step keeps their types. *)
LEMMA EndType ==
    ASSUME TaskType, NEW w \in Writers, End(w) PROVE TaskType'
  BY DEF TaskType, End, Goto, Labels, Wants, CmdStates

LEMMA RecordType ==
    ASSUME TaskType, NEW w \in Writers, NEW x \in Wants, Record(w, x) PROVE TaskType'
  BY DEF TaskType, Record, Goto, Labels

LEMMA SetRowType ==
    ASSUME TaskType, NEW w \in Writers, NEW x \in Wants, SetRow(w, x) PROVE TaskType'
  BY DEF TaskType, SetRow, Goto, Labels

LEMMA GotoType ==
    ASSUME TaskType, NEW w \in Writers, NEW l \in Labels, Goto(w, l),
           UNCHANGED <<cmd, want, base, cur, seen>>
    PROVE  TaskType'
  BY DEF TaskType, Goto

LEMMA GotType ==
    ASSUME TaskType, NEW w \in Writers, Got(w) PROVE TaskType'
  BY DEF TaskType, Got, Goto, Labels

LEMMA SpawnType ==
    ASSUME TaskType, NEW w \in Writers, cmd[w] \in Commands, SpawnWaiter(w) PROVE TaskType'
<1>1. PICK c \in Commands : c = cmd[w]
  OBVIOUS
<1>2. c \in Writers
  BY DEF Writers
<1>3. /\ pc' = [[pc EXCEPT ![w] = "idle"] EXCEPT ![c] = "wait"]
      /\ cmd' = [[cmd EXCEPT ![w] = NoCmd] EXCEPT ![c] = c]
      /\ want' = [want EXCEPT ![w] = "heartbeat"]
      /\ base' = [base EXCEPT ![w] = 0]
      /\ cur' = [cur EXCEPT ![w] = 0]
      /\ seen' = [seen EXCEPT ![w] = "absent"]
  BY <1>1, Zenon DEF SpawnWaiter
<1> QED
  BY <1>2, <1>3 DEF TaskType, Labels, Wants, CmdStates

LEMMA UpdatedType ==
    ASSUME TaskType, NEW w \in Writers, cmd[w] \in Commands, Updated(w) PROVE TaskType'
<1>1. CASE want[w] # "running"
  BY <1>1, EndType DEF Updated, Agent
<1>2. CASE want[w] = "running" /\ Agent(cmd[w])
  BY <1>2, SpawnType DEF Updated, Agent
<1>3. CASE want[w] = "running" /\ ~Agent(cmd[w])
  BY <1>3, GotoType DEF Updated, Labels, Agent
<1> QED
  BY <1>1, <1>2, <1>3

LEMMA RecordedType ==
    ASSUME TaskType, NEW w \in Writers, Recorded(w) PROVE TaskType'
<1>1. CASE want[w] = "accepted"
  BY <1>1, GotoType DEF Recorded, Labels
<1>2. CASE want[w] = "heartbeat"
  BY <1>2, EndType DEF Recorded
<1>3. CASE want[w] \notin {"accepted", "heartbeat"}
  <2>1. SetRow(w, want[w]) /\ want[w] \in Wants
    BY <1>3 DEF Recorded, TaskType
  <2> QED
    BY <2>1, SetRowType
<1> QED
  BY <1>1, <1>2, <1>3

LEMMA AcceptedType ==
    ASSUME TaskType, NEW w \in Writers, NEW c \in Commands, Accepted(w, c) PROVE TaskType'
  BY DEF TaskType, Accepted, Goto, Labels, Wants

-----------------------------------------------------------------------------
(* Types *)

StoreType ==
    /\ hw \in Nat /\ token \in Writers \cup {NoCmd}
    /\ events \in [1..MaxCursor -> Events \cup {NoEvent}]
    /\ rows \in [Commands -> Rows]
    /\ handed \in [1..MaxCursor -> Nat]
    /\ faults \in Nat

OtherType ==
    /\ pane \in [st: {"none", "shell", "codex", "dead"}, completed: BOOLEAN, error: BOOLEAN]
    /\ noteNext \in [Notes -> Nat]
    /\ resume \in [Devices -> Nat] /\ page \in [Devices -> Nat]
    /\ delivered \in [Devices -> SUBSET (1..MaxCursor)]
    /\ turns \in Seq(Commands)

LEMMA TypeParts == TypeOK <=> TaskType /\ StoreType /\ OtherType
  BY Zenon DEF TypeOK, TaskType, StoreType, OtherType

LEMMA TypePartsNext == TaskType' /\ StoreType' /\ OtherType' => TypeOK'
  BY Zenon DEF TypeOK, TaskType, StoreType, OtherType

(* A set of cursors that is not empty has a first and a last element. *)
LEMMA SmallestCursor ==
    ASSUME NEW N \in Nat, NEW S \in SUBSET (1..N), S # {}
    PROVE  \E m \in S : \A j \in S : m <= j
<1> DEFINE R == {ss \in Nat \X Nat : ss[1] < ss[2]}
<1>1. IsWellFoundedOn(R, Nat)
  BY NatLessThanWellFounded DEF OpToRel
<1>2. S \subseteq Nat
  OBVIOUS
<1>3. \E m \in S : \A j \in S : ~(<<j, m>> \in R)
  <2> HIDE DEF R
  <2> QED
    BY <1>1, <1>2, WFMin
<1>4. PICK m \in S : \A j \in S : ~(<<j, m>> \in R)
  BY <1>3
<1>5. ASSUME NEW j \in S PROVE m <= j
  <2>1. j \in Nat /\ m \in Nat /\ <<j, m>> \in Nat \X Nat
    BY <1>2
  <2>2. ~(j < m)
    BY <1>4, <2>1
  <2> QED
    BY <2>1, <2>2
<1> QED
  BY <1>5

LEMMA LargestCursor ==
    ASSUME NEW N \in Nat, NEW S \in SUBSET (1..N), S # {}
    PROVE  \E m \in S : \A j \in S : j <= m
<1> DEFINE T == {(N + 1) - k : k \in S}
<1>1. T \in SUBSET (1..N) /\ T # {}
  <2>1. \A k \in S : k \in 1..N /\ (N + 1) - k \in 1..N
    OBVIOUS
  <2>2. T # {}
    OBVIOUS
  <2>3. T \subseteq 1..N
    BY <2>1
  <2> QED
    BY <2>2, <2>3
<1>2. PICK t \in T : \A j \in T : t <= j
  <2> HIDE DEF T
  <2> QED
    BY <1>1, SmallestCursor
<1>3. PICK m \in S : t = (N + 1) - m
  OBVIOUS
<1>4. ASSUME NEW j \in S PROVE j <= m
  <2>1. t <= (N + 1) - j
    BY <1>2
  <2> QED
    BY <1>3, <2>1
<1> QED
  BY <1>4

(* The faults only grow. *)
LEMMA FaultType ==
    ASSUME faults \in Nat, NoFault \/ Fault PROVE faults' \in Nat
  BY DEF NoFault, Fault

LEMMA FaultUnlessType ==
    ASSUME NEW p, FaultUnless(p) PROVE NoFault \/ Fault
  BY DEF FaultUnless

LEMMA GotHanded ==
    ASSUME StoreType, NEW w \in Writers, Got(w) PROVE handed' \in [1..MaxCursor -> Nat]
  BY DEF StoreType, Got

LEMMA NewRowType ==
    ASSUME TaskType, NEW w \in Writers, want[w] \in {"running", "succeeded", "failed"}
    PROVE  NewRow(w) \in Rows
  BY DEF TaskType, NewRow, Rows, CmdStates

(* What is left of a page after the cut: a page that is cut keeps its first
   element, so its last element is a cursor, and it keeps all up to that. *)
LEMMA CutPage ==
    ASSUME NEW N \in Nat, NEW R \in SUBSET (1..N), NEW n \in Nat,
           n = 0 => R = {}, FirstOf(R, n) # R
    PROVE  /\ LastOf(FirstOf(R, n)) \in FirstOf(R, n)
           /\ \A k \in R : k <= LastOf(FirstOf(R, n)) => k \in FirstOf(R, n)
<1> DEFINE sent == FirstOf(R, n)
           UpTo(k) == {j \in R : j <= k}
<1>0. \A j \in R : j \in Nat
  OBVIOUS
<1>1. n # 0 /\ R # {} /\ sent \subseteq R
  BY DEF FirstOf
<1>2. PICK m \in R : \A j \in R : m <= j
  BY <1>1, SmallestCursor
<1>3. UpTo(m) = {m}
  <2>1. \A j \in R : j <= m => j = m
    BY <1>0, <1>2
  <2>2. m <= m
    BY <1>0
  <2> QED
    BY <2>1, <2>2
<1>4. m \in sent
  <2>1. Cardinality({m}) <= n
    <3>1. Cardinality({m}) = 1
      BY FS_Singleton
    <3>2. 1 <= n
      BY <1>1
    <3> QED
      BY <3>1, <3>2
  <2>2. Cardinality(UpTo(m)) <= n
    <3> HIDE DEF UpTo
    <3> QED
      BY <1>3, <2>1
  <2> QED
    BY <2>2 DEF FirstOf
<1>5. PICK k \in sent : \A j \in sent : j <= k
  <2>1. sent \in SUBSET (1..N) /\ sent # {}
    BY <1>1, <1>4
  <2> HIDE DEF sent
  <2> QED
    BY <2>1, LargestCursor
<1>6. LastOf(sent) \in sent
  <2> HIDE DEF sent
  <2> QED
    BY <1>5 DEF LastOf
<1>7. ASSUME NEW i \in R, NEW j \in R, i <= j, j \in sent PROVE i \in sent
  <2>1. IsFiniteSet(1..N)
    BY FS_Interval
  <2>2. IsFiniteSet(UpTo(j))
    <3>1. UpTo(j) \subseteq 1..N
      OBVIOUS
    <3> QED
      BY <2>1, <3>1, FS_Subset
  <2>3. UpTo(i) \subseteq UpTo(j)
    <3>1. \A l \in R : l <= i => l <= j
      BY <1>0, <1>7
    <3> QED
      BY <3>1
  <2>4. /\ Cardinality(UpTo(i)) <= Cardinality(UpTo(j))
        /\ Cardinality(UpTo(i)) \in Nat /\ Cardinality(UpTo(j)) \in Nat
    <3> HIDE DEF UpTo
    <3> QED
      BY <2>2, <2>3, FS_Subset, FS_CardinalityType
  <2>5. Cardinality(UpTo(j)) <= n
    BY <1>7 DEF FirstOf
  <2>6. Cardinality(UpTo(i)) <= n
    <3> HIDE DEF UpTo
    <3> QED
      BY <2>4, <2>5
  <2> QED
    BY <2>6 DEF FirstOf
<1> QED
  <2> HIDE DEF sent
  <2>1. \A i \in R : i <= LastOf(sent) => i \in sent
    BY <1>1, <1>6, <1>7
  <2> QED
    BY <1>6, <2>1 DEF sent

LEMMA CutEnd ==
    ASSUME OtherType, NEW d \in Devices, page[d] # 0, NEW n \in 0..PageLimit,
           n = 0 => Replay(d) = {}
    PROVE  BatchEnd(d, FirstOf(Replay(d), n)) \in Nat
<1> USE CPAssumption
<1>0. Replay(d) \in SUBSET (1..MaxCursor) /\ n \in Nat
  BY DEF Replay
<1>1. CASE FirstOf(Replay(d), n) = Replay(d)
  BY <1>1 DEF BatchEnd, OtherType
<1>2. CASE FirstOf(Replay(d), n) # Replay(d)
  <2>1. LastOf(FirstOf(Replay(d), n)) \in FirstOf(Replay(d), n)
    BY <1>0, <1>2, CutPage
  <2>2. FirstOf(Replay(d), n) \subseteq Nat
    BY <1>0 DEF FirstOf
  <2> QED
    BY <1>2, <2>1, <2>2 DEF BatchEnd
<1> QED
  BY <1>1, <1>2

Panes == [st: {"none", "shell", "codex", "dead"}, completed: BOOLEAN, error: BOOLEAN]

LEMMA PaneType ==
    ASSUME NEW s \in {"none", "shell", "codex", "dead"}, NEW c \in BOOLEAN, NEW e \in BOOLEAN
    PROVE  [st |-> s, completed |-> c, error |-> e] \in Panes
  BY DEF Panes

LEMMA FreshPane == [NoPane EXCEPT !.st = "shell"] \in Panes
<1>1. NoPane \in Panes
  BY PaneType DEF NoPane
<1> QED
  BY <1>1 DEF Panes

(* The types are kept by every step. *)
LEMMA TypeStep ==
    ASSUME TypeOK, TaskInv, [Next]_vars PROVE TypeOK'
<1> USE CPAssumption
<1>0. TaskType /\ StoreType /\ OtherType
  BY TypeParts
<1>a. ASSUME UNCHANGED <<deviceVars, agentVars, noteNext>> PROVE OtherType'
  BY <1>0, <1>a DEF OtherType, deviceVars, agentVars
<1>b. ASSUME UNCHANGED storeVars, UNCHANGED handed, NoFault \/ Fault PROVE StoreType'
  BY <1>0, <1>b, FaultType DEF StoreType, storeVars
<1>1. ASSUME NEW w \in Writers, ReadCursor(w) PROVE TaskType' /\ StoreType' /\ OtherType'
  <2>1. StoreType' /\ OtherType'
    BY <1>1, <1>a, <1>b, FaultUnlessType DEF ReadCursor
  <2>2. CASE End(w)
    BY <2>1, <2>2, <1>0, EndType
  <2>3. CASE /\ base' = [base EXCEPT ![w] = hw]
             /\ Goto(w, "applyCursor")
             /\ UNCHANGED <<cmd, want, cur, seen>>
    BY <2>1, <2>3, <1>0 DEF TaskType, StoreType, Goto, Labels
  <2> QED
    BY <1>1, <2>2, <2>3 DEF ReadCursor
<1>2. ASSUME NEW w \in Writers, ApplyCursor(w) PROVE TaskType' /\ StoreType' /\ OtherType'
  <2>1. OtherType'
    BY <1>2, <1>a DEF ApplyCursor
  <2>2. TaskType'
    <3>1. CASE Got(w)
      BY <3>1, <1>0, GotType
    <3>2. CASE Unanswered(w)
      BY <3>2, <1>0, EndType, GotoType DEF Unanswered, Labels
    <3>3. CASE Retry(w)
      BY <3>3, <1>0, EndType, GotoType DEF Retry, Labels
    <3> QED
      BY <3>1, <3>2, <3>3, <1>2 DEF ApplyCursor
  <2>3. hw' \in Nat /\ token' \in Writers \cup {NoCmd}
    BY <1>0, <1>2 DEF ApplyCursor, Reserve, Size, StoreType, TaskType
  <2>4. handed' \in [1..MaxCursor -> Nat]
    BY <1>0, <1>2, GotHanded DEF ApplyCursor, StoreType
  <2>5. faults' \in Nat /\ UNCHANGED <<events, rows>>
    BY <1>0, <1>2, FaultType DEF ApplyCursor, StoreType
  <2> QED
    BY <1>0, <2>1, <2>2, <2>3, <2>4, <2>5 DEF StoreType
<1>3. ASSUME NEW w \in Writers, CheckCursor(w) PROVE TaskType' /\ StoreType' /\ OtherType'
  <2>1. OtherType'
    BY <1>3, <1>a DEF CheckCursor
  <2>2. TaskType'
    <3>1. CASE Got(w)
      BY <3>1, <1>0, GotType
    <3>2. CASE End(w)
      BY <3>2, <1>0, EndType
    <3>3. CASE Retry(w)
      BY <3>3, <1>0, EndType, GotoType DEF Retry, Labels
    <3> QED
      BY <3>1, <3>2, <3>3, <1>3 DEF CheckCursor
  <2>4. handed' \in [1..MaxCursor -> Nat]
    BY <1>0, <1>3, GotHanded DEF CheckCursor, StoreType
  <2>5. faults' \in Nat /\ UNCHANGED <<hw, token, events, rows>>
    BY <1>0, <1>3, FaultType DEF CheckCursor, StoreType, storeVars
  <2> QED
    BY <1>0, <2>1, <2>2, <2>4, <2>5 DEF StoreType
<1>4. ASSUME NEW w \in Writers, AppendEvent(w) PROVE TaskType' /\ StoreType' /\ OtherType'
  <2>1. OtherType'
    BY <1>4, <1>a DEF AppendEvent
  <2>2. TaskType'
    BY <1>0, <1>4, EndType, RecordedType DEF AppendEvent
  <2>3. [cmd |-> cmd[w], kind |-> want[w]] \in Events
    BY <1>0 DEF TaskType, Events
  <2>4. events' \in [1..MaxCursor -> Events \cup {NoEvent}]
    BY <1>0, <1>4, <2>3 DEF AppendEvent, StoreType
  <2>5. faults' \in Nat /\ UNCHANGED <<hw, token, rows, handed>>
    BY <1>0, <1>4, FaultType, FaultUnlessType DEF AppendEvent, StoreType
  <2> QED
    BY <1>0, <2>1, <2>2, <2>4, <2>5 DEF StoreType
<1>5. ASSUME NEW w \in Writers, ReadRow(w) PROVE TaskType' /\ StoreType' /\ OtherType'
  <2>0. cmd[w] \in Commands
    BY <1>5 DEF ReadRow, TaskInv, TaskAt, AtCommand
  <2>1. StoreType' /\ OtherType'
    BY <1>5, <1>a, <1>b, FaultUnlessType DEF ReadRow
  <2>2. CASE Updated(w) \/ End(w)
    BY <2>0, <2>1, <2>2, <1>0, EndType, UpdatedType
  <2>3. CASE /\ Goto(w, "applyRow")
             /\ seen' = [seen EXCEPT ![w] = rows[cmd[w]].state]
             /\ UNCHANGED <<cmd, want, base, cur>>
    <3>1. rows[cmd[w]].state \in CmdStates
      BY <2>0, <1>0 DEF StoreType, Rows
    <3> QED
      BY <2>1, <2>3, <3>1, <1>0 DEF TaskType, Goto, Labels
  <2> QED
    BY <1>5, <2>2, <2>3 DEF ReadRow
<1>6. ASSUME NEW w \in Writers, ApplyRow(w) PROVE TaskType' /\ StoreType' /\ OtherType'
  <2>0. cmd[w] \in Commands /\ want[w] \in {"running", "succeeded", "failed"}
    BY <1>6 DEF ApplyRow, TaskInv, TaskAt, AtCommand
  <2>1. OtherType'
    BY <1>6, <1>a DEF ApplyRow
  <2>2. TaskType'
    BY <2>0, <1>0, <1>6, EndType, UpdatedType DEF ApplyRow
  <2>3. rows' \in [Commands -> Rows]
    BY <2>0, <1>0, <1>6, NewRowType DEF ApplyRow, StoreType
  <2>4. faults' \in Nat /\ UNCHANGED <<hw, token, events, handed>>
    BY <1>0, <1>6, FaultType, FaultUnlessType DEF ApplyRow, StoreType
  <2> QED
    BY <1>0, <2>1, <2>2, <2>3, <2>4 DEF StoreType
<1>7. ASSUME NEW w \in Writers, Launch(w) PROVE TaskType' /\ StoreType' /\ OtherType'
  <2>1. StoreType'
    BY <1>7, <1>b DEF Launch, NoFault
  <2>2. TaskType'
    BY <1>0, <1>7, GotoType, RecordType DEF Launch, Labels, Wants
  <2>3. pane' \in Panes
    BY FreshPane, <1>0, <1>7 DEF Launch, OtherType, Panes
  <2>4. OtherType'
    BY <1>0, <1>7, <2>3 DEF Launch, OtherType, Panes, deviceVars
  <2> QED
    BY <2>1, <2>2, <2>4
<1>8. ASSUME NEW w \in Writers, Respawn(w) PROVE TaskType' /\ StoreType' /\ OtherType'
  <2>0. cmd[w] \in Commands
    BY <1>8 DEF Respawn, TaskInv, TaskAt, AtCommand
  <2>1. StoreType'
    BY <1>8, <1>b DEF Respawn, NoFault
  <2>2. TaskType'
    BY <1>0, <1>8, SetRowType, RecordType DEF Respawn, Wants
  <2>3. Len(turns) \in Nat /\ Append(turns, cmd[w]) \in Seq(Commands)
    BY <2>0, <1>0 DEF OtherType
  <2>4. pane' \in Panes
    BY <1>0, <1>8 DEF Respawn, OtherType, Panes
  <2>5. turns' \in Seq(Commands)
    BY <2>3, <1>0, <1>8 DEF Respawn, OtherType
  <2>6. OtherType'
    BY <2>4, <2>5, <1>0, <1>8 DEF Respawn, OtherType, Panes, deviceVars
  <2> QED
    BY <2>1, <2>2, <2>6
<1>9. ASSUME NEW w \in Writers, Wait(w) PROVE TaskType' /\ StoreType' /\ OtherType'
  <2>1. TaskType'
    BY <1>0, <1>9, GotoType, RecordType DEF Wait, Labels, Wants
  <2> QED
    BY <1>9, <2>1, <1>a, <1>b DEF Wait, NoFault
<1>10. ASSUME NEW w \in Writers, Capture(w) PROVE TaskType' /\ StoreType' /\ OtherType'
  <2>1. TaskType'
    BY <1>0, <1>10, RecordType DEF Capture, Wants
  <2>2. StoreType'
    BY <1>10, <1>b DEF Capture, NoFault
  <2>3. OtherType'
    BY <1>0, <1>10 DEF Capture, OtherType, deviceVars, agentVars
  <2> QED
    BY <2>1, <2>2, <2>3
<1>11. ASSUME NEW w \in Writers, NoteStep(w) PROVE TaskType' /\ StoreType' /\ OtherType'
  <2>0. cmd[w] \in Commands
    BY <1>11 DEF NoteStep, TaskInv, TaskAt, AtCommand
  <2>1. TaskType'
    BY <1>0, <1>11, RecordType DEF NoteStep, Wants
  <2>2. StoreType'
    BY <1>11, <1>b DEF NoteStep, NoFault
  <2>3. Op[cmd[w]].kind = "append" => Op[cmd[w]].seq \in Nat
    BY <2>0 DEF Ops
  <2>4. noteNext' \in [Notes -> Nat]
    BY <2>3, <1>0, <1>11 DEF NoteStep, OtherType
  <2>5. OtherType'
    BY <2>4, <1>0, <1>11 DEF NoteStep, OtherType, deviceVars, agentVars
  <2> QED
    BY <2>1, <2>2, <2>5
<1>12. ASSUME NEW w \in Sessions, NEW c \in Commands, Put(w, c)
       PROVE TaskType' /\ StoreType' /\ OtherType'
  <2>1. OtherType'
    BY <1>12, <1>a DEF Put
  <2>2. w \in Writers
    BY DEF Writers
  <2>3. UNCHANGED taskVars => TaskType'
    BY <1>0 DEF TaskType, taskVars
  <2>4. TaskType'
    BY <2>2, <2>3, <1>0, <1>12, AcceptedType DEF Put
  <2>5. rows' \in [Commands -> Rows]
    BY <1>0, <1>12 DEF Put, StoreType, Rows, CmdStates
  <2>6. faults' \in Nat /\ UNCHANGED <<hw, token, events, handed>>
    BY <1>0, <1>12, FaultType, FaultUnlessType DEF Put, StoreType
  <2> QED
    BY <1>0, <2>1, <2>4, <2>5, <2>6 DEF StoreType
<1>c. ASSUME UNCHANGED taskVars PROVE TaskType'
  BY <1>0, <1>c DEF TaskType, taskVars
<1>13. ASSUME NEW d \in Devices, ReadHighWater(d) PROVE TaskType' /\ StoreType' /\ OtherType'
  <2>1. OtherType'
    BY <1>0, <1>13 DEF ReadHighWater, OtherType, StoreType, agentVars
  <2> QED
    BY <1>13, <2>1, <1>b, <1>c DEF ReadHighWater, NoFault
<1>14. ASSUME NEW d \in Devices, Deliver(d) PROVE TaskType' /\ StoreType' /\ OtherType'
  <2>1. PICK n \in 0..PageLimit :
            /\ n = 0 => Replay(d) = {}
            /\ delivered' = [delivered EXCEPT ![d] = @ \cup FirstOf(Replay(d), n)]
            /\ resume' = [resume EXCEPT ![d] = BatchEnd(d, FirstOf(Replay(d), n))]
    BY <1>14 DEF Deliver
  <2>2. FirstOf(Replay(d), n) \subseteq 1..MaxCursor
    BY DEF FirstOf, Replay
  <2>3. BatchEnd(d, FirstOf(Replay(d), n)) \in Nat
    BY <1>0, <1>14, <2>1, CutEnd DEF Deliver
  <2>4. OtherType'
    BY <2>1, <2>2, <2>3, <1>0, <1>14 DEF Deliver, OtherType, agentVars
  <2> QED
    BY <1>14, <2>4, <1>b, <1>c DEF Deliver, NoFault
<1>15. CASE TurnEnds
  <2>1. OtherType'
    BY <1>0, <1>15 DEF TurnEnds, OtherType, deviceVars
  <2> QED
    BY <1>15, <2>1, <1>b, <1>c, TypePartsNext DEF TurnEnds, NoFault
<1>16. CASE Crash
  <2>1. TaskType'
    BY <1>16 DEF Crash, TaskType, Labels, Wants, CmdStates
  <2>2. StoreType'
    BY <1>16, <1>b DEF Crash
  <2>3. OtherType'
    BY <1>0, <1>16 DEF Crash, OtherType, agentVars
  <2> QED
    BY <2>1, <2>2, <2>3, TypePartsNext
<1>17. CASE UNCHANGED vars
  <2>1. TaskType' /\ StoreType' /\ OtherType'
    BY <1>17, <1>a, <1>b, <1>c DEF vars, NoFault
  <2> QED
    BY <2>1, TypePartsNext
<1> QED
  BY <1>1, <1>2, <1>3, <1>4, <1>5, <1>6, <1>7, <1>8, <1>9, <1>10, <1>11, <1>12, <1>13,
     <1>14, <1>15, <1>16, <1>17, TypePartsNext DEF Next, TaskStep

-----------------------------------------------------------------------------
(* What a step does to the tasks *)

(* The locals of every other task are left alone, and the task itself either
   keeps its command or drops it; it does not come to accept a command. *)
TaskMove(w) ==
    /\ \A v \in Writers \ {w} : pc'[v] = pc[v] /\ cmd'[v] = cmd[v] /\ want'[v] = want[v]
    /\ cmd'[w] \in {cmd[w], NoCmd}
    /\ want'[w] = "accepted" => want[w] = "accepted" /\ cmd'[w] = cmd[w]
    /\ TaskAt(w)'
    /\ w \in Commands => WaiterAt(w)'

LEMMA EndMoves ==
    ASSUME TaskType, NEW w \in Writers, End(w) PROVE TaskMove(w)
  BY CPAssumption DEF TaskType, End, Goto, TaskMove, TaskAt, WaiterAt, AtCommand

LEMMA RecordMoves ==
    ASSUME TaskType, TaskInv, NEW w \in Writers, NEW x \in {"succeeded", "failed"},
           cmd[w] \in Commands, Record(w, x)
    PROVE  TaskMove(w)
  BY CPAssumption DEF TaskType, TaskInv, Record, Goto, TaskMove, TaskAt, WaiterAt, AtCommand

LEMMA SetRowMoves ==
    ASSUME TaskType, TaskInv, NEW w \in Writers, NEW x \in {"running", "succeeded", "failed"},
           w \in Commands => x # "running", cmd[w] \in Commands, SetRow(w, x)
    PROVE  TaskMove(w)
  BY CPAssumption DEF TaskType, TaskInv, SetRow, Goto, TaskMove, TaskAt, WaiterAt, AtCommand

LEMMA GotoMoves ==
    ASSUME TaskType, TaskInv, NEW w \in Writers, NEW l \in Labels \ {"idle"},
           pc' = [pc EXCEPT ![w] = l], UNCHANGED <<cmd, want>>,
           l \in AtCommand => cmd[w] \in Commands,
           l \in {"readRow", "applyRow"} => want[w] \in {"running", "succeeded", "failed"},
           l \in {"launch", "respawn"} => want[w] = "accepted",
           w \in Commands => l \notin {"launch", "respawn", "note"}
    PROVE  TaskMove(w)
  BY CPAssumption DEF TaskType, TaskInv, TaskMove, TaskAt, WaiterAt

(* A task that accepts, or that sets the row of its command to running, is not
   the task of a command. *)
LEMMA WaiterNeverLaunches ==
    ASSUME TaskInv, NEW w \in Writers, want[w] \in {"accepted", "running"} PROVE w \notin Commands
  BY DEF TaskInv, WaiterAt

Spawned(w) == cmd[w] \in Commands /\ w \notin Commands /\ SpawnWaiter(w)

LEMMA UpdatedMoves ==
    ASSUME TaskType, TaskInv, NEW w \in Writers, cmd[w] \in Commands, Updated(w)
    PROVE  TaskMove(w) \/ Spawned(w)
<1>1. CASE want[w] # "running"
  BY <1>1, EndMoves DEF Updated
<1>2. CASE want[w] = "running" /\ Agent(cmd[w])
  BY <1>2, WaiterNeverLaunches DEF Updated, Spawned
<1>3. CASE want[w] = "running" /\ ~Agent(cmd[w])
  <2>1. w \notin Commands
    BY <1>3, WaiterNeverLaunches
  <2>2. pc' = [pc EXCEPT ![w] = "note"] /\ UNCHANGED <<cmd, want>>
    BY <1>3 DEF Updated, Goto
  <2> QED
    BY <2>1, <2>2, GotoMoves DEF Labels, AtCommand
<1> QED
  BY <1>1, <1>2, <1>3

LEMMA RecordedMoves ==
    ASSUME TaskType, TaskInv, NEW w \in Writers, Recorded(w)
    PROVE  TaskMove(w)
<1>1. CASE want[w] = "accepted"
  <2>1. w \notin Commands /\ cmd[w] \in Commands
    BY <1>1, WaiterNeverLaunches DEF TaskInv, TaskAt
  <2>2. pc' = [pc EXCEPT ![w] = "launch"] /\ UNCHANGED <<cmd, want>>
    BY <1>1 DEF Recorded, Goto
  <2> QED
    BY <1>1, <2>1, <2>2, GotoMoves DEF Labels, AtCommand
<1>2. CASE want[w] = "heartbeat"
  BY <1>2, EndMoves DEF Recorded
<1>3. CASE want[w] \notin {"accepted", "heartbeat"}
  <2>1. SetRow(w, want[w]) /\ want[w] \in {"running", "succeeded", "failed"}
    BY <1>3 DEF Recorded, TaskType, Wants
  <2>2. cmd[w] \in Commands
    BY <1>3 DEF TaskInv, TaskAt
  <2>3. w \in Commands => want[w] # "running"
    BY WaiterNeverLaunches
  <2> QED
    BY <2>1, <2>2, <2>3, SetRowMoves
<1> QED
  BY <1>1, <1>2, <1>3

LEMMA GotMoves ==
    ASSUME TaskType, TaskInv, NEW w \in Writers, Got(w) PROVE TaskMove(w)
  BY GotoMoves DEF Got, Goto, Labels, AtCommand

(* A task step moves its task, or hands its command to a waiter. *)
LEMMA TaskSteps ==
    ASSUME TaskType, TaskInv, NEW w \in Writers, TaskStep(w)
    PROVE  TaskMove(w) \/ Spawned(w)
<1>0. ASSUME NEW l \in {"readCursor", "applyCursor", "checkCursor"}, Goto(w, l), UNCHANGED <<cmd, want>>
      PROVE  TaskMove(w)
  BY <1>0, GotoMoves DEF Goto, Labels, AtCommand
<1>1. CASE ReadCursor(w)
  BY <1>1, <1>0, EndMoves DEF ReadCursor
<1>2. CASE ApplyCursor(w)
  BY <1>2, <1>0, EndMoves, GotMoves DEF Retry, ApplyCursor, Unanswered
<1>3. CASE CheckCursor(w)
  BY <1>3, <1>0, EndMoves, GotMoves DEF Retry, CheckCursor
<1>4. CASE AppendEvent(w)
  BY <1>4, EndMoves, RecordedMoves DEF AppendEvent
<1>5. CASE ReadRow(w)
  <2>1. cmd[w] \in Commands /\ want[w] \in {"running", "succeeded", "failed"}
    BY <1>5 DEF ReadRow, TaskInv, TaskAt, AtCommand
  <2>2. CASE Updated(w) \/ End(w)
    BY <2>1, <2>2, EndMoves, UpdatedMoves
  <2>3. CASE Goto(w, "applyRow") /\ UNCHANGED <<cmd, want>>
    BY <2>1, <2>3, GotoMoves DEF Goto, Labels, AtCommand
  <2> QED
    BY <1>5, <2>2, <2>3 DEF ReadRow
<1>6. CASE ApplyRow(w)
  <2>1. cmd[w] \in Commands
    BY <1>6 DEF ApplyRow, TaskInv, TaskAt, AtCommand
  <2> QED
    BY <1>6, <2>1, EndMoves, UpdatedMoves DEF ApplyRow
<1>7. CASE Launch(w)
  <2>1. cmd[w] \in Commands /\ w \notin Commands /\ want[w] = "accepted"
    BY <1>7, WaiterNeverLaunches DEF Launch, TaskInv, TaskAt, AtCommand
  <2>2. CASE Goto(w, "respawn") /\ UNCHANGED <<cmd, want>>
    BY <2>1, <2>2, GotoMoves DEF Goto, Labels, AtCommand
  <2> QED
    BY <1>7, <2>1, <2>2, RecordMoves DEF Launch
<1>8. CASE Respawn(w)
  <2>1. cmd[w] \in Commands /\ w \notin Commands
    BY <1>8, WaiterNeverLaunches DEF Respawn, TaskInv, TaskAt, AtCommand
  <2> QED
    BY <1>8, <2>1, RecordMoves, SetRowMoves DEF Respawn
<1>9. CASE Wait(w)
  <2>1. cmd[w] \in Commands
    BY <1>9 DEF Wait, TaskInv, TaskAt, AtCommand
  <2>2. CASE Goto(w, "capture") /\ UNCHANGED <<cmd, want>>
    BY <2>1, <2>2, GotoMoves DEF Goto, Labels, AtCommand
  <2> QED
    BY <1>9, <2>1, <2>2, RecordMoves DEF Wait
<1>10. CASE Capture(w)
  <2>1. cmd[w] \in Commands
    BY <1>10 DEF Capture, TaskInv, TaskAt, AtCommand
  <2> QED
    BY <1>10, <2>1, RecordMoves DEF Capture
<1>11. CASE NoteStep(w)
  <2>1. cmd[w] \in Commands
    BY <1>11 DEF NoteStep, TaskInv, TaskAt, AtCommand
  <2> QED
    BY <1>11, <2>1, RecordMoves DEF NoteStep
<1> QED
  BY <1>1, <1>2, <1>3, <1>4, <1>5, <1>6, <1>7, <1>8, <1>9, <1>10, <1>11 DEF TaskStep

(* What handing over the command does to the tasks. *)
LEMMA SpawnedTasks ==
    ASSUME TaskType, TaskInv, OneTask, NEW w \in Writers, Spawned(w)
    PROVE  /\ \A v \in Writers \ {w, cmd[w]} : pc'[v] = pc[v] /\ cmd'[v] = cmd[v] /\ want'[v] = want[v]
           /\ pc'[w] = "idle" /\ cmd'[w] = NoCmd /\ want'[w] = "heartbeat"
           /\ pc'[cmd[w]] = "wait" /\ cmd'[cmd[w]] = cmd[w] /\ want'[cmd[w]] = want[cmd[w]]
           /\ cmd[w] \in Writers /\ cmd[w] # w
<1>1. PICK c \in Commands : c = cmd[w]
  BY DEF Spawned
<1>2. c \in Writers /\ c # w
  BY <1>1 DEF Writers, Spawned
<1>3. /\ pc' = [[pc EXCEPT ![w] = "idle"] EXCEPT ![c] = "wait"]
      /\ cmd' = [[cmd EXCEPT ![w] = NoCmd] EXCEPT ![c] = c]
      /\ want' = [want EXCEPT ![w] = "heartbeat"]
  BY <1>1, Zenon DEF SpawnWaiter, Spawned
<1> QED
  BY <1>1, <1>2, <1>3 DEF TaskType

-----------------------------------------------------------------------------
(* A command is in the hands of one task, and is started once *)

(* A command that has a row keeps one. *)
LEMMA RowsKept ==
    ASSUME TypeOK, TaskInv, [Next]_vars, NEW c \in Commands, rows[c].state # "absent"
    PROVE  rows'[c].state # "absent"
<1>0. TaskType /\ StoreType
  BY TypeParts
<1>1. ASSUME NEW w \in Writers, ApplyRow(w) PROVE rows'[c].state # "absent"
  <2>1. cmd[w] \in Commands /\ want[w] \in {"running", "succeeded", "failed"}
    BY <1>1 DEF ApplyRow, TaskInv, TaskAt, AtCommand
  <2>2. NewRow(w).state # "absent"
    BY <2>1 DEF NewRow
  <2> QED
    BY <1>0, <1>1, <2>1, <2>2 DEF ApplyRow, StoreType
<1>2. ASSUME NEW w \in Sessions, NEW d \in Commands, Put(w, d) PROVE rows'[c].state # "absent"
  BY <1>0, <1>2 DEF Put, StoreType
<1>3. ASSUME NEW w \in Writers, TaskStep(w), ~ApplyRow(w) PROVE rows' = rows
  BY <1>3 DEF TaskStep, ReadCursor, ApplyCursor, CheckCursor, AppendEvent, ReadRow, Launch,
       Respawn, Wait, Capture, NoteStep, storeVars
<1>4. ASSUME NEW d \in Devices, ReadHighWater(d) \/ Deliver(d) PROVE rows' = rows
  BY <1>4 DEF ReadHighWater, Deliver, storeVars
<1>5. TurnEnds \/ Crash \/ UNCHANGED vars => rows' = rows
  BY DEF TurnEnds, Crash, vars, storeVars
<1> QED
  BY <1>1, <1>2, <1>3, <1>4, <1>5 DEF Next

(* Only a respawn starts an agent. *)
LEMMA OtherTaskStarts ==
    ASSUME NEW w \in Writers, TaskStep(w), ~Respawn(w) PROVE turns' = turns
  BY DEF TaskStep, ReadCursor, ApplyCursor, CheckCursor, AppendEvent, ReadRow, ApplyRow, Launch,
       Wait, Capture, NoteStep, agentVars

RunsInv == TypeOK /\ TaskInv /\ OneTask /\ RunInv /\ NeverExecutesTwice

(* A step of a task that is moved keeps the rest, as long as it starts nothing. *)
LEMMA MoveStep ==
    ASSUME RunsInv, [Next]_vars, NEW w \in Writers, TaskMove(w), turns' = turns
    PROVE  TaskInv' /\ OneTask' /\ RunInv' /\ NeverExecutesTwice'
<1> USE CPAssumption
<1>0. TaskType /\ StoreType /\ turns \in Seq(Commands) /\ \A c \in Commands : c \in Writers
  BY TypeParts DEF RunsInv, OtherType, Writers
<1>1. \A v \in Writers : cmd'[v] \in {cmd[v], NoCmd}
  BY DEF TaskMove
<1>2. \A v \in Writers : want'[v] = "accepted" => want[v] = "accepted" /\ cmd'[v] = cmd[v]
  BY DEF TaskMove
<1>3. TaskInv'
  <2>1. \A v \in Writers : TaskAt(v)'
    BY DEF RunsInv, TaskInv, TaskAt, TaskMove
  <2>2. \A c \in Commands : WaiterAt(c)'
    BY <1>0 DEF RunsInv, TaskInv, WaiterAt, TaskMove
  <2> QED
    BY <2>1, <2>2 DEF TaskInv
<1>4. OneTask'
  BY <1>1 DEF RunsInv, OneTask
<1>5. RunInv'
  <2>1. \A v \in Writers : cmd'[v] \in Commands => rows'[cmd'[v]].state # "absent"
    BY <1>1, RowsKept DEF RunsInv, RunInv
  <2>2. \A j \in 1..Len(turns) : turns[j] \in Commands
    BY <1>0
  <2>3. \A j \in 1..Len(turns) : rows'[turns[j]].state # "absent"
    BY <2>2, RowsKept DEF RunsInv, RunInv
  <2> QED
    BY <2>1, <2>3, <1>2 DEF RunsInv, RunInv
<1> QED
  BY <1>3, <1>4, <1>5 DEF RunsInv, NeverExecutesTwice

LEMMA RespawnStep ==
    ASSUME RunsInv, [Next]_vars, NEW w \in Writers, Respawn(w), TaskMove(w)
    PROVE  TaskInv' /\ OneTask' /\ RunInv' /\ NeverExecutesTwice'
<1> USE CPAssumption
<1>0. TaskType /\ StoreType /\ turns \in Seq(Commands) /\ TaskInv
  BY TypeParts DEF RunsInv, OtherType
<1>1. CASE turns' = turns
  BY <1>1, MoveStep
<1>2. CASE turns' # turns
  <2> DEFINE n == Len(turns)
             c == cmd[w]
  <2>1. turns' = Append(turns, c) /\ SetRow(w, "running") /\ c \in Commands /\ want[w] = "accepted"
    BY <1>0, <1>2 DEF Respawn, TaskInv, TaskAt, AtCommand
  <2>2. n \in Nat /\ Len(turns') = n + 1 /\ turns'[n + 1] = c /\ \A j \in 1..n : turns'[j] = turns[j]
    BY <1>0, <2>1
  <2>3. \A j \in 1..n : turns[j] # c /\ turns[j] \in Commands
    BY <1>0, <2>1 DEF RunsInv, RunInv
  <2>4. want' = [want EXCEPT ![w] = "running"] /\ cmd' = cmd
    BY <2>1 DEF SetRow
  <2>5. TaskInv' /\ OneTask'
    <3>1. \A v \in Writers : TaskAt(v)'
      BY <1>0 DEF TaskInv, TaskAt, TaskMove
    <3>2. \A d \in Commands : WaiterAt(d)'
      BY <1>0 DEF TaskInv, WaiterAt, TaskMove, Writers
    <3> QED
      BY <3>1, <3>2, <2>4 DEF TaskInv, RunsInv, OneTask
  <2>6. \A v \in Writers : want'[v] = "accepted" =>
            want[v] = "accepted" /\ v # w /\ cmd[v] \in Commands /\ cmd[v] # c
    <3> SUFFICES ASSUME NEW v \in Writers, want'[v] = "accepted"
                 PROVE  want[v] = "accepted" /\ v # w /\ cmd[v] \in Commands /\ cmd[v] # c
      OBVIOUS
    <3>1. v # w /\ want[v] = "accepted"
      BY <2>4, <1>0 DEF TaskType
    <3>2. cmd[v] \in Commands
      BY <3>1, <1>0 DEF TaskInv, TaskAt
    <3> QED
      BY <3>1, <3>2 DEF RunsInv, OneTask
  <2>7. RunInv'
    <3>1. \A d \in Commands : rows[d].state # "absent" => rows'[d].state # "absent"
      BY RowsKept DEF RunsInv
    <3>2. \A v \in Writers : cmd'[v] \in Commands => rows'[cmd'[v]].state # "absent"
      BY <2>4, <3>1 DEF RunsInv, RunInv
    <3>3. \A j \in 1..Len(turns') : rows'[turns'[j]].state # "absent"
      <4> SUFFICES ASSUME NEW j \in 1..n + 1 PROVE rows'[turns'[j]].state # "absent"
        BY <2>2
      <4>1. CASE j = n + 1
        BY <4>1, <2>1, <2>2, <3>1 DEF RunsInv, RunInv
      <4>2. CASE j \in 1..n
        BY <4>2, <2>2, <2>3, <3>1 DEF RunsInv, RunInv
      <4> QED
        BY <4>1, <4>2, <2>2
    <3>4. ASSUME NEW v \in Writers, want'[v] = "accepted", NEW j \in 1..Len(turns')
          PROVE  turns'[j] # cmd'[v]
      <4>1. CASE j = n + 1
        BY <4>1, <3>4, <2>2, <2>4, <2>6
      <4>2. CASE j \in 1..n
        BY <4>2, <3>4, <2>2, <2>4, <2>6 DEF RunsInv, RunInv
      <4> QED
        BY <4>1, <4>2, <2>2
    <3> QED
      BY <3>2, <3>3, <3>4 DEF RunInv
  <2>8. NeverExecutesTwice'
    <3> SUFFICES ASSUME NEW i \in 1..n + 1, NEW j \in 1..n + 1, turns'[i] = turns'[j] PROVE i = j
      BY <2>2 DEF NeverExecutesTwice
    <3>1. CASE i = n + 1 /\ j \in 1..n
      BY <3>1, <2>2, <2>3
    <3>2. CASE j = n + 1 /\ i \in 1..n
      BY <3>2, <2>2, <2>3
    <3>3. CASE i \in 1..n /\ j \in 1..n
      BY <3>3, <2>2 DEF RunsInv, NeverExecutesTwice
    <3> QED
      BY <3>1, <3>2, <3>3, <2>2
  <2> QED
    BY <2>5, <2>7, <2>8
<1> QED
  BY <1>1, <1>2

(* The command changes hands, from the session to the task of the command. *)
LEMMA SpawnStep ==
    ASSUME RunsInv, [Next]_vars, NEW w \in Writers, Spawned(w), turns' = turns
    PROVE  TaskInv' /\ OneTask' /\ RunInv' /\ NeverExecutesTwice'
<1> USE CPAssumption
<1>0. TaskType /\ StoreType /\ turns \in Seq(Commands) /\ TaskInv /\ OneTask
  BY TypeParts DEF RunsInv, OtherType
<1>1. PICK c \in Commands : c = cmd[w]
  BY DEF Spawned
<1>2. /\ \A v \in Writers \ {w, c} : pc'[v] = pc[v] /\ cmd'[v] = cmd[v] /\ want'[v] = want[v]
      /\ pc'[w] = "idle" /\ cmd'[w] = NoCmd /\ want'[w] = "heartbeat"
      /\ pc'[c] = "wait" /\ cmd'[c] = c /\ want'[c] = want[c]
      /\ c \in Writers /\ c # w /\ w \notin Commands
  BY <1>0, <1>1, SpawnedTasks DEF Spawned
<1>3. TaskInv'
  <2>1. ASSUME NEW v \in Writers PROVE TaskAt(v)'
    <3>1. CASE v = w
      BY <3>1, <1>2 DEF TaskAt, AtCommand
    <3>2. CASE v = c
      BY <3>2, <1>2 DEF TaskAt, AtCommand
    <3>3. CASE v \notin {w, c}
      BY <3>3, <1>0, <1>2 DEF TaskInv, TaskAt
    <3> QED
      BY <3>1, <3>2, <3>3
  <2>2. ASSUME NEW d \in Commands PROVE WaiterAt(d)'
    <3>1. CASE d = c
      BY <3>1, <1>0, <1>2 DEF TaskInv, WaiterAt
    <3>2. CASE d # c
      BY <3>2, <1>0, <1>2 DEF TaskInv, WaiterAt, Writers
    <3> QED
      BY <3>1, <3>2
  <2> QED
    BY <2>1, <2>2 DEF TaskInv
<1>4. OneTask'
  <2> SUFFICES ASSUME NEW u \in Writers, NEW v \in Writers, cmd'[u] \in Commands, cmd'[u] = cmd'[v], u # v
               PROVE  FALSE
    BY DEF OneTask
  <2>1. ASSUME NEW x \in Writers, x # c, cmd'[x] \in Commands PROVE cmd'[x] = cmd[x] /\ cmd[x] # c
    BY <2>1, <1>0, <1>1, <1>2 DEF OneTask
  <2> QED
    BY <2>1, <1>0, <1>2 DEF OneTask
<1>5. RunInv'
  <2>1. \A d \in Commands : rows[d].state # "absent" => rows'[d].state # "absent"
    BY RowsKept DEF RunsInv
  <2>2. \A v \in Writers : cmd'[v] \in Commands => rows'[cmd'[v]].state # "absent"
    <3> SUFFICES ASSUME NEW v \in Writers, cmd'[v] \in Commands PROVE rows'[cmd'[v]].state # "absent"
      OBVIOUS
    <3>1. CASE v = c
      BY <3>1, <2>1, <1>1, <1>2 DEF RunsInv, RunInv
    <3>2. CASE v # c
      BY <3>2, <2>1, <1>2 DEF RunsInv, RunInv
    <3> QED
      BY <3>1, <3>2
  <2>3. \A j \in 1..Len(turns) : turns[j] \in Commands
    BY <1>0
  <2>4. \A j \in 1..Len(turns) : rows'[turns[j]].state # "absent"
    BY <2>1, <2>3 DEF RunsInv, RunInv
  <2>5. \A v \in Writers : want'[v] = "accepted" => want[v] = "accepted" /\ cmd'[v] = cmd[v]
    BY <1>0, <1>2 DEF TaskInv, WaiterAt
  <2> QED
    BY <2>2, <2>4, <2>5 DEF RunsInv, RunInv
<1> QED
  BY <1>3, <1>4, <1>5 DEF RunsInv, NeverExecutesTwice

(* A session takes a command that nobody has: it had no row. *)
LEMMA PutStep ==
    ASSUME RunsInv, [Next]_vars, NEW w \in Sessions, NEW c \in Commands, Put(w, c)
    PROVE  TaskInv' /\ OneTask' /\ RunInv' /\ NeverExecutesTwice'
<1> USE CPAssumption
<1>0. TaskType /\ StoreType /\ turns \in Seq(Commands) /\ TaskInv /\ OneTask /\ RunInv
  BY TypeParts DEF RunsInv, OtherType
<1>1. w \in Writers /\ w \notin Commands /\ \A d \in Commands : d \in Writers
  BY DEF Writers
<1>2. turns' = turns /\ pc[w] = "idle"
  BY DEF Put, agentVars
<1>3. \A d \in Commands : rows[d].state # "absent" => rows'[d].state # "absent"
  BY RowsKept DEF RunsInv
<1>4. \A j \in 1..Len(turns) : turns[j] \in Commands
  BY <1>0
<1>5. CASE UNCHANGED taskVars
  <2>1. UNCHANGED <<pc, cmd, want>>
    BY <1>5 DEF taskVars
  <2>2. TaskInv' /\ OneTask'
    BY <1>0, <2>1 DEF TaskInv, TaskAt, WaiterAt, OneTask
  <2>3. RunInv'
    BY <1>0, <1>2, <1>3, <1>4, <2>1 DEF RunInv
  <2> QED
    BY <2>2, <2>3, <1>2 DEF RunsInv, NeverExecutesTwice
<1>6. CASE ~UNCHANGED taskVars
  <2>1. /\ rows[c] = NoRow /\ Accepted(w, c)
        /\ rows' = [rows EXCEPT ![c] = [state |-> "queued", cursor |-> 0]]
    BY <1>6 DEF Put
  <2>2. rows[c].state = "absent" /\ rows'[c].state = "queued"
    BY <2>1, <1>0 DEF NoRow, StoreType
  <2>3. /\ \A v \in Writers \ {w} : pc'[v] = pc[v] /\ cmd'[v] = cmd[v] /\ want'[v] = want[v]
        /\ cmd'[w] = c /\ pc'[w] \in {"readCursor", "readRow"}
        /\ pc'[w] = "readRow" => want'[w] = "running"
    BY <2>1, <1>0, <1>1 DEF Accepted, Goto, TaskType
  <2>4. \A v \in Writers : cmd[v] # c
    BY <2>2, <1>0 DEF RunInv
  <2>5. TaskInv'
    <3>1. \A v \in Writers : TaskAt(v)'
      BY <1>0, <2>3 DEF TaskInv, TaskAt, AtCommand
    <3>2. \A d \in Commands : WaiterAt(d)'
      BY <1>0, <1>1, <2>3 DEF TaskInv, WaiterAt
    <3> QED
      BY <3>1, <3>2 DEF TaskInv
  <2>6. OneTask'
    BY <1>0, <2>3, <2>4 DEF OneTask
  <2>7. RunInv'
    <3>1. \A v \in Writers : cmd'[v] \in Commands => rows'[cmd'[v]].state # "absent"
      <4> SUFFICES ASSUME NEW v \in Writers, cmd'[v] \in Commands PROVE rows'[cmd'[v]].state # "absent"
        OBVIOUS
      <4>1. CASE v = w
        BY <4>1, <2>2, <2>3
      <4>2. CASE v # w
        BY <4>2, <1>0, <1>3, <2>3 DEF RunInv
      <4> QED
        BY <4>1, <4>2
    <3>2. \A j \in 1..Len(turns) : rows'[turns[j]].state # "absent"
      BY <1>0, <1>3, <1>4 DEF RunInv
    <3>3. \A j \in 1..Len(turns) : turns[j] # c
      BY <1>0, <2>2 DEF RunInv
    <3>4. \A v \in Writers : want'[v] = "accepted" => \A j \in 1..Len(turns) : turns[j] # cmd'[v]
      BY <1>0, <2>3, <3>3 DEF RunInv
    <3> QED
      BY <1>2, <3>1, <3>2, <3>4 DEF RunInv
  <2> QED
    BY <2>5, <2>6, <2>7, <1>2 DEF RunsInv, NeverExecutesTwice
<1> QED
  BY <1>5, <1>6

LEMMA RunsInit == Init => RunsInv
<1> SUFFICES ASSUME Init PROVE RunsInv
  OBVIOUS
<1> USE CPAssumption
<1>1. TaskType /\ StoreType
  BY DEF Init, TaskType, StoreType, Labels, Wants, CmdStates, Rows, NoRow
<1>2. pane \in Panes
  BY PaneType, Zenon DEF Init, NoPane
<1>3. OtherType
  BY <1>2 DEF Init, OtherType, Panes
<1>4. TaskInv
  BY DEF Init, TaskInv, TaskAt, WaiterAt, AtCommand, Writers
<1>5. OneTask /\ RunInv /\ NeverExecutesTwice
  BY DEF Init, OneTask, RunInv, NeverExecutesTwice
<1> QED
  BY <1>1, <1>3, <1>4, <1>5, TypeParts DEF RunsInv

LEMMA RunsStep == RunsInv /\ [Next]_vars => RunsInv'
<1> SUFFICES ASSUME RunsInv, [Next]_vars PROVE RunsInv'
  OBVIOUS
<1> USE CPAssumption
<1> DEFINE Kept == TaskInv' /\ OneTask' /\ RunInv' /\ NeverExecutesTwice'
<1>0. TypeOK' /\ TaskType /\ TaskInv /\ turns \in Seq(Commands)
  BY TypeStep, TypeParts DEF RunsInv, OtherType
<1>1. ASSUME NEW w \in Writers, TaskStep(w) PROVE Kept
  <2>1. CASE Respawn(w)
    <3>1. SetRow(w, "running") \/ Record(w, "failed")
      BY <2>1 DEF Respawn
    <3>2. cmd[w] \in Commands /\ w \notin Commands
      BY <2>1, <1>0, WaiterNeverLaunches DEF Respawn, TaskInv, TaskAt, AtCommand
    <3>3. TaskMove(w)
      BY <3>1, <3>2, <1>0, SetRowMoves, RecordMoves
    <3> QED
      BY <2>1, <3>3, RespawnStep
  <2>2. CASE ~Respawn(w)
    <3>1. turns' = turns
      BY <2>2, <1>1, OtherTaskStarts
    <3>2. TaskMove(w) \/ Spawned(w)
      BY <1>0, <1>1, TaskSteps
    <3> QED
      BY <3>1, <3>2, MoveStep, SpawnStep
  <2> QED
    BY <2>1, <2>2
<1>2. ASSUME NEW w \in Sessions, NEW c \in Commands, Put(w, c) PROVE Kept
  BY <1>2, PutStep
<1>3. ASSUME UNCHANGED <<pc, cmd, want, rows, turns>> PROVE Kept
  BY <1>3 DEF RunsInv, TaskInv, TaskAt, WaiterAt, OneTask, RunInv, NeverExecutesTwice
<1>4. ASSUME NEW d \in Devices, ReadHighWater(d) \/ Deliver(d) PROVE Kept
  BY <1>3, <1>4 DEF ReadHighWater, Deliver, storeVars, taskVars, agentVars
<1>5. TurnEnds => Kept
  BY <1>3 DEF TurnEnds, storeVars, taskVars
<1>6. UNCHANGED vars => Kept
  BY <1>3 DEF vars, storeVars, taskVars, agentVars
<1>7. CASE Crash
  <2>1. UNCHANGED <<rows, turns>>
    BY <1>7 DEF Crash, storeVars, agentVars
  <2>2. /\ \A w \in Writers : /\ pc'[w] \in {"readCursor", "idle"} /\ cmd'[w] = NoCmd
                              /\ want'[w] = "heartbeat"
        /\ \A c \in Commands : c \in Writers
    BY <1>7 DEF Crash, Writers
  <2>3. TaskInv' /\ OneTask'
    BY <2>2 DEF TaskInv, TaskAt, WaiterAt, OneTask, AtCommand
  <2>4. RunInv' /\ NeverExecutesTwice'
    BY <2>1, <2>2 DEF RunsInv, RunInv, NeverExecutesTwice
  <2> QED
    BY <1>0, <2>3, <2>4 DEF RunsInv
<1> QED
  BY <1>0, <1>1, <1>2, <1>4, <1>5, <1>6, <1>7 DEF Next, RunsInv

-----------------------------------------------------------------------------
(* The cursor allocator *)

CursorsInv == TypeOK /\ TaskInv /\ CursorInv /\ CursorsUnique

(* A step that leaves the allocator alone keeps what the tasks know of it. *)
LEMMA AllocatorQuiet ==
    ASSUME CursorsInv, UNCHANGED <<hw, token, handed>>,
           \A w \in Writers : \/ pc'[w] \notin {"applyCursor", "checkCursor"}
                              \/ pc'[w] = pc[w] /\ base'[w] = base[w]
    PROVE  CursorInv' /\ CursorsUnique'
  BY DEF CursorsInv, CursorInv, CursorsUnique, OwnBlock, Size

(* The task gives up, has its block, or goes on to something else. *)
LEMMA AwayFromAllocator ==
    ASSUME TaskType, NEW w \in Writers,
           \/ End(w) \/ Got(w) \/ (\E x \in Wants : Record(w, x) \/ SetRow(w, x))
           \/ \E l \in Labels \ {"applyCursor", "checkCursor"} :
                 Goto(w, l) /\ UNCHANGED <<cmd, want, base, cur>>
    PROVE  \A v \in Writers : \/ pc'[v] \notin {"applyCursor", "checkCursor"}
                              \/ pc'[v] = pc[v] /\ base'[v] = base[v]
  BY DEF TaskType, End, Got, Record, SetRow, Goto

LEMMA SizePositive == \A w \in Writers : Size(w) \in Nat \ {0}
  BY CPAssumption DEF Size

(* A block that nobody was given is given to one caller. *)
LEMMA GotOnce ==
    ASSUME CursorsInv, NEW w \in Writers, Got(w), base[w] \in Nat,
           \A k \in 1..MaxCursor : k > base[w] => handed[k] = 0
    PROVE  /\ CursorsUnique'
           /\ \A k \in 1..MaxCursor : k > base[w] + Size(w) => handed'[k] = 0
<1> USE CPAssumption
<1>1. handed \in [1..MaxCursor -> Nat]
  BY DEF CursorsInv, TypeOK
<1>2. \A k \in 1..MaxCursor : handed'[k] = IF k \in base[w] + 1 .. base[w] + Size(w)
                                           THEN handed[k] + 1 ELSE handed[k]
  BY DEF Got
<1>3. ASSUME NEW k \in 1..MaxCursor PROVE handed'[k] <= 1
  <2>1. CASE k \in base[w] + 1 .. base[w] + Size(w)
    <3>1. k > base[w]
      BY <2>1, SizePositive
    <3> QED
      BY <2>1, <3>1, <1>2
  <2>2. CASE k \notin base[w] + 1 .. base[w] + Size(w)
    BY <2>2, <1>2 DEF CursorsInv, CursorsUnique
  <2> QED
    BY <2>1, <2>2
<1>4. ASSUME NEW k \in 1..MaxCursor, k > base[w] + Size(w) PROVE handed'[k] = 0
  <2>1. k \notin base[w] + 1 .. base[w] + Size(w) /\ k > base[w]
    BY <1>4, SizePositive
  <2> QED
    BY <2>1, <1>2
<1> QED
  BY <1>3, <1>4 DEF CursorsUnique

LEMMA ApplyStep ==
    ASSUME CursorsInv, NEW w \in Writers, ApplyCursor(w) PROVE CursorInv' /\ CursorsUnique'
<1> USE CPAssumption
<1>0. TaskType /\ hw \in Nat /\ base[w] \in Nat /\ handed \in [1..MaxCursor -> Nat]
  BY TypeParts DEF CursorsInv, TaskType, StoreType
<1>1. Size(w) \in Nat \ {0} /\ pc[w] = "applyCursor"
  BY SizePositive DEF ApplyCursor
<1>2. CASE Reserve(w)
  <2>1. hw = base[w] /\ hw' = base[w] + Size(w) /\ token' = w
    BY <1>2 DEF Reserve
  <2>2. \A k \in 1..MaxCursor : k > base[w] => handed[k] = 0
    BY <2>1 DEF CursorsInv, CursorInv
  <2>3. ASSUME NEW v \in Writers, v # w
        PROVE  pc'[v] = pc[v] /\ base'[v] = base[v]
    BY <2>3, <1>0, <1>1, <2>1 DEF ApplyCursor, Got, Unanswered, End, Goto, TaskType
  <2>4. CASE Got(w)
    <3>1. CursorsUnique' /\ \A k \in 1..MaxCursor : k > hw' => handed'[k] = 0
      BY <2>1, <2>2, <2>4, <1>0, GotOnce
    <3>2. pc'[w] = "append"
      BY <2>4, <1>0 DEF Got, Goto, TaskType
    <3>3. \A v \in Writers \ {w} :
              pc'[v] \in {"applyCursor", "checkCursor"} => base'[v] <= hw' /\ token' # v
      BY <2>1, <2>3, <1>0, <1>1 DEF CursorsInv, CursorInv, TaskType
    <3> QED
      BY <3>1, <3>2, <3>3 DEF CursorInv, OwnBlock
  <2>5. CASE Unanswered(w) /\ handed' = handed
    <3>1. CursorsUnique' /\ \A k \in 1..MaxCursor : k > hw' => handed'[k] = 0
      BY <2>1, <2>2, <2>5, <1>0, <1>1 DEF CursorsInv, CursorsUnique
    <3>2. pc'[w] = "idle" \/ (pc'[w] = "checkCursor" /\ base'[w] = base[w])
      <4>1. CASE End(w)
        BY <4>1, <1>0 DEF End, Goto, TaskType
      <4>2. CASE Goto(w, "checkCursor") /\ UNCHANGED base
        BY <4>2, <1>0 DEF Goto, TaskType
      <4> QED
        BY <2>5, <4>1, <4>2 DEF Unanswered
    <3>3. \A v \in Writers \ {w} :
              pc'[v] \in {"applyCursor", "checkCursor"} => base'[v] <= hw' /\ token' # v
      BY <2>1, <2>3, <1>0, <1>1 DEF CursorsInv, CursorInv, TaskType
    <3>4. pc'[w] \in {"applyCursor", "checkCursor"} =>
              /\ pc'[w] = "checkCursor" /\ base'[w] <= hw'
              /\ \A k \in 1..MaxCursor : k > base'[w] => handed'[k] = 0
      BY <2>1, <2>2, <2>5, <3>2, <1>0, <1>1
    <3> QED
      BY <3>1, <3>3, <3>4 DEF CursorInv, OwnBlock
  <2>6. CASE UNCHANGED <<hw, token, handed>>
    BY <2>1, <2>6, <1>0, <1>1
  <2> QED
    BY <1>2, <2>4, <2>5, <2>6 DEF ApplyCursor
<1>3. CASE ~Reserve(w)
  <2>0. UNCHANGED <<hw, token, handed>>
    BY <1>3 DEF ApplyCursor
  <2>1. CASE Goto(w, "readCursor") /\ UNCHANGED <<cmd, want, base, cur>>
    BY <2>0, <2>1, <1>0, AwayFromAllocator, AllocatorQuiet DEF Labels
  <2>2. CASE End(w)
    BY <2>0, <2>2, <1>0, AwayFromAllocator, AllocatorQuiet
  <2>3. CASE Goto(w, "checkCursor") /\ UNCHANGED <<cmd, want, base, cur, seen>>
    <3>1. ~OwnBlock(w)
      BY <1>0, <1>1 DEF CursorsInv, CursorInv, OwnBlock
    <3>2. /\ \A v \in Writers \ {w} : pc'[v] = pc[v] /\ base'[v] = base[v]
          /\ pc'[w] = "checkCursor" /\ base'[w] = base[w]
      BY <2>3, <1>0 DEF Goto, TaskType
    <3>3. ~OwnBlock(w)'
      BY <2>0, <3>1, <3>2 DEF OwnBlock, Size
    <3>4. ASSUME NEW v \in Writers
          PROVE  /\ pc'[v] \in {"applyCursor", "checkCursor"} => base'[v] <= hw'
                 /\ pc'[v] = "applyCursor" /\ token' = v => hw' = base'[v]
                 /\ pc'[v] = "checkCursor" /\ OwnBlock(v)' =>
                       \A k \in 1..MaxCursor : k > base'[v] => handed'[k] = 0
      <4>1. CASE v = w
        BY <4>1, <3>2, <3>3, <2>0, <1>1 DEF CursorsInv, CursorInv
      <4>2. CASE v # w
        BY <4>2, <3>2, <2>0 DEF CursorsInv, CursorInv, OwnBlock, Size
      <4> QED
        BY <4>1, <4>2
    <3> QED
      BY <3>4, <2>0 DEF CursorsInv, CursorInv, CursorsUnique
  <2> QED
    BY <1>3, <2>1, <2>2, <2>3 DEF Retry, ApplyCursor, Unanswered
<1> QED
  BY <1>2, <1>3

LEMMA CheckStep ==
    ASSUME CursorsInv, NEW w \in Writers, CheckCursor(w) PROVE CursorInv' /\ CursorsUnique'
<1> USE CPAssumption
<1>0. TaskType /\ hw \in Nat /\ base[w] \in Nat /\ UNCHANGED <<hw, token>>
  BY TypeParts DEF CursorsInv, TaskType, StoreType, CheckCursor, storeVars
<1>1. CASE OwnBlock(w) /\ Got(w)
  <2>1. hw = base[w] + Size(w) /\ token = w /\ \A k \in 1..MaxCursor : k > base[w] => handed[k] = 0
    BY <1>1 DEF CheckCursor, CursorsInv, CursorInv, OwnBlock
  <2>2. CursorsUnique' /\ \A k \in 1..MaxCursor : k > hw' => handed'[k] = 0
    BY <1>0, <1>1, <2>1, GotOnce
  <2>3. \A v \in Writers : \/ pc'[v] \notin {"applyCursor", "checkCursor"}
                           \/ v # w /\ pc'[v] = pc[v] /\ base'[v] = base[v]
    BY <1>0, <1>1 DEF Got, Goto, TaskType
  <2> QED
    BY <1>0, <2>1, <2>2, <2>3 DEF CursorsInv, CursorInv, OwnBlock, Size
<1>2. CASE handed' = handed /\ (End(w) \/ (Goto(w, "readCursor") /\ UNCHANGED <<cmd, want, base, cur>>))
  BY <1>0, <1>2, AwayFromAllocator, AllocatorQuiet DEF Labels
<1> QED
  BY <1>1, <1>2 DEF Retry, CheckCursor

LEMMA CursorsInit == Init => CursorInv /\ CursorsUnique
  BY DEF Init, CursorInv, CursorsUnique

LEMMA CursorsStep == CursorsInv /\ [Next]_vars => CursorInv' /\ CursorsUnique'
<1> SUFFICES ASSUME CursorsInv, [Next]_vars PROVE CursorInv' /\ CursorsUnique'
  OBVIOUS
<1> USE CPAssumption
<1> DEFINE Away == \A v \in Writers : \/ pc'[v] \notin {"applyCursor", "checkCursor"}
                                      \/ pc'[v] = pc[v] /\ base'[v] = base[v]
<1>0. TaskType /\ TaskInv /\ hw \in Nat
  BY TypeParts DEF CursorsInv, StoreType
<1>1. ASSUME NEW w \in Writers, ReadCursor(w) PROVE CursorInv' /\ CursorsUnique'
  <2>0. UNCHANGED <<hw, token, handed>>
    BY <1>1 DEF ReadCursor, storeVars
  <2>1. CASE End(w)
    BY <2>0, <2>1, <1>0, AwayFromAllocator, AllocatorQuiet
  <2>2. CASE base' = [base EXCEPT ![w] = hw] /\ Goto(w, "applyCursor")
    <3>1. /\ pc'[w] = "applyCursor" /\ base'[w] = hw
          /\ \A v \in Writers \ {w} : pc'[v] = pc[v] /\ base'[v] = base[v]
      BY <2>2, <1>0 DEF Goto, TaskType
    <3> QED
      BY <2>0, <3>1, <1>0 DEF CursorsInv, CursorInv, CursorsUnique, OwnBlock, Size
  <2> QED
    BY <1>1, <2>1, <2>2 DEF ReadCursor
<1>2. ASSUME NEW w \in Writers, Updated(w), cmd[w] \in Commands PROVE Away
  <2>1. CASE want[w] = "running" /\ Agent(cmd[w])
    <3>1. PICK c \in Commands : c = cmd[w]
      BY <1>2
    <3>2. c \in Writers
      BY DEF Writers
    <3>3. /\ pc' = [[pc EXCEPT ![w] = "idle"] EXCEPT ![c] = "wait"]
          /\ base' = [base EXCEPT ![w] = 0]
      BY <1>2, <2>1, <3>1, Zenon DEF Updated, SpawnWaiter
    <3> QED
      BY <3>2, <3>3, <1>0 DEF TaskType
  <2>2. CASE ~(want[w] = "running" /\ Agent(cmd[w]))
    <3>1. End(w) \/ (Goto(w, "note") /\ UNCHANGED <<cmd, want, base, cur>>)
      BY <1>2, <2>2 DEF Updated, Agent
    <3> QED
      BY <3>1, <1>0, AwayFromAllocator DEF Labels
  <2> QED
    BY <2>1, <2>2
<1>3. ASSUME NEW w \in Writers, AppendEvent(w) PROVE Away /\ UNCHANGED <<hw, token, handed>>
  <2>1. want[w] \in Wants
    BY <1>0 DEF TaskType
  <2>2. \/ End(w) \/ SetRow(w, want[w])
        \/ Goto(w, "launch") /\ UNCHANGED <<cmd, want, base, cur>>
    BY <1>3 DEF AppendEvent, Recorded
  <2> QED
    BY <1>3, <2>1, <2>2, <1>0, AwayFromAllocator DEF AppendEvent, Labels
<1>4. ASSUME NEW w \in Writers, ReadRow(w) PROVE Away /\ UNCHANGED <<hw, token, handed>>
  <2>1. cmd[w] \in Commands
    BY <1>4, <1>0 DEF ReadRow, TaskInv, TaskAt, AtCommand
  <2>2. \/ Updated(w) \/ End(w)
        \/ Goto(w, "applyRow") /\ UNCHANGED <<cmd, want, base, cur>>
    BY <1>4 DEF ReadRow
  <2>3. Away
    BY <2>1, <2>2, <1>0, <1>2, AwayFromAllocator DEF Labels
  <2> QED
    BY <1>4, <2>3 DEF ReadRow, storeVars
<1>5. ASSUME NEW w \in Writers, ApplyRow(w) PROVE Away /\ UNCHANGED <<hw, token, handed>>
  <2>1. cmd[w] \in Commands
    BY <1>5, <1>0 DEF ApplyRow, TaskInv, TaskAt, AtCommand
  <2>2. Updated(w) \/ End(w)
    BY <1>5 DEF ApplyRow
  <2>3. Away
    BY <2>1, <2>2, <1>0, <1>2, AwayFromAllocator
  <2> QED
    BY <1>5, <2>3 DEF ApplyRow
<1>6. ASSUME NEW w \in Writers, Launch(w) \/ Respawn(w) \/ Wait(w) \/ Capture(w) \/ NoteStep(w)
      PROVE  Away /\ UNCHANGED <<hw, token, handed>>
  <2>1. \/ \E x \in Wants : Record(w, x) \/ SetRow(w, x)
        \/ \E l \in {"respawn", "capture"} : Goto(w, l) /\ UNCHANGED <<cmd, want, base, cur>>
    BY <1>6 DEF Launch, Respawn, Wait, Capture, NoteStep, Wants
  <2>2. Away
    BY <2>1, <1>0, AwayFromAllocator DEF Labels
  <2> QED
    BY <1>6, <2>2 DEF Launch, Respawn, Wait, Capture, NoteStep, storeVars
<1>7. ASSUME NEW w \in Sessions, NEW c \in Commands, Put(w, c)
      PROVE  Away /\ UNCHANGED <<hw, token, handed>>
  <2>1. w \in Writers
    BY DEF Writers
  <2>2. CASE UNCHANGED taskVars
    BY <1>7, <2>2 DEF Put, taskVars
  <2>3. CASE Accepted(w, c)
    BY <1>7, <2>1, <2>3, <1>0 DEF Put, Accepted, Goto, TaskType
  <2> QED
    BY <1>7, <2>2, <2>3 DEF Put
<1>8. ASSUME NEW d \in Devices, ReadHighWater(d) \/ Deliver(d)
      PROVE  Away /\ UNCHANGED <<hw, token, handed>>
  BY <1>8 DEF ReadHighWater, Deliver, storeVars, taskVars
<1>9. TurnEnds \/ UNCHANGED vars => Away /\ UNCHANGED <<hw, token, handed>>
  BY DEF TurnEnds, vars, storeVars, taskVars
<1>10. Crash => Away /\ UNCHANGED <<hw, token, handed>>
  BY DEF Crash, storeVars
<1>11. Away /\ UNCHANGED <<hw, token, handed>> => CursorInv' /\ CursorsUnique'
  BY AllocatorQuiet
<1> HIDE DEF Away
<1> QED
  BY <1>1, <1>3, <1>4, <1>5, <1>6, <1>7, <1>8, <1>9, <1>10, <1>11, ApplyStep, CheckStep
     DEF Next, TaskStep

-----------------------------------------------------------------------------
(* The replay of the log *)

BatchStep ==
    \A d \in Devices : \A k \in 1..MaxCursor :
        (resume[d] < k /\ k <= resume'[d] /\ events[k] # NoEvent) => k \in delivered'[d]

(* Only a batch moves a device. *)
LEMMA DevicesKept ==
    ASSUME [Next]_vars, ~\E d \in Devices : Deliver(d) PROVE resume' = resume
<1>1. ASSUME NEW w \in Writers, TaskStep(w) PROVE resume' = resume
  BY <1>1 DEF TaskStep, ReadCursor, ApplyCursor, CheckCursor, AppendEvent, ReadRow, ApplyRow,
       Launch, Respawn, Wait, Capture, NoteStep, deviceVars
<1>2. ASSUME NEW w \in Sessions, NEW c \in Commands, Put(w, c) PROVE resume' = resume
  BY <1>2 DEF Put, deviceVars
<1>3. ASSUME NEW d \in Devices, ReadHighWater(d) PROVE resume' = resume
  BY <1>3 DEF ReadHighWater
<1>4. TurnEnds \/ Crash \/ UNCHANGED vars => resume' = resume
  BY DEF TurnEnds, Crash, vars, deviceVars
<1> QED
  BY <1>1, <1>2, <1>3, <1>4 DEF Next

LEMMA DeliverOmitsNothing ==
    ASSUME TypeOK, NEW e \in Devices, Deliver(e) PROVE BatchStep
<1> USE CPAssumption
<1>0. OtherType
  BY TypeParts
<1>1. PICK n \in 0..PageLimit :
          /\ n = 0 => Replay(e) = {}
          /\ delivered' = [delivered EXCEPT ![e] = @ \cup FirstOf(Replay(e), n)]
          /\ resume' = [resume EXCEPT ![e] = BatchEnd(e, FirstOf(Replay(e), n))]
  BY DEF Deliver
<1>2. Replay(e) \in SUBSET (1..MaxCursor) /\ n \in Nat /\ page[e] \in Nat /\ resume[e] \in Nat
  BY <1>0 DEF Replay, OtherType
<1>3. FirstOf(Replay(e), n) \subseteq delivered'[e]
  BY <1>0, <1>1 DEF OtherType
<1>4. resume'[e] = BatchEnd(e, FirstOf(Replay(e), n))
  BY <1>0, <1>1 DEF OtherType
<1>5. ASSUME NEW k \in 1..MaxCursor, resume[e] < k, k <= resume'[e], events[k] # NoEvent
      PROVE  k \in FirstOf(Replay(e), n)
  <2>1. CASE FirstOf(Replay(e), n) = Replay(e)
    <3>1. k <= page[e] - 1
      BY <1>4, <1>5, <2>1 DEF BatchEnd
    <3>2. resume[e] < page[e] - 1
      BY <1>2, <1>5, <3>1
    <3>3. k \in Replay(e)
      BY <1>5, <3>2 DEF Replay
    <3> QED
      BY <2>1, <3>3
  <2>2. CASE FirstOf(Replay(e), n) # Replay(e)
    <3>1. /\ LastOf(FirstOf(Replay(e), n)) \in FirstOf(Replay(e), n)
          /\ \A j \in Replay(e) :
                j <= LastOf(FirstOf(Replay(e), n)) => j \in FirstOf(Replay(e), n)
      BY <1>1, <1>2, <2>2, CutPage
    <3>2. resume[e] < page[e] - 1
      BY <3>1 DEF FirstOf, Replay
    <3>3. k \in Replay(e)
      BY <1>5, <3>2 DEF Replay
    <3>4. k <= LastOf(FirstOf(Replay(e), n))
      BY <1>4, <1>5, <2>2 DEF BatchEnd
    <3> QED
      BY <3>1, <3>3, <3>4
  <2> QED
    BY <2>1, <2>2
<1>6. ASSUME NEW d \in Devices, d # e PROVE resume'[d] = resume[d] /\ resume[d] \in Nat
  BY <1>0, <1>1, <1>6 DEF OtherType
<1> QED
  BY <1>3, <1>5, <1>6 DEF BatchStep

LEMMA BatchesOmitNothing ==
    ASSUME TypeOK, [Next]_vars PROVE BatchStep
<1>1. CASE \E d \in Devices : Deliver(d)
  BY <1>1, DeliverOmitsNothing
<1>2. CASE ~\E d \in Devices : Deliver(d)
  <2>1. resume' = resume /\ resume \in [Devices -> Nat]
    BY <1>2, DevicesKept DEF TypeOK
  <2> QED
    BY <2>1 DEF BatchStep
<1> QED
  BY <1>1, <1>2

-----------------------------------------------------------------------------
Inv == RunsInv /\ CursorInv /\ CursorsUnique

(* The inductive invariant of the control plane. *)
THEOREM Invariance == Spec => []Inv
<1>1. Init => Inv
  BY RunsInit, CursorsInit DEF Inv
<1>2. Inv /\ [Next]_vars => Inv'
  BY RunsStep, CursorsStep DEF Inv, RunsInv, CursorsInv
<1> QED
  BY <1>1, <1>2, PTL DEF Spec

(* The store, the tasks, the pane and the devices keep their types under every
   fault; a page that is cut ends at a cursor it holds. *)
THEOREM TypeCorrect == Spec => []TypeOK
<1>1. Inv => TypeOK
  BY DEF Inv, RunsInv
<1> QED
  BY <1>1, Invariance, PTL

(* reserve_cursor_block returns no cursor to two callers, whatever answers of
   the compare-and-set are lost and whoever reserves in between. *)
THEOREM CursorsNeverReused == Spec => []CursorsUnique
<1>1. Inv => CursorsUnique
  BY DEF Inv
<1> QED
  BY <1>1, Invariance, PTL

(* The agent of a command is started at most once, over any number of sessions,
   repeated frames, lost answers and restarts of the listener. *)
THEOREM StartedOnce == Spec => []NeverExecutesTwice
<1>1. Inv => NeverExecutesTwice
  BY DEF Inv, RunsInv
<1> QED
  BY <1>1, Invariance, PTL

(* A batch never passes over an event that was in the log when it was read,
   wherever the page limit or the frame limit cuts it. *)
THEOREM NothingOmitted == Spec => BatchOmitsNothing
<1>1. TypeOK /\ [Next]_vars => BatchStep
  BY BatchesOmitNothing
<1> QED
  BY <1>1, TypeCorrect, PTL DEF Spec, BatchOmitsNothing, BatchStep

-----------------------------------------------------------------------------
(* The log, the results of the agents and the notes *)

CursorPcs == {"readCursor", "applyCursor", "checkCursor", "append"}

Outcomes == {"succeeded", "failed"}

(* The cursors of the events of command c. *)
EventsOf(c) == {k \in 1..MaxCursor : events[k] # NoEvent /\ events[k].cmd = c}

HasRun(c) == \E i \in 1..Len(turns) : turns[i] = c

(* Which operation leads where: only an agent is launched and waited for, and
   its turn is started before its row is set to running. *)
PathAt(w) ==
    /\ pc[w] \in CursorPcs => want[w] \in {"accepted", "succeeded", "failed"}
    /\ pc[w] \in {"wait", "capture"} => Agent(cmd[w])
    /\ want[w] = "accepted" => Agent(cmd[w])
    /\ pc[w] \in {"wait", "capture"} => HasRun(cmd[w])
    /\ pc[w] \in {"readRow", "applyRow"} /\ want[w] = "running" /\ Agent(cmd[w])
         => HasRun(cmd[w])

(* A task that has yet to record the outcome of its command finds at most the
   acceptance of it in the log, below the cursor it is about to use; one that
   sets the row to an outcome has recorded it at its cursor. *)
LogAt(w) ==
    /\ pc[w] \in CursorPcs /\ want[w] = "accepted" => EventsOf(cmd[w]) = {}
    /\ ~(pc[w] \in {"readRow", "applyRow"} /\ want[w] \in Outcomes)
         => \A k \in EventsOf(cmd[w]) : events[k].kind = "accepted"
    /\ pc[w] \in {"applyCursor", "checkCursor"} => \A k \in EventsOf(cmd[w]) : k <= base[w]
    /\ pc[w] = "append" => \A k \in EventsOf(cmd[w]) : k < cur[w]
    /\ pc[w] \in {"readRow", "applyRow"} /\ want[w] \in Outcomes
         => /\ cur[w] \in 1..MaxCursor
            /\ events[cur[w]] = [cmd |-> cmd[w], kind |-> want[w]]

StoryAt(w) == cmd[w] \in Commands => PathAt(w) /\ LogAt(w)

(* The log lies below the high water; what is in it has its row. *)
LogInv ==
    /\ hw <= MaxCursor
    /\ \A k \in 1..MaxCursor : events[k] # NoEvent => k <= hw
    /\ \A c \in Commands : EventsOf(c) # {} => rows[c].state # "absent"
    /\ \A w \in Writers : /\ pc[w] = "append" => cur[w] # 0
                          /\ pc[w] \in {"applyCursor", "checkCursor"}
                               => base[w] + Size(w) <= MaxCursor

(* c is merged: it has succeeded, or its task is about to say so. *)
Merged(c) ==
    \/ rows[c].state = "succeeded"
    \/ \E w \in Writers : cmd[w] = c /\ want[w] = "succeeded"

IsAppend(c) == Op[c].kind = "append"

Calm == faults = 0 /\ \A b \in Commands : Op[b].kind = "commit" => rows[b].state = "absent"

(* While no note is committed and the listener lives, next sequence numbers
   are above those of the merged appends. *)
NotesInv ==
    Calm => /\ \A c \in Commands :
                 IsAppend(c) /\ Merged(c) => Op[c].seq < noteNext[Op[c].note]
            /\ \A c, d \in Commands :
                 IsAppend(c) /\ Op[c] = Op[d] /\ Merged(c) /\ Merged(d) => c = d

StoryInv ==
    /\ \A w \in Writers : StoryAt(w)
    /\ LogInv /\ LogTellsOneStory
    /\ NotesInv

(* Turns are only ever appended. *)
LEMMA TurnsGrow ==
    ASSUME TypeOK, [Next]_vars
    PROVE  /\ Len(turns) \in Nat /\ Len(turns') \in Nat /\ Len(turns) <= Len(turns')
           /\ \A i \in 1..Len(turns) : turns'[i] = turns[i]
           /\ \A c \in Commands : HasRun(c) => HasRun(c)'
<1>0. turns \in Seq(Commands) /\ Len(turns) \in Nat
  BY DEF TypeOK
<1>1. \A w \in Writers : Respawn(w) => turns' = turns \/ turns' = Append(turns, cmd[w])
  BY DEF Respawn
<1>2. \A w \in Sessions, c \in Commands : Put(w, c) => turns' = turns
  BY DEF Put, agentVars
<1>3. \A d \in Devices : ReadHighWater(d) \/ Deliver(d) => turns' = turns
  BY DEF ReadHighWater, Deliver, agentVars
<1>4. TurnEnds \/ Crash \/ UNCHANGED vars => turns' = turns
  BY DEF TurnEnds, Crash, vars, agentVars
<1>5. turns' = turns \/ \E w \in Writers : turns' = Append(turns, cmd[w])
  BY <1>1, <1>2, <1>3, <1>4, OtherTaskStarts DEF Next
<1>6. /\ Len(turns') \in Nat /\ Len(turns) <= Len(turns')
      /\ \A i \in 1..Len(turns) : turns'[i] = turns[i]
  <2>1. CASE turns' = turns
    BY <1>0, <2>1
  <2>2. ASSUME NEW w \in Writers, turns' = Append(turns, cmd[w])
        PROVE  /\ Len(turns') \in Nat /\ Len(turns) <= Len(turns')
               /\ \A i \in 1..Len(turns) : turns'[i] = turns[i]
    <3>1. Len(turns') = Len(turns) + 1 /\ \A i \in 1..Len(turns) : turns'[i] = turns[i]
      BY <1>0, <2>2
    <3> QED
      BY <1>0, <3>1
  <2> QED
    BY <1>5, <2>1, <2>2
<1>7. ASSUME NEW c \in Commands, HasRun(c) PROVE HasRun(c)'
  <2>1. PICK i \in 1..Len(turns) : turns[i] = c
    BY <1>7 DEF HasRun
  <2>2. i \in 1..Len(turns') /\ turns'[i] = c
    BY <1>0, <1>6, <2>1
  <2> QED
    BY <2>2 DEF HasRun
<1> QED
  BY <1>0, <1>6, <1>7

(* A step moves one task; where it leads. *)
TaskOnly(w) ==
    \A v \in Writers \ {w} : /\ pc'[v] = pc[v] /\ cmd'[v] = cmd[v] /\ want'[v] = want[v]
                             /\ base'[v] = base[v] /\ cur'[v] = cur[v]

LEMMA EndLeads ==
    ASSUME TaskType, NEW w \in Writers, End(w)
    PROVE  TaskOnly(w) /\ pc'[w] = "idle" /\ cmd'[w] = NoCmd /\ want'[w] = "heartbeat"
  BY DEF TaskType, End, Goto, TaskOnly

LEMMA RecordLeads ==
    ASSUME TaskType, NEW w \in Writers, NEW x \in Wants, Record(w, x)
    PROVE  TaskOnly(w) /\ pc'[w] = "readCursor" /\ cmd'[w] = cmd[w] /\ want'[w] = x
  BY DEF TaskType, Record, Goto, TaskOnly

LEMMA SetRowLeads ==
    ASSUME TaskType, NEW w \in Writers, NEW x \in Wants, SetRow(w, x)
    PROVE  /\ TaskOnly(w) /\ pc'[w] = "readRow" /\ cmd'[w] = cmd[w] /\ want'[w] = x
           /\ cur'[w] = cur[w]
  BY DEF TaskType, SetRow, Goto, TaskOnly

LEMMA GotoLeads ==
    ASSUME TaskType, NEW w \in Writers, NEW l \in Labels, Goto(w, l), UNCHANGED <<cmd, want, base, cur>>
    PROVE  /\ TaskOnly(w) /\ pc'[w] = l /\ cmd'[w] = cmd[w] /\ want'[w] = want[w]
           /\ base'[w] = base[w] /\ cur'[w] = cur[w]
  BY DEF TaskType, Goto, TaskOnly

LEMMA GotLeads ==
    ASSUME TaskType, NEW w \in Writers, Got(w)
    PROVE  /\ TaskOnly(w) /\ pc'[w] = "append" /\ cmd'[w] = cmd[w] /\ want'[w] = want[w]
           /\ cur'[w] = base[w] + 1
  BY DEF TaskType, Got, Goto, TaskOnly

-----------------------------------------------------------------------------
(* What a task knows of the log, through the steps of the others and its own *)

(* Every event is still there, and c has no other ones. *)
LogKept(c) ==
    \A k \in 1..MaxCursor :
        /\ events[k] # NoEvent => events'[k] = events[k]
        /\ events'[k] # NoEvent /\ events'[k].cmd = c => events[k] # NoEvent

RunsKept == \A i \in 1..Len(turns) : i \in 1..Len(turns') /\ turns'[i] = turns[i]

(* A task that stands still. *)
LEMMA StoryKept ==
    ASSUME NEW v \in Writers, StoryAt(v), RunsKept, cmd[v] \in Commands => LogKept(cmd[v]),
           pc'[v] = pc[v], cmd'[v] = cmd[v], want'[v] = want[v], base'[v] = base[v], cur'[v] = cur[v]
    PROVE  StoryAt(v)'
<1> SUFFICES ASSUME cmd[v] \in Commands PROVE PathAt(v)' /\ LogAt(v)'
  BY DEF StoryAt
<1>0. PathAt(v) /\ LogAt(v) /\ LogKept(cmd[v])
  BY DEF StoryAt
<1>1. PathAt(v)'
  <2>1. HasRun(cmd[v]) => \E i \in 1..Len(turns') : turns'[i] = cmd[v]
    BY DEF HasRun, RunsKept
  <2> QED
    BY <1>0, <2>1 DEF PathAt, HasRun, Agent
<1>2. \A k \in 1..MaxCursor : events'[k] # NoEvent /\ events'[k].cmd = cmd[v]
        => events[k] # NoEvent /\ events'[k] = events[k] /\ k \in EventsOf(cmd[v])
  BY <1>0 DEF LogKept, EventsOf
<1>3. LogAt(v)'
  <2>1. events[cur[v]] = [cmd |-> cmd[v], kind |-> want[v]] /\ cur[v] \in 1..MaxCursor
          /\ want[v] \in Outcomes => events'[cur[v]] = events[cur[v]]
    <3> SUFFICES ASSUME events[cur[v]] = [cmd |-> cmd[v], kind |-> want[v]],
                        cur[v] \in 1..MaxCursor, want[v] \in Outcomes
                 PROVE  events'[cur[v]] = events[cur[v]]
      OBVIOUS
    <3>1. events[cur[v]] \in Events
      BY DEF Events, Wants, Outcomes
    <3> QED
      BY <1>0, <3>1, CPAssumption DEF LogKept
  <2>2. /\ pc[v] \in CursorPcs /\ want[v] = "accepted" => EventsOf(cmd[v])' = {}
        /\ ~(pc[v] \in {"readRow", "applyRow"} /\ want[v] \in Outcomes)
             => \A k \in EventsOf(cmd[v])' : events'[k].kind = "accepted"
        /\ pc[v] \in {"applyCursor", "checkCursor"} => \A k \in EventsOf(cmd[v])' : k <= base[v]
        /\ pc[v] = "append" => \A k \in EventsOf(cmd[v])' : k < cur[v]
    BY <1>0, <1>2 DEF LogAt, EventsOf
  <2>3. pc[v] \in {"readRow", "applyRow"} /\ want[v] \in Outcomes
         => /\ cur[v] \in 1..MaxCursor
            /\ events'[cur[v]] = [cmd |-> cmd[v], kind |-> want[v]]
    BY <1>0, <2>1 DEF LogAt
  <2> QED
    BY <2>2, <2>3 DEF LogAt
<1> QED
  BY <1>1, <1>3

(* A step of w leaves the other tasks their knowledge, as long as it adds no
   event but one of its own command. *)
LEMMA OtherStories ==
    ASSUME TypeOK, OneTask, StoryInv, RunsKept, NEW w \in Writers, TaskOnly(w),
           \A c \in Commands : c # cmd[w] => LogKept(c)
    PROVE  \A v \in Writers \ {w} : StoryAt(v)'
<1> SUFFICES ASSUME NEW v \in Writers \ {w} PROVE StoryAt(v)'
  OBVIOUS
<1>1. cmd[v] \in Commands => cmd[v] # cmd[w]
  BY DEF OneTask
<1>2. cmd[v] \in Commands => LogKept(cmd[v])
  BY <1>1
<1>3. StoryAt(v)
  BY DEF StoryInv
<1> QED
  BY <1>2, <1>3, StoryKept DEF TaskOnly

(* The step of a task that is not about the log. *)
LEMMA OwnLog ==
    ASSUME NEW w \in Writers, cmd'[w] = cmd[w], events' = events,
           \A k \in EventsOf(cmd[w]) : events[k].kind = "accepted",
           pc'[w] \notin {"applyCursor", "checkCursor", "append"},
           pc'[w] = "readCursor" => want'[w] \in Outcomes,
           pc'[w] \in {"readRow", "applyRow"} => want'[w] = "running"
    PROVE  LogAt(w)'
<1>1. EventsOf(cmd[w])' = EventsOf(cmd[w])
  BY DEF EventsOf
<1> QED
  BY <1>1 DEF LogAt, CursorPcs, Outcomes

(* What the log says. *)
LEMMA LogStays ==
    ASSUME LogInv, LogTellsOneStory, UNCHANGED <<hw, events, rows>>,
           \A v \in Writers : \/ pc'[v] \notin {"applyCursor", "checkCursor", "append"}
                              \/ pc'[v] = pc[v] /\ base'[v] = base[v] /\ cur'[v] = cur[v]
    PROVE  LogInv' /\ LogTellsOneStory'
<1>1. LogInv'
  BY DEF LogInv, EventsOf, Size
<1>2. LogTellsOneStory'
  BY DEF LogTellsOneStory, RowNamesItsEvent, Terminal
<1> QED
  BY <1>1, <1>2

-----------------------------------------------------------------------------
(* One lemma per step, for the tasks and the log *)

Told == (\A w \in Writers : StoryAt(w)) /\ LogInv /\ LogTellsOneStory

Known == Inv /\ StoryInv /\ RunsKept

LEMMA KnownParts ==
    ASSUME Known
    PROVE  /\ TypeOK /\ TaskType /\ StoreType /\ OtherType /\ TaskInv /\ OneTask /\ RunInv
           /\ CursorInv /\ RunsKept /\ Told /\ StoryInv
  BY TypeParts DEF Known, Inv, RunsInv, StoryInv, Told

LEMMA NoNews ==
    ASSUME events' = events PROVE \A c \in Commands : LogKept(c)
  BY DEF LogKept

(* Steps that leave the store alone and are not about to use a cursor. *)
LEMMA QuietTold ==
    ASSUME Known, NEW w \in Writers, TaskOnly(w), UNCHANGED <<hw, events, rows>>,
           pc'[w] \notin {"applyCursor", "checkCursor", "append"}, StoryAt(w)'
    PROVE  Told'
<1>0. TypeOK /\ OneTask /\ StoryInv /\ RunsKept /\ Told
  BY KnownParts
<1>1. \A v \in Writers \ {w} : StoryAt(v)'
  BY <1>0, NoNews, OtherStories
<1>2. LogInv' /\ LogTellsOneStory'
  BY <1>0, LogStays DEF Told, TaskOnly
<1> QED
  BY <1>1, <1>2 DEF Told

LEMMA EndTold ==
    ASSUME Known, NEW w \in Writers, End(w), UNCHANGED <<hw, events, rows>>
    PROVE  Told'
<1>0. TaskType
  BY KnownParts
<1>1. TaskOnly(w) /\ pc'[w] = "idle" /\ cmd'[w] = NoCmd
  BY <1>0, EndLeads
<1>2. StoryAt(w)'
  BY <1>1, CPAssumption DEF StoryAt
<1> QED
  BY <1>1, <1>2, QuietTold

LEMMA ReadCursorTold ==
    ASSUME Known, NEW w \in Writers, ReadCursor(w) PROVE Told'
<1> USE CPAssumption
<1>0. TaskType /\ StoreType /\ Told /\ OneTask /\ StoryInv /\ RunsKept /\ TypeOK
  BY KnownParts
<1>1. UNCHANGED <<hw, events, rows>> /\ pc[w] = "readCursor"
  BY DEF ReadCursor, storeVars
<1>2. CASE End(w)
  BY <1>1, <1>2, EndTold
<1>3. CASE /\ hw + Size(w) <= MaxCursor
           /\ base' = [base EXCEPT ![w] = hw]
           /\ Goto(w, "applyCursor")
           /\ UNCHANGED <<cmd, want, cur, seen>>
  <2>1. /\ TaskOnly(w) /\ pc'[w] = "applyCursor" /\ base'[w] = hw
        /\ cmd'[w] = cmd[w] /\ want'[w] = want[w]
    BY <1>0, <1>3 DEF TaskOnly, TaskType, Goto
  <2>2. \A v \in Writers \ {w} : StoryAt(v)'
    BY <1>0, <1>1, <2>1, NoNews, OtherStories
  <2>3. StoryAt(w)'
    <3> SUFFICES ASSUME cmd[w] \in Commands PROVE PathAt(w)' /\ LogAt(w)'
      BY <2>1 DEF StoryAt
    <3>1. PathAt(w) /\ LogAt(w)
      BY <1>0 DEF Told, StoryAt
    <3>2. PathAt(w)'
      BY <1>1, <2>1, <3>1 DEF PathAt, CursorPcs, Agent
    <3>3. EventsOf(cmd[w])' = EventsOf(cmd[w])
      BY <1>1, <2>1 DEF EventsOf
    <3>4. \A k \in EventsOf(cmd[w]) : k <= hw
      BY <1>0 DEF Told, LogInv, EventsOf
    <3> QED
      BY <1>1, <2>1, <3>1, <3>2, <3>3, <3>4 DEF LogAt, CursorPcs
  <2>4. LogInv'
    BY <1>0, <1>1, <1>3, <2>1 DEF Told, LogInv, EventsOf, Size, TaskOnly
  <2>5. LogTellsOneStory'
    BY <1>0, <1>1 DEF Told, LogTellsOneStory, RowNamesItsEvent, Terminal
  <2> QED
    BY <2>2, <2>3, <2>4, <2>5 DEF Told
<1> QED
  BY <1>2, <1>3 DEF ReadCursor

(* The allocator: the high water rises within the space, and the cursor in hand
   is above what the command has in the log. *)
LEMMA AllocatorTold ==
    ASSUME Known, NEW w \in Writers, TaskOnly(w), UNCHANGED <<events, rows>>,
           pc[w] \in {"applyCursor", "checkCursor"}, cmd'[w] = cmd[w], want'[w] = want[w],
           hw' = hw \/ (hw = base[w] /\ hw' = base[w] + Size(w)),
           \/ pc'[w] = "readCursor"
           \/ pc'[w] = "checkCursor" /\ base'[w] = base[w]
           \/ pc'[w] = "append" /\ cur'[w] = base[w] + 1
    PROVE  Told'
<1> USE CPAssumption
<1>0. TaskType /\ StoreType /\ Told /\ OneTask /\ StoryInv /\ RunsKept /\ TypeOK
  BY KnownParts
<1>a. hw \in Nat /\ base[w] \in Nat /\ Size(w) \in Nat \ {0} /\ hw <= hw' /\ hw' \in Nat
  BY <1>0, SizePositive DEF TaskType, StoreType
<1>1. \A v \in Writers \ {w} : StoryAt(v)'
  BY <1>0, NoNews, OtherStories
<1>2. StoryAt(w)'
  <2> SUFFICES ASSUME cmd[w] \in Commands PROVE PathAt(w)' /\ LogAt(w)'
    BY DEF StoryAt
  <2>1. PathAt(w) /\ LogAt(w)
    BY <1>0 DEF Told, StoryAt
  <2>2. PathAt(w)'
    BY <2>1 DEF PathAt, CursorPcs, Agent
  <2>3. EventsOf(cmd[w])' = EventsOf(cmd[w])
    BY DEF EventsOf
  <2>4. \A k \in EventsOf(cmd[w]) : k <= base[w] /\ k < base[w] + 1
    <3>1. \A k \in EventsOf(cmd[w]) : k \in Nat
      BY DEF EventsOf
    <3> QED
      BY <1>a, <2>1, <3>1 DEF LogAt
  <2> QED
    BY <2>1, <2>2, <2>3, <2>4 DEF LogAt, CursorPcs
<1>3. LogInv'
  <2>1. hw' <= MaxCursor
    BY <1>0, <1>a DEF Told, LogInv
  <2>2. \A k \in 1..MaxCursor : events'[k] # NoEvent => k <= hw'
    BY <1>0, <1>a DEF Told, LogInv
  <2>3. \A c \in Commands : EventsOf(c)' # {} => rows'[c].state # "absent"
    BY <1>0 DEF Told, LogInv, EventsOf
  <2>4. ASSUME NEW v \in Writers
        PROVE  /\ pc'[v] = "append" => cur'[v] # 0
               /\ pc'[v] \in {"applyCursor", "checkCursor"} => base'[v] + Size(v) <= MaxCursor
    <3>1. CASE v = w
      BY <1>0, <1>a, <3>1 DEF Told, LogInv
    <3>2. CASE v # w
      BY <1>0, <3>2 DEF Told, LogInv, TaskOnly
    <3> QED
      BY <3>1, <3>2
  <2> QED
    BY <2>1, <2>2, <2>3, <2>4 DEF LogInv, Size
<1>4. LogTellsOneStory'
  BY <1>0 DEF Told, LogTellsOneStory, RowNamesItsEvent, Terminal
<1> QED
  BY <1>1, <1>2, <1>3, <1>4 DEF Told

(* The task gives up in the middle of a reservation. *)
LEMMA AllocatorEndTold ==
    ASSUME Known, NEW w \in Writers, End(w), UNCHANGED <<events, rows>>,
           pc[w] = "applyCursor", hw = base[w], hw' = base[w] + Size(w)
    PROVE  Told'
<1> USE CPAssumption
<1>0. TaskType /\ StoreType /\ Told /\ OneTask /\ StoryInv /\ RunsKept /\ TypeOK
  BY KnownParts
<1>a. hw \in Nat /\ base[w] \in Nat /\ Size(w) \in Nat \ {0} /\ hw <= hw' /\ hw' \in Nat
  BY <1>0, SizePositive DEF TaskType, StoreType
<1>b. TaskOnly(w) /\ pc'[w] = "idle" /\ cmd'[w] = NoCmd
  BY <1>0, EndLeads
<1>1. \A v \in Writers \ {w} : StoryAt(v)'
  BY <1>0, <1>b, NoNews, OtherStories
<1>2. StoryAt(w)'
  BY <1>b DEF StoryAt
<1>3. LogInv'
  <2>1. hw' <= MaxCursor
    BY <1>0, <1>a DEF Told, LogInv
  <2>2. \A k \in 1..MaxCursor : events'[k] # NoEvent => k <= hw'
    BY <1>0, <1>a DEF Told, LogInv
  <2> QED
    BY <1>0, <1>b, <2>1, <2>2 DEF Told, LogInv, EventsOf, Size, TaskOnly
<1>4. LogTellsOneStory'
  BY <1>0 DEF Told, LogTellsOneStory, RowNamesItsEvent, Terminal
<1> QED
  BY <1>1, <1>2, <1>3, <1>4 DEF Told

LEMMA ApplyCursorTold ==
    ASSUME Known, NEW w \in Writers, ApplyCursor(w) PROVE Told'
<1>0. TaskType
  BY KnownParts
<1>1. pc[w] = "applyCursor" /\ UNCHANGED <<events, rows>>
  BY DEF ApplyCursor
<1>2. hw' = hw \/ (hw = base[w] /\ hw' = base[w] + Size(w))
  BY DEF ApplyCursor, Reserve
<1>3. CASE Got(w)
  BY <1>0, <1>1, <1>2, <1>3, GotLeads, AllocatorTold
<1>4. CASE Goto(w, "checkCursor") /\ UNCHANGED <<cmd, want, base, cur, seen>>
  BY <1>0, <1>1, <1>2, <1>4, GotoLeads, AllocatorTold DEF Labels
<1>5. CASE Goto(w, "readCursor") /\ UNCHANGED <<cmd, want, base, cur, seen>>
  BY <1>0, <1>1, <1>2, <1>5, GotoLeads, AllocatorTold DEF Labels
<1>6. CASE End(w)
  BY <1>1, <1>2, <1>6, EndTold, AllocatorEndTold
<1> QED
  BY <1>3, <1>4, <1>5, <1>6 DEF Retry, ApplyCursor, Unanswered

LEMMA CheckCursorTold ==
    ASSUME Known, NEW w \in Writers, CheckCursor(w) PROVE Told'
<1>0. TaskType
  BY KnownParts
<1>1. pc[w] = "checkCursor" /\ UNCHANGED <<hw, events, rows>>
  BY DEF CheckCursor, storeVars
<1>3. CASE Got(w)
  BY <1>0, <1>1, <1>3, GotLeads, AllocatorTold
<1>5. CASE Goto(w, "readCursor") /\ UNCHANGED <<cmd, want, base, cur, seen>>
  BY <1>0, <1>1, <1>5, GotoLeads, AllocatorTold DEF Labels
<1>6. CASE End(w)
  BY <1>1, <1>6, EndTold
<1> QED
  BY <1>3, <1>5, <1>6 DEF Retry, CheckCursor

(* A cursor that is in hand and free takes the next part of the story. *)
LEMMA AppendTold ==
    ASSUME Known, NEW w \in Writers, AppendEvent(w) PROVE Told'
<1> USE CPAssumption
<1> DEFINE e == [cmd |-> cmd[w], kind |-> want[w]]
           k0 == cur[w]
<1>0. TaskType /\ StoreType /\ Told /\ TaskInv /\ OneTask /\ RunInv /\ StoryInv /\ RunsKept /\ TypeOK
  BY KnownParts
<1>1. pc[w] = "append" /\ UNCHANGED <<hw, rows>>
  BY DEF AppendEvent
<1>2. CASE events' = events /\ End(w)
  BY <1>1, <1>2, EndTold
<1>3. CASE ~Refused(w) /\ events' = [events EXCEPT ![k0] = e] /\ (Recorded(w) \/ End(w))
  <2>1. e \in Events /\ e # NoEvent /\ e.cmd = cmd[w] /\ e.kind = want[w]
    BY <1>0 DEF TaskType, Events
  <2>2. k0 \in 1..MaxCursor /\ k0 <= hw /\ events[k0] = NoEvent
    BY <1>0, <1>1, <1>3 DEF Refused, TaskType, StoreType, Told, LogInv
  <2> HIDE DEF e, k0
  <2>3. events'[k0] = e /\ \A k \in 1..MaxCursor \ {k0} : events'[k] = events[k]
    BY <1>0, <1>3, <2>2 DEF StoreType
  <2>4. \A c \in Commands : c # cmd[w] => LogKept(c)
    BY <2>1, <2>2, <2>3 DEF LogKept
  <2>5. cmd[w] \in Commands =>
          /\ want[w] \in {"accepted", "succeeded", "failed"}
          /\ want[w] = "accepted" => EventsOf(cmd[w]) = {} /\ Agent(cmd[w])
          /\ \A k \in EventsOf(cmd[w]) : events[k].kind = "accepted" /\ k < k0
    BY <1>0, <1>1 DEF Told, StoryAt, PathAt, LogAt, CursorPcs, k0
  <2>6. LogTellsOneStory'
    <3>1. RowNamesItsEvent'
      <4> SUFFICES ASSUME NEW c \in Commands, Terminal(rows[c])
                   PROVE  /\ rows[c].cursor \in 1..MaxCursor
                          /\ events'[rows[c].cursor] = [cmd |-> c, kind |-> rows[c].state]
        BY <1>1 DEF RowNamesItsEvent, Terminal
      <4>1. /\ rows[c].cursor \in 1..MaxCursor
            /\ events[rows[c].cursor] = [cmd |-> c, kind |-> rows[c].state]
        BY <1>0 DEF Told, LogTellsOneStory, RowNamesItsEvent
      <4>2. events[rows[c].cursor] # NoEvent
        BY <4>1 DEF Terminal, Events, Wants
      <4> QED
        BY <2>2, <2>3, <4>1, <4>2
    <3>2. ASSUME NEW j \in 1..MaxCursor, NEW k \in 1..MaxCursor, j # k,
                 events'[j] # NoEvent, events'[k] # NoEvent,
                 events'[j].cmd = events'[k].cmd, events'[j].cmd # NoCmd
          PROVE  /\ "accepted" \in {events'[j].kind, events'[k].kind}
                 /\ events'[j].kind # events'[k].kind
                 /\ events'[k].kind = "accepted" => k < j
      <4>1. CASE j # k0 /\ k # k0
        BY <1>0, <2>3, <3>2, <4>1 DEF Told, LogTellsOneStory
      <4>2. CASE j = k0
        <5>1. events'[j] = e /\ events'[k] = events[k] /\ cmd[w] \in Commands
          BY <1>0, <2>1, <2>3, <3>2, <4>2 DEF TaskType
        <5>2. k \in EventsOf(cmd[w])
          BY <2>1, <3>2, <5>1 DEF EventsOf
        <5>3. want[w] \in Outcomes /\ events[k].kind = "accepted" /\ k < k0
          BY <2>5, <5>1, <5>2 DEF Outcomes
        <5> QED
          BY <2>1, <4>2, <5>1, <5>3 DEF Outcomes
      <4>3. CASE k = k0
        <5>1. events'[k] = e /\ events'[j] = events[j] /\ cmd[w] \in Commands
          BY <1>0, <2>1, <2>3, <3>2, <4>3 DEF TaskType
        <5>2. j \in EventsOf(cmd[w])
          BY <2>1, <3>2, <5>1 DEF EventsOf
        <5>3. want[w] \in Outcomes /\ events[j].kind = "accepted"
          BY <2>5, <5>1, <5>2 DEF Outcomes
        <5> QED
          BY <2>1, <5>1, <5>3 DEF Outcomes
      <4> QED
        BY <4>1, <4>2, <4>3
    <3> QED
      BY <3>1, <3>2 DEF LogTellsOneStory
  <2>7. ASSUME TaskOnly(w), pc'[w] \notin {"applyCursor", "checkCursor", "append"} PROVE LogInv'
    <3>1. \A k \in 1..MaxCursor : events'[k] # NoEvent => k <= hw
      BY <1>0, <2>2, <2>3 DEF Told, LogInv
    <3>2. ASSUME NEW c \in Commands, EventsOf(c)' # {} PROVE rows[c].state # "absent"
      <4>1. CASE c = cmd[w]
        BY <1>0, <4>1 DEF RunInv
      <4>2. CASE c # cmd[w]
        <5>1. EventsOf(c) # {}
          BY <2>1, <2>3, <3>2, <4>2 DEF EventsOf
        <5> QED
          BY <1>0, <5>1 DEF Told, LogInv
      <4> QED
        BY <4>1, <4>2
    <3> QED
      BY <1>0, <1>1, <2>7, <3>1, <3>2 DEF Told, LogInv, Size, TaskOnly
  <2>8. CASE End(w) \/ want[w] = "heartbeat"
    <3>1. End(w)
      BY <1>3, <2>8 DEF Recorded
    <3>2. TaskOnly(w) /\ pc'[w] = "idle" /\ cmd'[w] = NoCmd
      BY <1>0, <3>1, EndLeads
    <3>3. StoryAt(w)'
      BY <3>2 DEF StoryAt
    <3>4. \A v \in Writers \ {w} : StoryAt(v)'
      BY <1>0, <2>4, <3>2, OtherStories
    <3> QED
      BY <2>6, <2>7, <3>2, <3>3, <3>4 DEF Told
  <2>9. CASE Recorded(w) /\ want[w] = "accepted"
    <3>1. /\ TaskOnly(w) /\ pc'[w] = "launch" /\ cmd'[w] = cmd[w] /\ want'[w] = want[w]
      BY <1>0, <2>9, GotoLeads DEF Recorded, Labels
    <3>2. \A v \in Writers \ {w} : StoryAt(v)'
      BY <1>0, <2>4, <3>1, OtherStories
    <3>3. StoryAt(w)'
      <4> SUFFICES ASSUME cmd[w] \in Commands PROVE PathAt(w)' /\ LogAt(w)'
        BY <3>1 DEF StoryAt
      <4>1. PathAt(w)'
        BY <2>5, <2>9, <3>1 DEF PathAt, CursorPcs, Agent
      <4>2. \A k \in EventsOf(cmd[w])' : events'[k].kind = "accepted"
        BY <2>1, <2>3, <2>5, <2>9, <3>1 DEF EventsOf
      <4> QED
        BY <3>1, <4>1, <4>2 DEF LogAt, CursorPcs
    <3> QED
      BY <2>6, <2>7, <3>1, <3>2, <3>3 DEF Told
  <2>10. CASE Recorded(w) /\ want[w] \notin {"accepted", "heartbeat"}
    <3>0. cmd[w] \in Commands /\ want[w] \in Outcomes /\ want[w] \in Wants
      BY <1>0, <2>5, <2>10 DEF TaskInv, TaskAt, Outcomes, Wants
    <3>1. /\ TaskOnly(w) /\ pc'[w] = "readRow" /\ cmd'[w] = cmd[w] /\ want'[w] = want[w]
          /\ cur'[w] = k0
      BY <1>0, <2>10, <3>0, SetRowLeads DEF Recorded, k0
    <3>2. \A v \in Writers \ {w} : StoryAt(v)'
      BY <1>0, <2>4, <3>1, OtherStories
    <3>3. PathAt(w)'
      BY <3>0, <3>1 DEF PathAt, CursorPcs, Outcomes
    <3>4. LogAt(w)'
      <4>1. events'[cur'[w]] = [cmd |-> cmd'[w], kind |-> want'[w]]
        BY <2>3, <3>1 DEF e
      <4> QED
        BY <2>2, <3>0, <3>1, <4>1 DEF LogAt, CursorPcs
    <3> QED
      BY <2>6, <2>7, <3>1, <3>2, <3>3, <3>4 DEF Told, StoryAt
  <2> QED
    BY <1>3, <2>8, <2>9, <2>10
<1> QED
  BY <1>2, <1>3 DEF AppendEvent

(* A task that updated the row goes on to the note, ends, or hands over. *)
LEMMA UpdatedTold ==
    ASSUME Known, NEW w \in Writers, pc[w] \in {"readRow", "applyRow"}, Updated(w)
    PROVE  /\ \A v \in Writers : cmd'[v] \in Commands => cmd'[v] = cmd[v] \/ cmd'[v] = cmd[w]
           /\ \A v \in Writers : pc'[v] \in {"applyCursor", "checkCursor", "append"} =>
                 pc'[v] = pc[v] /\ base'[v] = base[v] /\ cur'[v] = cur[v]
           /\ events' = events => \A v \in Writers : StoryAt(v)'
<1> USE CPAssumption
<1>0. TaskType /\ Told /\ TaskInv /\ OneTask /\ StoryInv /\ RunsKept /\ TypeOK
  BY KnownParts
<1>1. cmd[w] \in Commands /\ w \in Writers
  BY <1>0 DEF TaskInv, TaskAt, AtCommand
<1>2. PathAt(w) /\ LogAt(w)
  BY <1>0, <1>1 DEF Told, StoryAt
<1>3. CASE want[w] # "running"
  <2>1. TaskOnly(w) /\ pc'[w] = "idle" /\ cmd'[w] = NoCmd
    BY <1>0, <1>3, EndLeads DEF Updated
  <2>2. events' = events => \A v \in Writers : StoryAt(v)'
    BY <1>0, <2>1, NoNews, OtherStories DEF StoryAt
  <2> QED
    BY <2>1, <2>2 DEF TaskOnly
<1>4. CASE want[w] = "running" /\ ~Agent(cmd[w])
  <2>1. TaskOnly(w) /\ pc'[w] = "note" /\ cmd'[w] = cmd[w] /\ want'[w] = "running"
    BY <1>0, <1>4, GotoLeads DEF Updated, Labels
  <2>2. PathAt(w)'
    BY <2>1 DEF PathAt, CursorPcs
  <2>3. \A k \in EventsOf(cmd[w]) : events[k].kind = "accepted"
    BY <1>2, <1>4 DEF LogAt, Outcomes
  <2>4. events' = events => LogAt(w)'
    BY <2>1, <2>3, OwnLog
  <2>5. events' = events => \A v \in Writers : StoryAt(v)'
    BY <1>0, <2>1, <2>2, <2>4, NoNews, OtherStories DEF StoryAt
  <2> QED
    BY <2>1, <2>5 DEF TaskOnly
<1>5. CASE want[w] = "running" /\ Agent(cmd[w])
  <2>1. PICK c \in Commands : c = cmd[w]
    BY <1>1
  <2>2. c \in Writers /\ w \notin Commands /\ c # w
    BY <1>0, <1>5, WaiterNeverLaunches DEF Writers
  <2>3. Spawned(w)
    BY <1>1, <1>5, <2>2 DEF Updated, Spawned, Agent
  <2>4. /\ pc' = [[pc EXCEPT ![w] = "idle"] EXCEPT ![c] = "wait"]
        /\ base' = [base EXCEPT ![w] = 0] /\ cur' = [cur EXCEPT ![w] = 0]
    BY <1>5, <2>1, Zenon DEF Updated, SpawnWaiter
  <2>5. /\ \A v \in Writers \ {w, c} : /\ pc'[v] = pc[v] /\ cmd'[v] = cmd[v] /\ want'[v] = want[v]
                                       /\ base'[v] = base[v] /\ cur'[v] = cur[v]
        /\ pc'[w] = "idle" /\ cmd'[w] = NoCmd
        /\ pc'[c] = "wait" /\ cmd'[c] = c /\ want'[c] = want[c]
    BY <1>0, <2>1, <2>2, <2>3, <2>4, SpawnedTasks DEF TaskType
  <2>6. ASSUME events' = events, NEW v \in Writers PROVE StoryAt(v)'
    <3>1. CASE v = w
      BY <2>5, <3>1 DEF StoryAt
    <3>2. CASE v = c
      <4>1. HasRun(c) /\ Agent(c)
        BY <1>2, <1>5, <2>1 DEF PathAt
      <4>2. \E i \in 1..Len(turns') : turns'[i] = c
        BY <1>0, <4>1 DEF HasRun, RunsKept
      <4>3. want[c] \in {"heartbeat", "succeeded", "failed"}
        BY <1>0 DEF TaskInv, WaiterAt
      <4>4. PathAt(c)'
        BY <2>5, <4>1, <4>2, <4>3 DEF PathAt, CursorPcs, HasRun, Agent
      <4>5. \A k \in EventsOf(c) : events[k].kind = "accepted"
        BY <1>2, <1>5, <2>1 DEF LogAt, Outcomes
      <4>6. EventsOf(cmd[c])' = EventsOf(c)
        BY <2>5, <2>6 DEF EventsOf
      <4>7. LogAt(c)'
        BY <2>5, <2>6, <4>5, <4>6 DEF LogAt, CursorPcs
      <4> QED
        BY <3>2, <4>4, <4>7 DEF StoryAt
    <3>3. CASE v \notin {w, c}
      <4>1. StoryAt(v)
        BY <1>0 DEF Told
      <4>2. cmd[v] \in Commands => LogKept(cmd[v])
        BY <2>6, NoNews
      <4> QED
        BY <1>0, <2>5, <3>3, <4>1, <4>2, StoryKept
    <3> QED
      BY <3>1, <3>2, <3>3
  <2>7. ASSUME NEW v \in Writers
        PROVE  /\ cmd'[v] \in Commands => cmd'[v] = cmd[v] \/ cmd'[v] = cmd[w]
               /\ pc'[v] \in {"applyCursor", "checkCursor", "append"} =>
                    pc'[v] = pc[v] /\ base'[v] = base[v] /\ cur'[v] = cur[v]
    BY <2>1, <2>5
  <2> QED
    BY <2>6, <2>7
<1> QED
  BY <1>3, <1>4, <1>5

LEMMA ReadRowTold ==
    ASSUME Known, NEW w \in Writers, ReadRow(w) PROVE Told'
<1> USE CPAssumption
<1>0. TaskType /\ Told /\ TaskInv /\ OneTask /\ StoryInv /\ RunsKept /\ TypeOK
  BY KnownParts
<1>1. pc[w] = "readRow" /\ UNCHANGED <<hw, events, rows>>
  BY DEF ReadRow, storeVars
<1>2. cmd[w] \in Commands
  BY <1>0, <1>1 DEF TaskInv, TaskAt, AtCommand
<1>3. CASE End(w)
  BY <1>1, <1>3, EndTold
<1>4. CASE Updated(w)
  <2>1. \A v \in Writers : StoryAt(v)'
    BY <1>1, <1>4, UpdatedTold
  <2>2. \A v \in Writers : \/ pc'[v] \notin {"applyCursor", "checkCursor", "append"}
                           \/ pc'[v] = pc[v] /\ base'[v] = base[v] /\ cur'[v] = cur[v]
    BY <1>1, <1>4, UpdatedTold
  <2> QED
    BY <1>0, <1>1, <2>1, <2>2, LogStays DEF Told
<1>5. CASE Goto(w, "applyRow") /\ UNCHANGED <<cmd, want, base, cur>>
  <2>1. /\ TaskOnly(w) /\ pc'[w] = "applyRow" /\ cmd'[w] = cmd[w] /\ want'[w] = want[w]
        /\ cur'[w] = cur[w]
    BY <1>0, <1>5, GotoLeads DEF Labels
  <2>2. PathAt(w) /\ LogAt(w)
    BY <1>0, <1>2 DEF Told, StoryAt
  <2>3. HasRun(cmd[w]) => \E i \in 1..Len(turns') : turns'[i] = cmd[w]
    BY <1>0 DEF HasRun, RunsKept
  <2>4. PathAt(w)'
    BY <1>1, <2>1, <2>2, <2>3 DEF PathAt, CursorPcs, HasRun, Agent
  <2>5. EventsOf(cmd[w])' = EventsOf(cmd[w])
    BY <1>1, <2>1 DEF EventsOf
  <2>6. LogAt(w)'
    BY <1>1, <2>1, <2>2, <2>5 DEF LogAt, CursorPcs
  <2> QED
    BY <1>1, <2>1, <2>4, <2>6, QuietTold DEF StoryAt
<1> QED
  BY <1>3, <1>4, <1>5 DEF ReadRow

(* The row is set to what the log holds at the cursor of the task. *)
LEMMA ApplyRowTold ==
    ASSUME Known, NEW w \in Writers, ApplyRow(w) PROVE Told'
<1> USE CPAssumption
<1>0. TaskType /\ StoreType /\ Told /\ TaskInv /\ OneTask /\ StoryInv /\ RunsKept /\ TypeOK
  BY KnownParts
<1>1. pc[w] = "applyRow" /\ UNCHANGED <<hw, events>>
  BY DEF ApplyRow
<1>2. cmd[w] \in Commands /\ want[w] \in {"running", "succeeded", "failed"}
  BY <1>0, <1>1 DEF TaskInv, TaskAt, AtCommand
<1>3. /\ \A v \in Writers : StoryAt(v)'
      /\ \A v \in Writers : \/ pc'[v] \notin {"applyCursor", "checkCursor", "append"}
                            \/ pc'[v] = pc[v] /\ base'[v] = base[v] /\ cur'[v] = cur[v]
  <2>1. CASE Updated(w)
    BY <1>1, <2>1, UpdatedTold
  <2>2. CASE End(w)
    <3>1. TaskOnly(w) /\ pc'[w] = "idle" /\ cmd'[w] = NoCmd
      BY <1>0, <2>2, EndLeads
    <3>2. \A v \in Writers \ {w} : StoryAt(v)'
      BY <1>0, <1>1, <3>1, NoNews, OtherStories
    <3> QED
      BY <3>1, <3>2 DEF StoryAt, TaskOnly
  <2> QED
    BY <2>1, <2>2 DEF ApplyRow
<1>4. CASE rows' = rows
  BY <1>0, <1>1, <1>3, <1>4, LogStays DEF Told
<1>5. CASE rows' = [rows EXCEPT ![cmd[w]] = NewRow(w)]
  <2>1. /\ rows'[cmd[w]] = NewRow(w)
        /\ \A c \in Commands \ {cmd[w]} : rows'[c] = rows[c]
    BY <1>0, <1>2, <1>5 DEF StoreType
  <2>2. /\ NewRow(w).state = want[w]
        /\ NewRow(w).cursor = IF want[w] = "running" THEN 0 ELSE cur[w]
    BY DEF NewRow
  <2>3. LogInv'
    <3>1. \A c \in Commands : EventsOf(c)' # {} => rows'[c].state # "absent"
      BY <1>0, <1>1, <1>2, <2>1, <2>2 DEF Told, LogInv, EventsOf
    <3> QED
      BY <1>0, <1>1, <1>3, <3>1 DEF Told, LogInv, Size
  <2>4. RowNamesItsEvent'
    <3> SUFFICES ASSUME NEW c \in Commands, rows'[c].state \in {"succeeded", "failed"}
                 PROVE  /\ rows'[c].cursor \in 1..MaxCursor
                        /\ events[rows'[c].cursor] = [cmd |-> c, kind |-> rows'[c].state]
      BY <1>1 DEF RowNamesItsEvent, Terminal
    <3>1. CASE c = cmd[w]
      <4>1. want[w] \in Outcomes /\ rows'[c].cursor = cur[w] /\ rows'[c].state = want[w]
        BY <2>1, <2>2, <3>1 DEF Outcomes
      <4>2. /\ cur[w] \in 1..MaxCursor
            /\ events[cur[w]] = [cmd |-> cmd[w], kind |-> want[w]]
        BY <1>0, <1>1, <1>2, <4>1 DEF Told, StoryAt, LogAt
      <4> QED
        BY <3>1, <4>1, <4>2
    <3>2. CASE c # cmd[w]
      <4>1. rows'[c] = rows[c]
        BY <2>1, <3>2
      <4> QED
        BY <1>0, <4>1 DEF Told, LogTellsOneStory, RowNamesItsEvent, Terminal
    <3> QED
      BY <3>1, <3>2
  <2>5. LogTellsOneStory'
    BY <1>0, <1>1, <2>4 DEF Told, LogTellsOneStory
  <2> QED
    BY <1>3, <2>3, <2>5 DEF Told
<1> QED
  BY <1>4, <1>5 DEF ApplyRow

(* The agent: whatever comes of it, the outcome is not in the log yet. *)
LEMMA AgentTold ==
    ASSUME Known, NEW w \in Writers, Launch(w) \/ Respawn(w) \/ Wait(w) \/ Capture(w) \/ NoteStep(w)
    PROVE  Told'
<1> USE CPAssumption
<1>0. TaskType /\ OtherType /\ Told /\ TaskInv /\ OneTask /\ StoryInv /\ RunsKept /\ TypeOK
  BY KnownParts
<1>1. /\ pc[w] \in {"launch", "respawn", "wait", "capture", "note"}
      /\ UNCHANGED <<hw, events, rows>>
  BY DEF Launch, Respawn, Wait, Capture, NoteStep, storeVars
<1>2. cmd[w] \in Commands /\ (pc[w] \in {"launch", "respawn"} => want[w] = "accepted")
  BY <1>0, <1>1 DEF TaskInv, TaskAt, AtCommand
<1>3. PathAt(w) /\ LogAt(w)
  BY <1>0, <1>2 DEF Told, StoryAt
<1>4. \A k \in EventsOf(cmd[w]) : events[k].kind = "accepted"
  BY <1>1, <1>3 DEF LogAt
<1>5. ASSUME NEW x \in Outcomes, Record(w, x) PROVE Told'
  <2>1. TaskOnly(w) /\ pc'[w] = "readCursor" /\ cmd'[w] = cmd[w] /\ want'[w] = x
    BY <1>0, <1>5, RecordLeads DEF Outcomes, Wants
  <2>2. PathAt(w)'
    BY <2>1 DEF PathAt, CursorPcs, Outcomes
  <2>3. LogAt(w)'
    BY <1>1, <1>4, <2>1, OwnLog
  <2> QED
    BY <1>1, <2>1, <2>2, <2>3, QuietTold DEF StoryAt
<1>6. CASE Goto(w, "respawn") /\ UNCHANGED <<cmd, want, base, cur, seen>> /\ pc[w] = "launch"
  <2>1. TaskOnly(w) /\ pc'[w] = "respawn" /\ cmd'[w] = cmd[w] /\ want'[w] = want[w]
    BY <1>0, <1>6, GotoLeads DEF Labels
  <2>2. PathAt(w)'
    BY <1>3, <2>1 DEF PathAt, CursorPcs, Agent
  <2>3. LogAt(w)'
    BY <1>1, <1>4, <2>1, OwnLog
  <2> QED
    BY <1>1, <2>1, <2>2, <2>3, QuietTold DEF StoryAt
<1>7. CASE Goto(w, "capture") /\ UNCHANGED <<cmd, want, base, cur, seen>> /\ pc[w] = "wait"
  <2>1. TaskOnly(w) /\ pc'[w] = "capture" /\ cmd'[w] = cmd[w] /\ want'[w] = want[w]
    BY <1>0, <1>7, GotoLeads DEF Labels
  <2>2. \E i \in 1..Len(turns') : turns'[i] = cmd[w]
    BY <1>0, <1>3, <1>7 DEF PathAt, HasRun, RunsKept
  <2>3. PathAt(w)'
    BY <1>3, <1>7, <2>1, <2>2 DEF PathAt, CursorPcs, Agent, HasRun
  <2>4. LogAt(w)'
    BY <1>1, <1>4, <2>1, OwnLog
  <2> QED
    BY <1>1, <2>1, <2>3, <2>4, QuietTold DEF StoryAt
<1>8. CASE turns' = Append(turns, cmd[w]) /\ SetRow(w, "running")
  <2>1. TaskOnly(w) /\ pc'[w] = "readRow" /\ cmd'[w] = cmd[w] /\ want'[w] = "running"
    BY <1>0, <1>8, SetRowLeads DEF Wants
  <2>2. \E i \in 1..Len(turns') : turns'[i] = cmd[w]
    <3>1. turns \in Seq(Commands)
      BY <1>0 DEF OtherType
    <3>2. Len(turns) + 1 \in 1..Len(turns') /\ turns'[Len(turns) + 1] = cmd[w]
      BY <1>2, <1>8, <3>1
    <3> QED
      BY <3>2
  <2>3. PathAt(w)'
    BY <2>1, <2>2 DEF PathAt, CursorPcs, HasRun
  <2>4. LogAt(w)'
    BY <1>1, <1>4, <2>1, OwnLog
  <2> QED
    BY <1>1, <2>1, <2>3, <2>4, QuietTold DEF StoryAt
<1> QED
  BY <1>5, <1>6, <1>7, <1>8 DEF Launch, Respawn, Wait, Capture, NoteStep, Outcomes

(* A command that is put has nothing in the log. *)
LEMMA PutTold ==
    ASSUME Known, NEW w \in Sessions, NEW c \in Commands, Put(w, c) PROVE Told'
<1> USE CPAssumption
<1>0. TaskType /\ StoreType /\ Told /\ OneTask /\ StoryInv /\ RunsKept /\ TypeOK
  BY KnownParts
<1>1. w \in Writers /\ pc[w] = "idle" /\ UNCHANGED <<hw, events>>
  BY DEF Writers, Put
<1>2. \/ rows' = rows
      \/ /\ rows[c] = NoRow
         /\ rows' = [rows EXCEPT ![c] = [state |-> "queued", cursor |-> 0]]
  BY DEF Put
<1>3. /\ \A d \in Commands : rows'[d].state # rows[d].state => rows'[d].state = "queued"
      /\ \A d \in Commands : Terminal(rows'[d]) => rows'[d] = rows[d]
  BY <1>0, <1>2 DEF StoreType, Terminal
<1>4. LogTellsOneStory'
  <2>1. RowNamesItsEvent'
    BY <1>0, <1>1, <1>3 DEF Told, LogTellsOneStory, RowNamesItsEvent, Terminal
  <2> QED
    BY <1>0, <1>1, <2>1 DEF Told, LogTellsOneStory
<1>5. CASE UNCHANGED taskVars
  <2>1. UNCHANGED <<pc, cmd, want, base, cur>>
    BY <1>5 DEF taskVars
  <2>2. \A v \in Writers : StoryAt(v)'
    BY <1>0, <1>1, <2>1, NoNews, StoryKept DEF Told
  <2>3. LogInv'
    BY <1>0, <1>1, <1>3, <2>1 DEF Told, LogInv, EventsOf, Size
  <2> QED
    BY <1>4, <2>2, <2>3 DEF Told
<1>6. CASE Accepted(w, c) /\ rows[c] = NoRow
  <2>1. /\ TaskOnly(w) /\ cmd'[w] = c
        /\ pc'[w] = IF Agent(c) THEN "readCursor" ELSE "readRow"
        /\ want'[w] = IF Agent(c) THEN "accepted" ELSE "running"
    BY <1>0, <1>1, <1>6 DEF Accepted, Goto, TaskType, TaskOnly
  <2>2. \A v \in Writers \ {w} : StoryAt(v)'
    BY <1>0, <1>1, <2>1, NoNews, OtherStories
  <2>3. EventsOf(c) = {}
    BY <1>0, <1>6 DEF Told, LogInv, NoRow
  <2>4. EventsOf(cmd[w])' = {}
    BY <1>1, <2>1, <2>3 DEF EventsOf
  <2>5. PathAt(w)'
    <3>1. CASE Agent(c)
      BY <2>1, <3>1 DEF PathAt, CursorPcs, Agent
    <3>2. CASE ~Agent(c)
      BY <2>1, <3>2 DEF PathAt, CursorPcs, Agent
    <3> QED
      BY <3>1, <3>2
  <2>6. LogAt(w)'
    BY <2>1, <2>4 DEF LogAt, CursorPcs, Outcomes
  <2>7. LogInv'
    BY <1>0, <1>1, <1>3, <2>1 DEF Told, LogInv, EventsOf, Size, TaskOnly
  <2> QED
    BY <1>4, <2>2, <2>5, <2>6, <2>7 DEF Told, StoryAt
<1> QED
  BY <1>5, <1>6 DEF Put

LEMMA CrashTold ==
    ASSUME Known, Crash PROVE Told'
<1> USE CPAssumption
<1>0. Told
  BY KnownParts
<1>1. UNCHANGED <<hw, events, rows>>
  BY DEF Crash, storeVars
<1>2. \A w \in Writers : pc'[w] \in {"readCursor", "idle"} /\ cmd'[w] = NoCmd
  BY DEF Crash
<1>3. \A w \in Writers : StoryAt(w)'
  BY <1>2 DEF StoryAt
<1> QED
  BY <1>0, <1>1, <1>2, <1>3, LogStays DEF Told

LEMMA ToldStep ==
    ASSUME Inv, StoryInv, [Next]_vars PROVE Told'
<1>0. TypeOK
  BY DEF Inv, RunsInv
<1>1. RunsKept
  BY <1>0, TurnsGrow DEF RunsKept
<1>2. Known
  BY <1>1 DEF Known
<1>3. ASSUME UNCHANGED storeVars, UNCHANGED taskVars PROVE Told'
  <2>1. Told
    BY <1>2, KnownParts
  <2>2. UNCHANGED <<hw, events, rows, pc, cmd, want, base, cur>>
    BY <1>3 DEF storeVars, taskVars
  <2>3. \A v \in Writers : StoryAt(v)'
    BY <1>1, <2>1, <2>2, NoNews, StoryKept DEF Told
  <2> QED
    BY <2>1, <2>2, <2>3, LogStays DEF Told
<1>4. ASSUME NEW d \in Devices, ReadHighWater(d) \/ Deliver(d) PROVE Told'
  BY <1>3, <1>4 DEF ReadHighWater, Deliver
<1>5. TurnEnds => Told'
  BY <1>3 DEF TurnEnds
<1>6. UNCHANGED vars => Told'
  BY <1>3 DEF vars
<1> QED
  BY <1>2, <1>4, <1>5, <1>6, ReadCursorTold, ApplyCursorTold, CheckCursorTold, AppendTold,
     ReadRowTold, ApplyRowTold, AgentTold, PutTold, CrashTold DEF Next, TaskStep

-----------------------------------------------------------------------------
(* The notes *)

(* A calm state was calm before. *)
LEMMA FaultsStay ==
    ASSUME TypeOK, [Next]_vars, faults' = 0 PROVE faults = 0 /\ ~Crash
<1>0. faults \in Nat
  BY DEF TypeOK
<1>1. Fault => faults' # 0
  BY <1>0 DEF Fault
<1>2. \A p : FaultUnless(p) => faults' = faults \/ Fault
  BY DEF FaultUnless, NoFault
<1>3. ASSUME NEW w \in Writers, TaskStep(w) PROVE faults' = faults \/ Fault
  BY <1>2, <1>3 DEF TaskStep, ReadCursor, ApplyCursor, CheckCursor, AppendEvent, ReadRow, ApplyRow,
       Launch, Respawn, Wait, Capture, NoteStep, NoFault
<1>4. \A w \in Sessions, c \in Commands : Put(w, c) => faults' = faults \/ Fault
  BY <1>2 DEF Put, NoFault
<1>5. \A d \in Devices : ReadHighWater(d) \/ Deliver(d) => faults' = faults
  BY DEF ReadHighWater, Deliver
<1>6. TurnEnds \/ UNCHANGED vars => faults' = faults
  BY DEF TurnEnds, vars
<1>7. Crash => Fault
  BY DEF Crash
<1> QED
  BY <1>1, <1>3, <1>4, <1>5, <1>6, <1>7 DEF Next

LEMMA CalmBefore ==
    ASSUME Inv, [Next]_vars, Calm' PROVE Calm /\ ~Crash
<1>1. TypeOK /\ TaskInv
  BY DEF Inv, RunsInv
<1>2. faults = 0 /\ ~Crash
  BY <1>1, FaultsStay DEF Calm
<1>3. \A b \in Commands : rows'[b].state = "absent" => rows[b].state = "absent"
  BY <1>1, RowsKept
<1> QED
  BY <1>2, <1>3 DEF Calm

(* A step that merges no append and leaves the sequences of the notes alone. *)
LEMMA NotesStay ==
    ASSUME NotesInv, Calm' => Calm /\ noteNext' = noteNext,
           \A c \in Commands : IsAppend(c) /\ Merged(c)' => Merged(c)
    PROVE  NotesInv'
<1> SUFFICES ASSUME Calm'
             PROVE  /\ \A c \in Commands :
                         IsAppend(c) /\ Merged(c)' => Op[c].seq < noteNext'[Op[c].note]
                    /\ \A c, d \in Commands :
                         IsAppend(c) /\ Op[c] = Op[d] /\ Merged(c)' /\ Merged(d)' => c = d
  BY DEF NotesInv, IsAppend
<1>1. Calm /\ noteNext' = noteNext
  OBVIOUS
<1>2. \A c, d \in Commands : IsAppend(c) /\ Op[c] = Op[d] => IsAppend(d)
  BY DEF IsAppend
<1> QED
  BY <1>1, <1>2 DEF NotesInv

(* Who may come to say that a command succeeded. *)
LEMMA MergedStays ==
    ASSUME NEW c \in Commands, Merged(c)',
           rows'[c].state = "succeeded" => Merged(c),
           \A v \in Writers : cmd'[v] = c /\ want'[v] = "succeeded" => Merged(c)
    PROVE  Merged(c)
  BY DEF Merged

(* A task that moves on, with its command or without, and has not come to say
   that an append succeeded. *)
LEMMA NotesMove ==
    ASSUME Inv, StoryInv, [Next]_vars, noteNext' = noteNext, rows' = rows, NEW w \in Writers, TaskOnly(w),
           want'[w] = "succeeded" /\ cmd'[w] \in Commands /\ IsAppend(cmd'[w])
             => want[w] = "succeeded" /\ cmd'[w] = cmd[w]
    PROVE  NotesInv'
<1>1. ASSUME NEW c \in Commands, IsAppend(c), Merged(c)' PROVE Merged(c)
  <2>1. \A v \in Writers : cmd'[v] = c /\ want'[v] = "succeeded" => Merged(c)
    BY <1>1 DEF TaskOnly, Merged
  <2>2. rows'[c].state = "succeeded" => Merged(c)
    BY DEF Merged
  <2> QED
    BY <1>1, <2>1, <2>2, MergedStays
<1>2. Calm' => Calm /\ noteNext' = noteNext
  BY CalmBefore
<1> QED
  BY <1>1, <1>2, NotesStay DEF StoryInv

(* The row comes to say what the task said; the task ends, goes on, or hands an
   agent over. *)
LEMMA NotesUpdated ==
    ASSUME Inv, StoryInv, [Next]_vars, noteNext' = noteNext, NEW w \in Writers,
           pc[w] \in {"readRow", "applyRow"}, Updated(w) \/ End(w),
           rows' = rows \/ rows' = [rows EXCEPT ![cmd[w]] = NewRow(w)]
    PROVE  NotesInv'
<1> USE CPAssumption
<1>0. TaskType /\ StoreType /\ TaskInv /\ OneTask
  BY TypeParts DEF Inv, RunsInv
<1>1. cmd[w] \in Commands
  BY <1>0 DEF TaskInv, TaskAt, AtCommand
<1>2. \A c \in Commands : rows'[c].state = "succeeded" => Merged(c)
  <2>1. CASE rows' = rows
    BY <2>1 DEF Merged
  <2>2. CASE rows' = [rows EXCEPT ![cmd[w]] = NewRow(w)]
    <3>1. /\ rows'[cmd[w]] = NewRow(w) /\ NewRow(w).state = want[w]
          /\ \A c \in Commands \ {cmd[w]} : rows'[c] = rows[c]
      BY <1>0, <1>1, <2>2 DEF StoreType, NewRow
    <3> QED
      BY <3>1 DEF Merged
  <2> QED
    BY <2>1, <2>2
<1>3. ASSUME NEW c \in Commands, IsAppend(c), NEW v \in Writers, cmd'[v] = c, want'[v] = "succeeded"
      PROVE  Merged(c)
  <2>1. CASE Updated(w) /\ want[w] = "running" /\ Agent(cmd[w])
    <3>1. Spawned(w)
      BY <1>0, <1>1, <2>1, WaiterNeverLaunches DEF Updated, Spawned, Agent
    <3>2. v = cmd[w] => cmd'[v] = cmd[w]
      BY <1>0, <3>1, SpawnedTasks
    <3>3. v \notin {w, cmd[w]}
      BY <1>0, <1>3, <2>1, <3>1, <3>2, SpawnedTasks DEF IsAppend, Agent
    <3>4. cmd'[v] = cmd[v] /\ want'[v] = want[v]
      BY <1>0, <3>1, <3>3, SpawnedTasks
    <3> QED
      BY <1>3, <3>4 DEF Merged
  <2>2. CASE Updated(w) /\ want[w] = "running" /\ ~Agent(cmd[w])
    <3>1. UNCHANGED <<cmd, want>>
      BY <2>2 DEF Updated, Agent
    <3> QED
      BY <1>3, <3>1 DEF Merged
  <2>3. CASE End(w)
    <3>1. TaskOnly(w) /\ cmd'[w] = NoCmd
      BY <1>0, <2>3, EndLeads
    <3> QED
      BY <1>3, <3>1 DEF Merged, TaskOnly
  <2> QED
    BY <2>1, <2>2, <2>3 DEF Updated
<1>4. \A c \in Commands : IsAppend(c) /\ Merged(c)' => Merged(c)
  BY <1>2, <1>3, MergedStays
<1>5. Calm' => Calm /\ noteNext' = noteNext
  BY CalmBefore
<1> QED
  BY <1>4, <1>5, NotesStay DEF StoryInv

(* An append in sequence is above all that are merged. *)
LEMMA NotesMerge ==
    ASSUME Inv, StoryInv, [Next]_vars, NEW w \in Writers, pc[w] = "note", Record(w, "succeeded"),
           IsAppend(cmd[w]), InSequence(Op[cmd[w]]), rows' = rows,
           noteNext' = [noteNext EXCEPT ![Op[cmd[w]].note] = Op[cmd[w]].seq + 1]
    PROVE  NotesInv'
<1> USE CPAssumption
<1>0. TaskType /\ OtherType /\ TaskInv
  BY TypeParts DEF Inv, RunsInv
<1>1. PICK c0 \in Commands : c0 = cmd[w]
  BY <1>0 DEF TaskInv, TaskAt, AtCommand
<1>2. TaskOnly(w) /\ cmd'[w] = c0 /\ want'[w] = "succeeded"
  BY <1>0, <1>1, RecordLeads DEF Wants
<1> SUFFICES ASSUME Calm'
             PROVE  /\ \A c \in Commands :
                         IsAppend(c) /\ Merged(c)' => Op[c].seq < noteNext'[Op[c].note]
                    /\ \A c, d \in Commands :
                         IsAppend(c) /\ Op[c] = Op[d] /\ Merged(c)' /\ Merged(d)' => c = d
  BY DEF NotesInv, IsAppend
<1>3. Calm
  BY CalmBefore
<1>4. \A c \in Commands : IsAppend(c) => Op[c].note \in Notes /\ Op[c].seq \in Nat
  BY DEF IsAppend, Ops
<1>5. IsAppend(c0) /\ noteNext[Op[c0].note] <= Op[c0].seq /\ noteNext \in [Notes -> Nat]
  BY <1>0, <1>1, <1>4 DEF InSequence, OtherType
<1>6. /\ noteNext'[Op[c0].note] = Op[c0].seq + 1
      /\ \A n \in Notes \ {Op[c0].note} : noteNext'[n] = noteNext[n]
  BY <1>1, <1>4, <1>5
<1>7. ASSUME NEW c \in Commands, Merged(c)', c # c0 PROVE Merged(c)
  <2>1. \A v \in Writers : cmd'[v] = c /\ want'[v] = "succeeded" => Merged(c)
    BY <1>2, <1>7 DEF TaskOnly, Merged
  <2>2. rows'[c].state = "succeeded" => Merged(c)
    BY DEF Merged
  <2> QED
    BY <1>7, <2>1, <2>2, MergedStays
<1>8. \A c \in Commands : IsAppend(c) /\ Merged(c) => Op[c].seq < noteNext[Op[c].note]
  BY <1>3 DEF StoryInv, NotesInv
<1>9. ASSUME NEW c \in Commands, IsAppend(c), Merged(c)' PROVE Op[c].seq < noteNext'[Op[c].note]
  <2>1. CASE c = c0
    BY <1>4, <1>5, <1>6, <2>1
  <2>2. CASE c # c0
    <3>1. Op[c].seq < noteNext[Op[c].note]
      BY <1>7, <1>8, <1>9, <2>2
    <3>2. CASE Op[c].note = Op[c0].note
      BY <1>4, <1>5, <1>6, <1>9, <3>1, <3>2
    <3>3. CASE Op[c].note # Op[c0].note
      BY <1>4, <1>6, <1>9, <3>1, <3>3
    <3> QED
      BY <3>2, <3>3
  <2> QED
    BY <2>1, <2>2
<1>10. ASSUME NEW d \in Commands, Op[d] = Op[c0], Merged(d)' PROVE d = c0
  <2> SUFFICES ASSUME d # c0 PROVE FALSE
    OBVIOUS
  <2>1. Merged(d) /\ IsAppend(d)
    BY <1>5, <1>7, <1>10 DEF IsAppend
  <2>2. Op[d].seq < noteNext[Op[d].note]
    BY <1>8, <2>1
  <2> QED
    BY <1>4, <1>5, <1>10, <2>2
<1>11. ASSUME NEW c \in Commands, NEW d \in Commands, IsAppend(c), Op[c] = Op[d], Merged(c)', Merged(d)'
       PROVE  c = d
  <2>1. CASE c = c0 \/ d = c0
    BY <1>10, <1>11, <2>1
  <2>2. CASE c # c0 /\ d # c0
    <3>1. Merged(c) /\ Merged(d)
      BY <1>7, <1>11, <2>2
    <3> QED
      BY <1>3, <1>11, <3>1 DEF StoryInv, NotesInv
  <2> QED
    BY <2>1, <2>2
<1> QED
  BY <1>9, <1>11

LEMMA NoteStepNotes ==
    ASSUME Inv, StoryInv, [Next]_vars, NEW w \in Writers, NoteStep(w) PROVE NotesInv'
<1> USE CPAssumption
<1> DEFINE o == Op[cmd[w]]
<1>0. TaskType /\ TaskInv /\ RunInv
  BY TypeParts DEF Inv, RunsInv
<1>1. pc[w] = "note" /\ rows' = rows
  BY DEF NoteStep, storeVars
<1>2. cmd[w] \in Commands
  BY <1>0, <1>1 DEF TaskInv, TaskAt, AtCommand
<1>3. CASE o.kind = "open" /\ noteNext' = noteNext /\ Record(w, "succeeded")
  <2>1. TaskOnly(w) /\ cmd'[w] = cmd[w]
    BY <1>0, <1>3, RecordLeads DEF Wants
  <2>2. ~IsAppend(cmd'[w])
    BY <1>3, <2>1 DEF IsAppend
  <2> QED
    BY <1>1, <1>3, <2>1, <2>2, NotesMove
<1>4. CASE o.kind = "commit"
  <2>1. rows[cmd[w]].state # "absent"
    BY <1>0, <1>2 DEF RunInv
  <2>2. ~Calm'
    BY <1>1, <1>2, <1>4, <2>1 DEF Calm
  <2> QED
    BY <2>2 DEF NotesInv
<1>5. CASE noteNext' = noteNext /\ Record(w, "failed")
  <2>1. TaskOnly(w) /\ want'[w] = "failed"
    BY <1>0, <1>5, RecordLeads DEF Wants
  <2> QED
    BY <1>1, <1>5, <2>1, NotesMove
<1>6. CASE /\ o.kind = "append" /\ InSequence(o)
           /\ noteNext' = [noteNext EXCEPT ![o.note] = o.seq + 1]
           /\ Record(w, "succeeded")
  BY <1>1, <1>6, NotesMerge DEF IsAppend
<1> QED
  BY <1>3, <1>4, <1>5, <1>6 DEF NoteStep

LEMMA NotesStep ==
    ASSUME Inv, StoryInv, [Next]_vars PROVE NotesInv'
<1> USE CPAssumption
<1>0. TaskType /\ StoreType /\ TaskInv /\ NotesInv
  BY TypeParts DEF Inv, RunsInv, StoryInv
<1>1. ASSUME NEW w \in Writers, ReadCursor(w) \/ ApplyCursor(w) \/ CheckCursor(w) PROVE NotesInv'
  <2>1. /\ noteNext' = noteNext /\ rows' = rows
    BY <1>1 DEF ReadCursor, ApplyCursor, CheckCursor, storeVars
  <2>2. \/ End(w) \/ Got(w)
        \/ base' = [base EXCEPT ![w] = hw] /\ Goto(w, "applyCursor") /\ UNCHANGED <<cmd, want, cur>>
        \/ \E l \in {"readCursor", "checkCursor"} : Goto(w, l) /\ UNCHANGED <<cmd, want, base, cur>>
    BY <1>1 DEF ReadCursor, Retry, ApplyCursor, CheckCursor, Unanswered
  <2>3. TaskOnly(w) /\ (cmd'[w] = NoCmd \/ (cmd'[w] = cmd[w] /\ want'[w] = want[w]))
    <3>1. CASE End(w)
      BY <1>0, <3>1, EndLeads
    <3>2. CASE Got(w)
      BY <1>0, <3>2, GotLeads
    <3>3. CASE \E l \in {"readCursor", "checkCursor"} : Goto(w, l) /\ UNCHANGED <<cmd, want, base, cur>>
      BY <1>0, <3>3, GotoLeads DEF Labels
    <3>4. CASE base' = [base EXCEPT ![w] = hw] /\ Goto(w, "applyCursor") /\ UNCHANGED <<cmd, want, cur>>
      BY <1>0, <3>4 DEF TaskType, Goto, TaskOnly
    <3> QED
      BY <2>2, <3>1, <3>2, <3>3, <3>4
  <2> QED
    BY <2>1, <2>3, NotesMove
<1>2. ASSUME NEW w \in Writers, AppendEvent(w) PROVE NotesInv'
  <2>1. noteNext' = noteNext /\ rows' = rows
    BY <1>2 DEF AppendEvent
  <2>2. \/ End(w) \/ (SetRow(w, want[w]) /\ want[w] \in Wants)
        \/ Goto(w, "launch") /\ UNCHANGED <<cmd, want, base, cur>>
    BY <1>0, <1>2 DEF AppendEvent, Recorded, TaskType
  <2>3. TaskOnly(w) /\ (cmd'[w] = NoCmd \/ (cmd'[w] = cmd[w] /\ want'[w] = want[w]))
    BY <1>0, <2>2, EndLeads, SetRowLeads, GotoLeads DEF Labels
  <2> QED
    BY <2>1, <2>3, NotesMove
<1>3. ASSUME NEW w \in Writers, ReadRow(w) PROVE NotesInv'
  <2>1. noteNext' = noteNext /\ rows' = rows /\ pc[w] = "readRow"
    BY <1>3 DEF ReadRow, storeVars
  <2>2. CASE Updated(w) \/ End(w)
    BY <2>1, <2>2, NotesUpdated
  <2>3. CASE Goto(w, "applyRow") /\ UNCHANGED <<cmd, want, base, cur>>
    <3>1. TaskOnly(w) /\ cmd'[w] = cmd[w] /\ want'[w] = want[w]
      BY <1>0, <2>3, GotoLeads DEF Labels
    <3> QED
      BY <2>1, <3>1, NotesMove
  <2> QED
    BY <1>3, <2>2, <2>3 DEF ReadRow
<1>4. ASSUME NEW w \in Writers, ApplyRow(w) PROVE NotesInv'
  <2>1. noteNext' = noteNext /\ pc[w] = "applyRow" /\ (Updated(w) \/ End(w))
    BY <1>4 DEF ApplyRow
  <2>2. rows' = rows \/ rows' = [rows EXCEPT ![cmd[w]] = NewRow(w)]
    BY <1>4 DEF ApplyRow
  <2> QED
    BY <2>1, <2>2, NotesUpdated
<1>5. ASSUME NEW w \in Writers, Launch(w) \/ Respawn(w) \/ Wait(w) \/ Capture(w) PROVE NotesInv'
  <2>1. noteNext' = noteNext /\ rows' = rows
    BY <1>5 DEF Launch, Respawn, Wait, Capture, storeVars
  <2>2. cmd[w] \in Commands
    BY <1>0, <1>5 DEF Launch, Respawn, Wait, Capture, TaskInv, TaskAt, AtCommand
  <2>3. pc[w] = "capture" => ~IsAppend(cmd[w])
    BY <2>2 DEF StoryInv, StoryAt, PathAt, IsAppend, Agent
  <2>4. \/ Record(w, "failed") \/ SetRow(w, "running")
        \/ \E l \in {"respawn", "capture"} : Goto(w, l) /\ UNCHANGED <<cmd, want, base, cur>>
        \/ pc[w] = "capture" /\ Record(w, "succeeded")
    BY <1>5 DEF Launch, Respawn, Wait, Capture
  <2>5. /\ TaskOnly(w) /\ cmd'[w] = cmd[w]
        /\ want'[w] = "succeeded" => want[w] = "succeeded" \/ ~IsAppend(cmd[w])
    <3>1. CASE Record(w, "failed") \/ SetRow(w, "running")
      BY <1>0, <3>1, RecordLeads, SetRowLeads DEF Wants
    <3>2. CASE \E l \in {"respawn", "capture"} : Goto(w, l) /\ UNCHANGED <<cmd, want, base, cur>>
      BY <1>0, <3>2, GotoLeads DEF Labels
    <3>3. CASE pc[w] = "capture" /\ Record(w, "succeeded")
      BY <1>0, <2>3, <3>3, RecordLeads DEF Wants
    <3> QED
      BY <2>4, <3>1, <3>2, <3>3
  <2> QED
    BY <2>1, <2>5, NotesMove
<1>6. ASSUME NEW w \in Sessions, NEW c \in Commands, Put(w, c) PROVE NotesInv'
  <2>1. w \in Writers /\ noteNext' = noteNext
    BY <1>6 DEF Put, Writers
  <2>2. \A d \in Commands : rows'[d].state = "succeeded" => rows[d].state = "succeeded"
    BY <1>0, <1>6 DEF Put, StoreType
  <2>3. \A v \in Writers : want'[v] = "succeeded" => want[v] = "succeeded" /\ cmd'[v] = cmd[v]
    BY <1>0, <1>6, <2>1 DEF Put, Accepted, taskVars, TaskType
  <2>4. \A d \in Commands : Merged(d)' => Merged(d)
    BY <2>2, <2>3 DEF Merged
  <2>5. Calm' => Calm /\ noteNext' = noteNext
    BY <2>1, CalmBefore
  <2> QED
    BY <1>0, <2>4, <2>5, NotesStay
<1>7. CASE Crash
  BY <1>7, CalmBefore DEF NotesInv
<1>8. ASSUME UNCHANGED <<cmd, want, rows, noteNext>> PROVE NotesInv'
  <2>1. \A d \in Commands : Merged(d)' => Merged(d)
    BY <1>8 DEF Merged
  <2>2. Calm' => Calm /\ noteNext' = noteNext
    BY <1>8, CalmBefore
  <2> QED
    BY <1>0, <2>1, <2>2, NotesStay
<1>9. ASSUME NEW d \in Devices, ReadHighWater(d) \/ Deliver(d) PROVE NotesInv'
  BY <1>8, <1>9 DEF ReadHighWater, Deliver, storeVars, taskVars
<1>10. TurnEnds \/ UNCHANGED vars => NotesInv'
  BY <1>8 DEF TurnEnds, vars, storeVars, taskVars
<1> QED
  BY <1>1, <1>2, <1>3, <1>4, <1>5, <1>6, <1>7, <1>9, <1>10, NoteStepNotes DEF Next, TaskStep

LEMMA StoryInit == Init => StoryInv
<1> SUFFICES ASSUME Init PROVE StoryInv
  OBVIOUS
<1> USE CPAssumption
<1>1. \A w \in Writers : cmd[w] = NoCmd /\ pc[w] \in {"readCursor", "idle"} /\ want[w] = "heartbeat"
  BY DEF Init
<1>2. \A k \in 1..MaxCursor : events[k] = NoEvent
  BY DEF Init
<1>3. \A c \in Commands : rows[c].state = "absent"
  BY DEF Init, NoRow
<1>4. \A w \in Writers : StoryAt(w)
  BY <1>1 DEF StoryAt
<1>5. LogInv
  BY <1>1, <1>2 DEF Init, LogInv, EventsOf
<1>6. LogTellsOneStory
  BY <1>2, <1>3 DEF LogTellsOneStory, RowNamesItsEvent, Terminal
<1>7. NotesInv
  BY <1>1, <1>3 DEF NotesInv, Merged
<1> QED
  BY <1>4, <1>5, <1>6, <1>7 DEF StoryInv

(* The inductive invariant of the log, the agents and the notes. *)
THEOREM StoryInvariance == Spec => []StoryInv
<1>1. Inv /\ StoryInv /\ [Next]_vars => StoryInv'
  <2> SUFFICES ASSUME Inv, StoryInv, [Next]_vars PROVE StoryInv'
    OBVIOUS
  <2>1. Told' /\ NotesInv'
    BY ToldStep, NotesStep
  <2> QED
    BY <2>1 DEF StoryInv, Told
<1> QED
  BY <1>1, StoryInit, Invariance, PTL DEF Spec

(* The log holds one acceptance and one outcome per command, in this order, and
   a terminal row names the event that announced it: over any number of
   sessions, repeated frames, lost answers and restarts. *)
THEOREM OneStory == Spec => []LogTellsOneStory
<1>1. StoryInv => LogTellsOneStory
  BY DEF StoryInv
<1> QED
  BY <1>1, StoryInvariance, PTL

(* The note_sequences of a listener that lives admit a sequence number of a note
   that is not committed once, under however many command ids it is sent. *)
THEOREM MergedOnce == Spec => []NoReplayMerged
<1>1. StoryInv => NoReplayMerged
  <2> SUFFICES ASSUME StoryInv, NEW c \in Commands, NEW d \in Commands, c # d, Op[c] = Op[d],
                      Op[c].kind = "append", faults = 0,
                      \A b \in Commands : Op[b].kind = "commit" => rows[b] = NoRow,
                      rows[c].state = "succeeded", rows[d].state = "succeeded"
               PROVE  FALSE
    BY DEF NoReplayMerged
  <2>1. Calm
    BY DEF Calm, NoRow
  <2>2. Merged(c) /\ Merged(d) /\ IsAppend(c)
    BY DEF Merged, IsAppend
  <2> QED
    BY <2>1, <2>2 DEF StoryInv, NotesInv
<1> QED
  BY <1>1, StoryInvariance, PTL

-----------------------------------------------------------------------------
(* The stages of a command, as its task finds them in the row and in the log *)

(* A command in the hands of a task is open.  It is queued until its task says
   that it runs, running before its task says that it succeeded; and an agent
   was announced before anything else happens to it. *)
StageAt(w) ==
    /\ rows[cmd[w]].state \in {"queued", "running"}
    /\ want[w] = "accepted" \/ (pc[w] \in {"readRow", "applyRow"} /\ want[w] = "running")
         => rows[cmd[w]].state = "queued"
    /\ want[w] = "succeeded" \/ pc[w] \in {"wait", "capture", "note"}
         => rows[cmd[w]].state = "running"
    /\ Agent(cmd[w]) /\ ~(pc[w] \in CursorPcs /\ want[w] = "accepted")
         => EventsOf(cmd[w]) # {}

StageInv ==
    /\ \A w \in Writers : cmd[w] \in Commands => StageAt(w)
    /\ \A c \in Commands : ~Terminal(rows[c]) => rows[c].cursor = 0

(* What a step may rely on. *)
Staged == Inv /\ StoryInv /\ StageInv

LEMMA StagedParts ==
    ASSUME Staged
    PROVE  /\ TypeOK /\ TaskType /\ StoreType /\ OtherType /\ TaskInv /\ OneTask /\ RunInv
           /\ LogInv /\ LogTellsOneStory /\ StageInv
           /\ \A w \in Writers : cmd[w] \in Commands => PathAt(w) /\ LogAt(w) /\ StageAt(w)
  BY TypeParts DEF Staged, Inv, RunsInv, StoryInv, StoryAt, StageInv

(* A task that stands still. *)
LEMMA StageKept ==
    ASSUME NEW v \in Writers, cmd[v] \in Commands => StageAt(v),
           pc'[v] = pc[v], cmd'[v] = cmd[v], want'[v] = want[v],
           cmd[v] \in Commands => rows'[cmd[v]] = rows[cmd[v]],
           \A c \in Commands : EventsOf(c) # {} => EventsOf(c)' # {}
    PROVE  cmd'[v] \in Commands => StageAt(v)'
<1> SUFFICES ASSUME cmd[v] \in Commands PROVE StageAt(v)'
  OBVIOUS
<1>1. EventsOf(cmd[v]) # {} => EventsOf(cmd[v])' # {}
  <2>1. PICK c \in Commands : c = cmd[v]
    OBVIOUS
  <2>2. EventsOf(c)' = EventsOf(cmd[v])'
    BY <2>1 DEF EventsOf
  <2> QED
    BY <2>1, <2>2
<1> QED
  BY <1>1 DEF StageAt, Agent

(* A step of one task that leaves the rows alone and takes no event away. *)
LEMMA StageMoves ==
    ASSUME Staged, NEW w \in Writers, TaskOnly(w), rows' = rows,
           \A c \in Commands : EventsOf(c) # {} => EventsOf(c)' # {},
           cmd'[w] \in Commands => StageAt(w)'
    PROVE  StageInv'
<1>0. StageInv
  BY StagedParts
<1>1. ASSUME NEW v \in Writers PROVE cmd'[v] \in Commands => StageAt(v)'
  <2>1. CASE v = w
    BY <2>1
  <2>2. CASE v # w
    <3>1. /\ cmd[v] \in Commands => StageAt(v)
          /\ pc'[v] = pc[v] /\ cmd'[v] = cmd[v] /\ want'[v] = want[v]
      BY <1>0, <2>2 DEF StageInv, TaskOnly
    <3> QED
      BY <3>1, StageKept
  <2> QED
    BY <2>1, <2>2
<1>2. \A c \in Commands : ~Terminal(rows'[c]) => rows'[c].cursor = 0
  BY <1>0 DEF StageInv
<1> QED
  BY <1>1, <1>2 DEF StageInv, Terminal

(* A task that ends, or moves on with its command while nothing is written. *)
LEMMA StageQuiet ==
    ASSUME Staged, NEW w \in Writers, TaskOnly(w), UNCHANGED <<events, rows>>,
           \/ cmd'[w] = NoCmd
           \/ /\ cmd'[w] = cmd[w]
              /\ cmd[w] \in Commands =>
                   /\ want'[w] = "accepted" => rows[cmd[w]].state = "queued"
                   /\ pc'[w] \in {"readRow", "applyRow"} /\ want'[w] = "running"
                        => rows[cmd[w]].state = "queued"
                   /\ want'[w] = "succeeded" \/ pc'[w] \in {"wait", "capture", "note"}
                        => rows[cmd[w]].state = "running"
                   /\ pc[w] \in CursorPcs /\ want[w] = "accepted"
                        => pc'[w] \in CursorPcs /\ want'[w] = "accepted"
    PROVE  StageInv'
<1> USE CPAssumption
<1>1. \A c \in Commands : EventsOf(c)' = EventsOf(c)
  BY DEF EventsOf
<1>2. cmd'[w] \in Commands => StageAt(w)'
  <2> SUFFICES ASSUME cmd[w] \in Commands, cmd'[w] = cmd[w] PROVE StageAt(w)'
    OBVIOUS
  <2>1. StageAt(w)
    BY StagedParts
  <2>2. EventsOf(cmd[w])' = EventsOf(cmd[w])
    BY DEF EventsOf
  <2> QED
    BY <2>1, <2>2 DEF StageAt, Agent
<1> QED
  BY <1>1, <1>2, StageMoves

(* The allocator, and the steps of a task between its statements. *)
LEMMA AllocatorStaged ==
    ASSUME Staged, NEW w \in Writers, ReadCursor(w) \/ ApplyCursor(w) \/ CheckCursor(w)
    PROVE  StageInv'
<1>0. TaskType /\ (cmd[w] \in Commands => StageAt(w))
  BY StagedParts
<1>1. UNCHANGED <<events, rows>> /\ pc[w] \in CursorPcs
  BY DEF ReadCursor, ApplyCursor, CheckCursor, storeVars, CursorPcs
<1>2. \/ End(w) \/ Got(w)
      \/ base' = [base EXCEPT ![w] = hw] /\ Goto(w, "applyCursor") /\ UNCHANGED <<cmd, want, cur>>
      \/ \E l \in {"readCursor", "checkCursor"} : Goto(w, l) /\ UNCHANGED <<cmd, want, base, cur>>
  BY DEF ReadCursor, Retry, ApplyCursor, CheckCursor, Unanswered
<1>3. CASE End(w)
  BY <1>0, <1>1, <1>3, EndLeads, StageQuiet
<1>4. CASE ~End(w)
  <2>1. /\ TaskOnly(w) /\ cmd'[w] = cmd[w] /\ want'[w] = want[w]
        /\ pc'[w] \in CursorPcs
    <3>1. CASE Got(w)
      BY <1>0, <3>1, GotLeads DEF CursorPcs
    <3>2. CASE \E l \in {"readCursor", "checkCursor"} : Goto(w, l) /\ UNCHANGED <<cmd, want, base, cur>>
      BY <1>0, <3>2, GotoLeads DEF Labels, CursorPcs
    <3>3. CASE base' = [base EXCEPT ![w] = hw] /\ Goto(w, "applyCursor") /\ UNCHANGED <<cmd, want, cur>>
      BY <1>0, <3>3 DEF TaskType, Goto, TaskOnly, CursorPcs
    <3> QED
      BY <1>2, <1>4, <3>1, <3>2, <3>3
  <2> QED
    BY <1>0, <1>1, <2>1, StageQuiet DEF StageAt, CursorPcs
<1> QED
  BY <1>3, <1>4

(* The event of a task that appends: above what its command has in the log, at
   a free cursor. *)
Appends(w) ==
    /\ cur[w] \in 1..MaxCursor /\ events[cur[w]] = NoEvent
    /\ events' = [events EXCEPT ![cur[w]] = [cmd |-> cmd[w], kind |-> want[w]]]

LEMMA AppendOne ==
    ASSUME Staged, NEW w \in Writers, AppendEvent(w)
    PROVE  /\ pc[w] = "append" /\ UNCHANGED <<rows, turns>>
           /\ \/ Appends(w) /\ (Recorded(w) \/ End(w))
              \/ events' = events /\ End(w)
<1>0. TaskType /\ StoreType /\ LogInv
  BY StagedParts
<1>1. pc[w] = "append" /\ UNCHANGED <<rows, turns>>
  BY DEF AppendEvent, agentVars
<1>2. ASSUME ~Refused(w) PROVE cur[w] \in 1..MaxCursor /\ events[cur[w]] = NoEvent
  BY <1>0, <1>1, <1>2, CPAssumption DEF Refused, TaskType, StoreType, LogInv
<1> QED
  BY <1>1, <1>2 DEF AppendEvent, Appends

(* What appending does to the logs of the commands. *)
LEMMA AppendedLog ==
    ASSUME Staged, NEW w \in Writers, Appends(w)
    PROVE  /\ \A c \in Commands \ {cmd[w]} :
                 /\ EventsOf(c)' = EventsOf(c)
                 /\ \A k \in EventsOf(c) : events'[k] = events[k]
           /\ \A c \in Commands : c = cmd[w] =>
                 /\ EventsOf(c)' = EventsOf(c) \cup {cur[w]}
                 /\ events'[cur[w]].kind = want[w]
                 /\ \A k \in EventsOf(c) : events'[k] = events[k]
<1> USE CPAssumption
<1> DEFINE e == [cmd |-> cmd[w], kind |-> want[w]]
           k0 == cur[w]
<1>0. TaskType /\ StoreType
  BY StagedParts
<1>1. e \in Events /\ e # NoEvent /\ e.cmd = cmd[w] /\ e.kind = want[w]
  BY <1>0 DEF TaskType, Events
<1>2. k0 \in 1..MaxCursor /\ events[k0] = NoEvent /\ events' = [events EXCEPT ![k0] = e]
  BY DEF Appends
<1> HIDE DEF e, k0
<1>3. events'[k0] = e /\ \A k \in 1..MaxCursor \ {k0} : events'[k] = events[k]
  BY <1>0, <1>2 DEF StoreType
<1>4. ASSUME NEW c \in Commands \ {cmd[w]}
      PROVE  EventsOf(c)' = EventsOf(c) /\ \A k \in EventsOf(c) : events'[k] = events[k]
  <2>1. \A k \in 1..MaxCursor : (events'[k] # NoEvent /\ events'[k].cmd = c) <=> k \in EventsOf(c)
    BY <1>1, <1>2, <1>3, <1>4 DEF EventsOf
  <2>2. EventsOf(c)' = EventsOf(c)
    BY <2>1 DEF EventsOf
  <2> QED
    BY <1>2, <1>3, <2>2 DEF EventsOf
<1>5. ASSUME NEW c \in Commands, c = cmd[w] PROVE EventsOf(c)' = EventsOf(c) \cup {k0}
  <2>1. \A k \in 1..MaxCursor :
           (events'[k] # NoEvent /\ events'[k].cmd = c) <=> (k \in EventsOf(c) \/ k = k0)
    BY <1>1, <1>2, <1>3, <1>5 DEF EventsOf
  <2> QED
    BY <1>2, <2>1 DEF EventsOf
<1>6. \A k \in EventsOf(cmd[w]) : events'[k] = events[k]
  BY <1>2, <1>3 DEF EventsOf
<1> QED
  BY <1>1, <1>3, <1>4, <1>5, <1>6 DEF k0

LEMMA AppendStaged ==
    ASSUME Staged, NEW w \in Writers, AppendEvent(w) PROVE StageInv'
<1> USE CPAssumption
<1>0. TaskType /\ TaskInv /\ (cmd[w] \in Commands => StageAt(w) /\ PathAt(w))
  BY StagedParts
<1>1. /\ pc[w] = "append" /\ UNCHANGED <<rows, turns>>
      /\ \/ Appends(w) /\ (Recorded(w) \/ End(w))
         \/ events' = events /\ End(w)
  BY AppendOne
<1>2. CASE events' = events /\ End(w)
  BY <1>0, <1>1, <1>2, EndLeads, StageQuiet
<1>3. CASE Appends(w) /\ (Recorded(w) \/ End(w))
  <2>1. \A c \in Commands : EventsOf(c) # {} => EventsOf(c)' # {}
    BY <1>3, AppendedLog
  <2>2. CASE End(w)
    BY <1>0, <1>1, <2>1, <2>2, EndLeads, StageMoves
  <2>3. CASE Recorded(w) /\ want[w] = "heartbeat"
    BY <1>0, <1>1, <2>1, <2>3, EndLeads, StageMoves DEF Recorded
  <2>4. CASE Recorded(w) /\ want[w] # "heartbeat"
    <3>1. cmd[w] \in Commands /\ want[w] \in {"accepted", "succeeded", "failed"}
      BY <1>0, <1>1, <2>4 DEF TaskInv, TaskAt, PathAt, CursorPcs
    <3>2. /\ TaskOnly(w) /\ cmd'[w] = cmd[w] /\ want'[w] = want[w]
          /\ pc'[w] \in {"launch", "readRow"}
      <4>1. CASE want[w] = "accepted"
        BY <1>0, <2>4, <4>1, GotoLeads DEF Recorded, Labels
      <4>2. CASE want[w] # "accepted"
        BY <1>0, <2>4, <3>1, <4>2, SetRowLeads DEF Recorded, Wants
      <4> QED
        BY <4>1, <4>2
    <3>3. EventsOf(cmd[w])' # {}
      <4>1. PICK c \in Commands : c = cmd[w]
        BY <3>1
      <4>2. EventsOf(c)' # {}
        BY <1>3, <4>1, AppendedLog
      <4>3. EventsOf(c)' = EventsOf(cmd[w])'
        BY <3>2, <4>1 DEF EventsOf
      <4> QED
        BY <4>2, <4>3
    <3>4. StageAt(w)'
      BY <1>0, <1>1, <3>1, <3>2, <3>3 DEF StageAt
    <3> QED
      BY <1>1, <2>1, <3>2, <3>4, StageMoves
  <2> QED
    BY <1>3, <2>2, <2>3, <2>4
<1> QED
  BY <1>1, <1>2, <1>3

(* A task about to set its row finds it as the transition wants it, and not as
   it would leave it. *)
LEMMA RowReady ==
    ASSUME Staged, NEW w \in Writers, pc[w] \in {"readRow", "applyRow"}
    PROVE  /\ cmd[w] \in Commands /\ want[w] \in {"running", "succeeded", "failed"}
           /\ rows[cmd[w]].state \in {"queued", "running"}
           /\ want[w] = "running" => rows[cmd[w]].state = "queued"
           /\ want[w] = "succeeded" => rows[cmd[w]].state = "running"
           /\ rows[cmd[w]] # NewRow(w)
<1>0. TaskInv /\ (cmd[w] \in Commands => StageAt(w))
  BY StagedParts
<1>1. cmd[w] \in Commands /\ want[w] \in {"running", "succeeded", "failed"}
  BY <1>0 DEF TaskInv, TaskAt, AtCommand
<1>2. NewRow(w).state = want[w]
  BY DEF NewRow
<1> QED
  BY <1>0, <1>1, <1>2 DEF StageAt

LEMMA ReadRowStaged ==
    ASSUME Staged, NEW w \in Writers, ReadRow(w) PROVE StageInv'
<1>0. TaskType
  BY StagedParts
<1>1. pc[w] = "readRow" /\ UNCHANGED <<events, rows>>
  BY DEF ReadRow, storeVars
<1>2. /\ cmd[w] \in Commands /\ rows[cmd[w]] # NewRow(w)
      /\ want[w] = "running" => rows[cmd[w]].state = "queued"
      /\ want[w] = "succeeded" => rows[cmd[w]].state = "running"
      /\ want[w] \in {"running", "succeeded", "failed"}
  BY <1>1, RowReady
<1>3. CASE End(w)
  BY <1>0, <1>1, <1>3, EndLeads, StageQuiet
<1>4. CASE Goto(w, "applyRow") /\ UNCHANGED <<cmd, want, base, cur>>
  <2>1. TaskOnly(w) /\ pc'[w] = "applyRow" /\ cmd'[w] = cmd[w] /\ want'[w] = want[w]
    BY <1>0, <1>4, GotoLeads DEF Labels
  <2> QED
    BY <1>1, <1>2, <2>1, StageQuiet DEF CursorPcs
<1> QED
  BY <1>2, <1>3, <1>4 DEF ReadRow

(* The row moves with the task: nobody else holds the command. *)
LEMMA ApplyRowStaged ==
    ASSUME Staged, NEW w \in Writers, ApplyRow(w) PROVE StageInv'
<1> USE CPAssumption
<1>0. TaskType /\ StoreType /\ TaskInv /\ OneTask /\ StageInv
  BY StagedParts
<1>1. pc[w] = "applyRow" /\ events' = events /\ (Updated(w) \/ End(w))
  BY DEF ApplyRow
<1>2. PICK c \in Commands : c = cmd[w]
  BY <1>1, RowReady
<1>3. \A d \in Commands : EventsOf(d)' = EventsOf(d)
  BY <1>1 DEF EventsOf
<1>4. CASE rows' = rows /\ End(w)
  BY <1>0, <1>1, <1>4, EndLeads, StageQuiet
<1>5. CASE rows' = [rows EXCEPT ![cmd[w]] = NewRow(w)]
  <2>1. /\ \A d \in Commands \ {c} : rows'[d] = rows[d]
        /\ rows'[c] = NewRow(w)
    BY <1>0, <1>2, <1>5 DEF StoreType
  <2>2. /\ rows'[c].state = want[w]
        /\ rows'[c].cursor = IF want[w] = "running" THEN 0 ELSE cur[w]
    BY <2>1 DEF NewRow
  <2>3. \A d \in Commands : ~Terminal(rows'[d]) => rows'[d].cursor = 0
    <3>1. want[w] \in {"running", "succeeded", "failed"}
      BY <1>1, RowReady
    <3>2. \A d \in Commands : ~Terminal(rows[d]) => rows[d].cursor = 0
      BY <1>0 DEF StageInv
    <3> QED
      BY <2>1, <2>2, <3>1, <3>2 DEF Terminal
  <2>4. ASSUME NEW v \in Writers, cmd[v] # c, pc'[v] = pc[v], cmd'[v] = cmd[v], want'[v] = want[v]
        PROVE  cmd'[v] \in Commands => StageAt(v)'
    <3>1. cmd[v] \in Commands => StageAt(v) /\ rows'[cmd[v]] = rows[cmd[v]]
      BY <1>0, <2>1, <2>4 DEF StageInv
    <3> QED
      BY <1>3, <2>4, <3>1, StageKept
  <2>5. \A v \in Writers \ {w} : cmd[v] # c
    BY <1>0, <1>2 DEF OneTask
  <2>6. ASSUME NEW v \in Writers PROVE cmd'[v] \in Commands => StageAt(v)'
    <3>1. CASE End(w)
      <4>1. TaskOnly(w) /\ cmd'[w] = NoCmd
        BY <1>0, <3>1, EndLeads
      <4> QED
        BY <2>4, <2>5, <4>1 DEF TaskOnly
    <3>2. CASE Updated(w) /\ want[w] = "running" /\ ~Agent(cmd[w])
      <4>1. TaskOnly(w) /\ pc'[w] = "note" /\ cmd'[w] = cmd[w] /\ want'[w] = "running"
        BY <1>0, <3>2, GotoLeads DEF Updated, Labels
      <4>2. StageAt(w)'
        BY <1>2, <2>2, <3>2, <4>1 DEF StageAt, Agent
      <4> QED
        BY <2>4, <2>5, <4>1, <4>2 DEF TaskOnly
    <3>3. CASE Updated(w) /\ want[w] = "running" /\ Agent(cmd[w])
      <4>1. Spawned(w)
        BY <1>0, <1>2, <3>3, WaiterNeverLaunches DEF Updated, Spawned, Agent
      <4>2. /\ \A u \in Writers \ {w, c} : pc'[u] = pc[u] /\ cmd'[u] = cmd[u] /\ want'[u] = want[u]
            /\ cmd'[w] = NoCmd /\ c \in Writers
            /\ pc'[c] = "wait" /\ cmd'[c] = c /\ want'[c] = want[c]
        BY <1>0, <1>2, <4>1, SpawnedTasks
      <4>3. EventsOf(c) # {}
        BY <1>0, <1>1, <1>2, <3>3 DEF StageInv, StageAt, CursorPcs
      <4>4. EventsOf(cmd[c])' # {}
        <5>1. EventsOf(cmd[c])' = EventsOf(c)
          BY <1>1, <4>2 DEF EventsOf
        <5> QED
          BY <4>3, <5>1
      <4>5. want[c] # "accepted"
        BY <1>0 DEF TaskInv, WaiterAt
      <4>6. StageAt(c)'
        BY <2>2, <3>3, <4>2, <4>4, <4>5 DEF StageAt
      <4>7. CASE v \in {w, c}
        BY <4>2, <4>6, <4>7
      <4>8. CASE v \notin {w, c}
        BY <2>4, <2>5, <4>2, <4>8
      <4> QED
        BY <4>7, <4>8
    <3> QED
      BY <1>1, <3>1, <3>2, <3>3 DEF Updated
  <2> QED
    BY <2>3, <2>6 DEF StageInv, Terminal
<1> QED
  BY <1>4, <1>5 DEF ApplyRow

(* The agent and the note. *)
LEMMA AgentStaged ==
    ASSUME Staged, NEW w \in Writers, Launch(w) \/ Respawn(w) \/ Wait(w) \/ Capture(w) \/ NoteStep(w)
    PROVE  StageInv'
<1>0. TaskType /\ TaskInv
  BY StagedParts
<1>1. /\ pc[w] \in {"launch", "respawn", "wait", "capture", "note"}
      /\ UNCHANGED <<events, rows>>
  BY DEF Launch, Respawn, Wait, Capture, NoteStep, storeVars
<1>2. /\ cmd[w] \in Commands /\ StageAt(w)
      /\ pc[w] \in {"launch", "respawn"} => want[w] = "accepted"
  BY <1>0, <1>1, StagedParts DEF TaskInv, TaskAt, AtCommand
<1>3. /\ pc[w] \in {"launch", "respawn"} => rows[cmd[w]].state = "queued"
      /\ pc[w] \in {"wait", "capture", "note"} => rows[cmd[w]].state = "running"
  BY <1>2 DEF StageAt
<1>4. CASE Record(w, "failed")
  <2>1. TaskOnly(w) /\ pc'[w] = "readCursor" /\ cmd'[w] = cmd[w] /\ want'[w] = "failed"
    BY <1>0, <1>4, RecordLeads DEF Wants
  <2> QED
    BY <1>1, <2>1, StageQuiet DEF CursorPcs
<1>5. CASE Record(w, "succeeded") /\ pc[w] \in {"capture", "note"}
  <2>1. TaskOnly(w) /\ pc'[w] = "readCursor" /\ cmd'[w] = cmd[w] /\ want'[w] = "succeeded"
    BY <1>0, <1>5, RecordLeads DEF Wants
  <2> QED
    BY <1>1, <1>3, <1>5, <2>1, StageQuiet DEF CursorPcs
<1>6. CASE SetRow(w, "running") /\ pc[w] = "respawn"
  <2>1. TaskOnly(w) /\ pc'[w] = "readRow" /\ cmd'[w] = cmd[w] /\ want'[w] = "running"
    BY <1>0, <1>6, SetRowLeads DEF Wants
  <2> QED
    BY <1>1, <1>3, <1>6, <2>1, StageQuiet DEF CursorPcs
<1>7. CASE Goto(w, "respawn") /\ UNCHANGED <<cmd, want, base, cur>> /\ pc[w] = "launch"
  <2>1. TaskOnly(w) /\ pc'[w] = "respawn" /\ cmd'[w] = cmd[w] /\ want'[w] = want[w]
    BY <1>0, <1>7, GotoLeads DEF Labels
  <2> QED
    BY <1>1, <1>2, <1>3, <1>7, <2>1, StageQuiet DEF CursorPcs
<1>8. CASE Goto(w, "capture") /\ UNCHANGED <<cmd, want, base, cur>> /\ pc[w] = "wait"
  <2>1. TaskOnly(w) /\ pc'[w] = "capture" /\ cmd'[w] = cmd[w] /\ want'[w] = want[w]
    BY <1>0, <1>8, GotoLeads DEF Labels
  <2> QED
    BY <1>1, <1>2, <1>3, <1>8, <2>1, StageQuiet DEF CursorPcs, StageAt
<1> QED
  BY <1>4, <1>5, <1>6, <1>7, <1>8 DEF Launch, Respawn, Wait, Capture, NoteStep

LEMMA PutStaged ==
    ASSUME Staged, NEW w \in Sessions, NEW c \in Commands, Put(w, c) PROVE StageInv'
<1> USE CPAssumption
<1>0. TaskType /\ StoreType /\ RunInv /\ StageInv
  BY StagedParts
<1>1. w \in Writers /\ events' = events /\ \A d \in Commands : EventsOf(d)' = EventsOf(d)
  BY DEF Writers, Put, EventsOf
<1>2. CASE rows' = rows /\ UNCHANGED taskVars
  BY <1>0, <1>1, <1>2, StageKept DEF StageInv, taskVars, Terminal
<1>3. CASE /\ rows[c] = NoRow
           /\ rows' = [rows EXCEPT ![c] = [state |-> "queued", cursor |-> 0]]
  <2>1. /\ rows'[c].state = "queued" /\ rows'[c].cursor = 0
        /\ \A d \in Commands \ {c} : rows'[d] = rows[d]
    BY <1>0, <1>3 DEF StoreType
  <2>2. \A v \in Writers : cmd[v] # c
    BY <1>0, <1>3 DEF RunInv, NoRow
  <2>3. \A d \in Commands : ~Terminal(rows'[d]) => rows'[d].cursor = 0
    BY <1>0, <2>1 DEF StageInv
  <2>4. ASSUME NEW v \in Writers, pc'[v] = pc[v], cmd'[v] = cmd[v], want'[v] = want[v]
        PROVE  cmd'[v] \in Commands => StageAt(v)'
    <3>1. cmd[v] \in Commands => StageAt(v) /\ rows'[cmd[v]] = rows[cmd[v]]
      BY <1>0, <2>1, <2>2 DEF StageInv
    <3> QED
      BY <1>1, <2>4, <3>1, StageKept
  <2>5. CASE UNCHANGED taskVars
    <3>1. \A v \in Writers : cmd'[v] \in Commands => StageAt(v)'
      BY <2>4, <2>5 DEF taskVars
    <3> QED
      BY <2>3, <3>1 DEF StageInv, Terminal
  <2>6. CASE Accepted(w, c)
    <3>1. /\ TaskOnly(w) /\ cmd'[w] = c
          /\ pc'[w] = IF Agent(c) THEN "readCursor" ELSE "readRow"
          /\ want'[w] = IF Agent(c) THEN "accepted" ELSE "running"
      BY <1>0, <1>1, <2>6 DEF Accepted, Goto, TaskType, TaskOnly
    <3>2. StageAt(w)'
      <4>1. CASE Agent(c)
        BY <2>1, <3>1, <4>1 DEF StageAt, CursorPcs
      <4>2. CASE ~Agent(c)
        BY <2>1, <3>1, <4>2 DEF StageAt, Agent
      <4> QED
        BY <4>1, <4>2
    <3>3. \A v \in Writers : cmd'[v] \in Commands => StageAt(v)'
      BY <2>4, <3>1, <3>2 DEF TaskOnly
    <3> QED
      BY <2>3, <3>3 DEF StageInv, Terminal
  <2> QED
    BY <1>3, <2>5, <2>6 DEF Put
<1> QED
  BY <1>2, <1>3 DEF Put

LEMMA StageStep ==
    ASSUME Staged, [Next]_vars PROVE StageInv'
<1>0. StageInv
  BY StagedParts
<1>1. ASSUME UNCHANGED storeVars, UNCHANGED taskVars PROVE StageInv'
  <2>1. UNCHANGED <<events, rows, pc, cmd, want>>
    BY <1>1 DEF storeVars, taskVars
  <2>2. \A c \in Commands : EventsOf(c)' = EventsOf(c)
    BY <2>1 DEF EventsOf
  <2>3. \A v \in Writers : cmd'[v] \in Commands => StageAt(v)'
    BY <1>0, <2>1, <2>2, StageKept DEF StageInv
  <2> QED
    BY <1>0, <2>1, <2>3 DEF StageInv, Terminal
<1>2. ASSUME NEW d \in Devices, ReadHighWater(d) \/ Deliver(d) PROVE StageInv'
  BY <1>1, <1>2 DEF ReadHighWater, Deliver
<1>3. TurnEnds \/ UNCHANGED vars => StageInv'
  BY <1>1 DEF TurnEnds, vars
<1>4. CASE Crash
  <2>1. \A w \in Writers : cmd'[w] \notin Commands
    BY <1>4, CPAssumption DEF Crash
  <2>2. rows' = rows
    BY <1>4 DEF Crash, storeVars
  <2> QED
    BY <1>0, <2>1, <2>2 DEF StageInv, Terminal
<1> QED
  BY <1>2, <1>3, <1>4, AllocatorStaged, AppendStaged, ReadRowStaged, ApplyRowStaged,
     AgentStaged, PutStaged DEF Next, TaskStep

(* The inductive invariant of the stages of a command. *)
THEOREM StageInvariance == Spec => []StageInv
<1>1. Init => StageInv
  BY CPAssumption DEF Init, StageInv, NoRow
<1>2. Inv /\ StoryInv /\ StageInv /\ [Next]_vars => StageInv'
  BY StageStep DEF Staged
<1> QED
  BY <1>1, <1>2, Invariance, StoryInvariance, PTL DEF Spec

-----------------------------------------------------------------------------
(* The control plane implements RemoteCommand *)

commands == [c \in Commands |-> CommandOf(c)]

(* The turns of the agent of c, and its log. *)
RunsOf(c) == {i \in 1..Len(turns) : turns[i] = c}

LogOf(c) == {[at |-> k, kind |-> events[k].kind] : k \in EventsOf(c)}

LEMMA CommandParts ==
    ASSUME NEW c \in Commands
    PROVE  CommandOf(c) = [state |-> rows[c].state, result |-> rows[c].cursor,
                           runs |-> RunsOf(c), log |-> LogOf(c)]
  BY DEF CommandOf, RunsOf, LogOf, EventsOf

LEMMA CommandPartsNext ==
    ASSUME NEW c \in Commands
    PROVE  CommandOf(c)' = [state |-> rows'[c].state, result |-> rows'[c].cursor,
                            runs |-> RunsOf(c)', log |-> LogOf(c)']
  BY DEF CommandOf, RunsOf, LogOf, EventsOf

(* Steps that write neither row nor turn nor event of c do not move it. *)
LEMMA CommandStays ==
    ASSUME NEW c \in Commands, rows'[c] = rows[c], RunsOf(c)' = RunsOf(c), LogOf(c)' = LogOf(c)
    PROVE  CommandOf(c)' = CommandOf(c)
  BY CommandParts, CommandPartsNext

(* A command moves alone. *)
LEMMA CommandMoves ==
    ASSUME NEW c \in Commands, \A d \in Commands \ {c} : CommandOf(d)' = CommandOf(d)
    PROVE  /\ commands[c] = CommandOf(c) /\ commands'[c] = CommandOf(c)'
           /\ commands' = [commands EXCEPT ![c] = commands'[c]]
<1>1. /\ commands = [d \in Commands |-> CommandOf(d)]
      /\ commands' = [d \in Commands |-> CommandOf(d)']
  BY DEF commands
<1> QED
  BY <1>1

LEMMA QuietSimulated ==
    ASSUME UNCHANGED <<rows, turns, events>> PROVE UNCHANGED commands
  BY DEF commands, CommandOf

LEMMA PutSimulated ==
    ASSUME Staged, NEW w \in Sessions, NEW c \in Commands, Put(w, c)
    PROVE  [Command!Next]_commands
<1>0. StoreType /\ RunInv /\ LogInv /\ OtherType
  BY StagedParts
<1>1. UNCHANGED <<turns, events>>
  BY DEF Put, agentVars
<1>2. CASE rows' = rows
  BY <1>1, <1>2, QuietSimulated
<1>3. CASE /\ rows[c] = NoRow
           /\ rows' = [rows EXCEPT ![c] = [state |-> "queued", cursor |-> 0]]
  <2>1. /\ rows'[c] = [state |-> "queued", cursor |-> 0]
        /\ \A d \in Commands \ {c} : rows'[d] = rows[d]
    BY <1>0, <1>3 DEF StoreType
  <2>2. \A d \in Commands : RunsOf(d)' = RunsOf(d) /\ LogOf(d)' = LogOf(d)
    BY <1>1 DEF RunsOf, LogOf, EventsOf
  <2>3. RunsOf(c) = {} /\ LogOf(c) = {}
    BY <1>0, <1>3 DEF RunsOf, LogOf, RunInv, LogInv, NoRow
  <2>4. CommandOf(c) = Command!Fresh
    BY <1>3, <2>3, CommandParts DEF NoRow, Command!Fresh
  <2>5. CommandOf(c)' = [Command!Fresh EXCEPT !.state = "queued"]
    <3>1. rows'[c].state = "queued" /\ rows'[c].cursor = 0
      BY <2>1
    <3>2. CommandOf(c)' = [state |-> "queued", result |-> 0, runs |-> {}, log |-> {}]
      BY <2>2, <2>3, <3>1, CommandPartsNext
    <3> QED
      BY <3>2 DEF Command!Fresh
  <2>6. \A d \in Commands \ {c} : CommandOf(d)' = CommandOf(d)
    BY <2>1, <2>2, CommandStays
  <2>7. Command!Store(c)
    BY <2>4, <2>5, <2>6, CommandMoves DEF Command!Store, Command!Only, commands
  <2> QED
    BY <2>7 DEF Command!Next
<1> QED
  BY <1>2, <1>3 DEF Put

LEMMA RespawnSimulated ==
    ASSUME Staged, NEW w \in Writers, Respawn(w) PROVE [Command!Next]_commands
<1>0. OtherType /\ RunInv /\ TaskInv
  BY StagedParts
<1>1. pc[w] = "respawn" /\ UNCHANGED <<rows, events>>
  BY DEF Respawn, storeVars
<1>2. CASE turns' = turns
  BY <1>1, <1>2, QuietSimulated
<1>3. CASE turns' = Append(turns, cmd[w])
  <2>1. PICK c \in Commands : c = cmd[w]
    BY <1>0, <1>1 DEF TaskInv, TaskAt, AtCommand
  <2>2. /\ want[w] = "accepted" /\ Agent(c) /\ rows[c].state = "queued"
        /\ EventsOf(c) # {} /\ \A k \in EventsOf(c) : events[k].kind = "accepted"
    <3>1. want[w] = "accepted"
      BY <1>0, <1>1 DEF TaskInv, TaskAt
    <3>2. PathAt(w) /\ LogAt(w) /\ StageAt(w)
      BY <2>1, StagedParts
    <3> QED
      BY <1>1, <2>1, <3>1, <3>2 DEF PathAt, LogAt, StageAt, CursorPcs
  <2>3. RunsOf(c) = {}
    BY <1>0, <2>1, <2>2 DEF RunInv, RunsOf
  <2>4. turns \in Seq(Commands) /\ Len(turns) \in Nat
    BY <1>0 DEF OtherType
  <2>5. /\ Len(turns') = Len(turns) + 1 /\ turns'[Len(turns) + 1] = c
        /\ \A i \in 1..Len(turns) : turns'[i] = turns[i]
    BY <1>3, <2>1, <2>4
  <2>6. RunsOf(c)' = {Len(turns) + 1}
    <3>1. \A i \in 1..Len(turns') : turns'[i] = c <=> i = Len(turns) + 1
      BY <2>3, <2>4, <2>5 DEF RunsOf
    <3> QED
      BY <2>4, <2>5, <3>1 DEF RunsOf
  <2>7. \A d \in Commands \ {c} : RunsOf(d)' = RunsOf(d)
    BY <2>4, <2>5 DEF RunsOf
  <2>8. \A d \in Commands : LogOf(d)' = LogOf(d)
    BY <1>1 DEF LogOf, EventsOf
  <2>9. \A d \in Commands \ {c} : CommandOf(d)' = CommandOf(d)
    BY <1>1, <2>7, <2>8, CommandStays
  <2>10. CommandOf(c)' = [CommandOf(c) EXCEPT !.runs = {Len(turns) + 1}]
    BY <1>1, <2>6, <2>8, CommandParts, CommandPartsNext
  <2>11. /\ CommandOf(c).state = "queued" /\ CommandOf(c).runs = {}
         /\ {e.kind : e \in CommandOf(c).log} = {"accepted"}
    <3>1. /\ CommandOf(c).state = "queued" /\ CommandOf(c).runs = {}
          /\ CommandOf(c).log = LogOf(c)
      BY <2>2, <2>3, CommandParts
    <3>2. LogOf(c) # {} /\ \A e \in LogOf(c) : e.kind = "accepted"
      <4>1. PICK k \in EventsOf(c) : TRUE
        BY <2>2
      <4>2. [at |-> k, kind |-> events[k].kind] \in LogOf(c)
        BY <4>1 DEF LogOf
      <4>3. \A e \in LogOf(c) : e.kind = "accepted"
        BY <2>2 DEF LogOf
      <4> QED
        BY <4>2, <4>3
    <3> QED
      BY <3>1, <3>2
  <2>12. CommandOf(c)'.runs = {Len(turns) + 1}
    BY <2>6, CommandPartsNext
  <2>13. Command!Start(c)
    BY <2>2, <2>9, <2>10, <2>11, <2>12, CommandMoves
       DEF Command!Start, Command!Only, Command!Kinds, commands
  <2> QED
    BY <2>13 DEF Command!Next
<1> QED
  BY <1>2, <1>3 DEF Respawn

LEMMA AppendSimulated ==
    ASSUME Staged, NEW w \in Writers, AppendEvent(w) PROVE [Command!Next]_commands
<1>0. OtherType /\ RunInv /\ TaskInv /\ TaskType
  BY StagedParts
<1>1. /\ pc[w] = "append" /\ UNCHANGED <<rows, turns>>
      /\ Appends(w) \/ events' = events
  BY AppendOne
<1>2. CASE events' = events
  BY <1>1, <1>2, QuietSimulated
<1>3. CASE Appends(w)
  <2>1. \A d \in Commands : RunsOf(d)' = RunsOf(d)
    BY <1>1 DEF RunsOf
  <2>2. ASSUME NEW d \in Commands \ {cmd[w]} PROVE CommandOf(d)' = CommandOf(d)
    <3>1. EventsOf(d)' = EventsOf(d) /\ \A k \in EventsOf(d) : events'[k] = events[k]
      BY <1>3, AppendedLog
    <3>2. LogOf(d)' = LogOf(d)
      BY <3>1 DEF LogOf
    <3> QED
      BY <1>1, <2>1, <3>2, CommandStays
  <2>3. CASE cmd[w] \notin Commands
    BY <2>2, <2>3 DEF commands
  <2>4. CASE cmd[w] \in Commands
    <3>1. PICK c \in Commands : c = cmd[w]
      BY <2>4
    <3>2. PathAt(w) /\ LogAt(w) /\ StageAt(w)
      BY <2>4, StagedParts
    <3>3. /\ want[w] \in {"accepted", "succeeded", "failed"}
          /\ want[w] = "accepted" => EventsOf(c) = {} /\ Agent(c) /\ rows[c].state = "queued"
          /\ \A k \in EventsOf(c) : events[k].kind = "accepted" /\ k < cur[w]
          /\ rows[c].state \in {"queued", "running"}
          /\ want[w] = "succeeded" => rows[c].state = "running"
          /\ want[w] # "accepted" /\ Agent(c) => EventsOf(c) # {}
      BY <1>1, <3>1, <3>2 DEF PathAt, LogAt, StageAt, CursorPcs, Outcomes
    <3> DEFINE e == [at |-> cur[w], kind |-> want[w]]
    <3>4. LogOf(c)' = LogOf(c) \cup {e}
      <4>1. /\ EventsOf(c)' = EventsOf(c) \cup {cur[w]} /\ events'[cur[w]].kind = want[w]
            /\ \A k \in EventsOf(c) : events'[k] = events[k]
        BY <1>3, <3>1, AppendedLog
      <4> QED
        BY <4>1 DEF LogOf
    <3>5. /\ CommandOf(c)' = [CommandOf(c) EXCEPT !.log = CommandOf(c).log \cup {e}]
          /\ CommandOf(c)'.log = CommandOf(c).log \cup {e}
      BY <1>1, <2>1, <3>4, CommandParts, CommandPartsNext
    <3>6. /\ CommandOf(c).state = rows[c].state /\ CommandOf(c).log = LogOf(c)
          /\ CommandOf(c).runs = RunsOf(c)
          /\ e.kind = want[w] /\ e.at = cur[w]
      BY CommandParts
    <3> HIDE DEF e
    <3>7. \A f \in LogOf(c) : f.at < cur[w] /\ f.kind = "accepted"
      BY <3>3 DEF LogOf
    <3>8. /\ commands[c] = CommandOf(c) /\ commands'[c] = CommandOf(c)'
          /\ commands' = [commands EXCEPT ![c] = commands'[c]]
      BY <2>2, <3>1, CommandMoves
    <3>9. CASE want[w] = "accepted"
      <4>1. LogOf(c) = {} /\ RunsOf(c) = {}
        BY <1>0, <3>1, <3>3, <3>9 DEF LogOf, RunsOf, RunInv
      <4>2. CommandOf(c)' = [CommandOf(c) EXCEPT !.log = {e}] /\ CommandOf(c)'.log = {e}
        BY <3>5, <3>6, <4>1
      <4>3. Command!Announce(c)
        BY <3>3, <3>6, <3>8, <3>9, <4>1, <4>2 DEF Command!Announce, Command!Only, commands
      <4> QED
        BY <4>3 DEF Command!Next
    <3>10. CASE want[w] # "accepted"
      <4>1. {f.kind : f \in CommandOf(c).log} \cap {"succeeded", "failed"} = {}
        BY <3>6, <3>7
      <4>2. Agent(c) => "accepted" \in {f.kind : f \in CommandOf(c).log}
        <5>1. Agent(c) => LogOf(c) # {}
          BY <3>3, <3>10 DEF LogOf
        <5> QED
          BY <3>6, <3>7, <5>1
      <4>3. e.kind \in (IF CommandOf(c).state = "running" THEN {"succeeded", "failed"} ELSE {"failed"})
        BY <3>3, <3>6, <3>10
      <4>4. \A f \in CommandOf(c).log : f.at < e.at
        BY <3>6, <3>7
      <4>5. e \in CommandOf(c)'.log /\ CommandOf(c).state \in {"queued", "running"}
        BY <3>3, <3>5, <3>6
      <4>6. Command!Report(c)
        BY <3>5, <3>8, <4>1, <4>2, <4>3, <4>4, <4>5
           DEF Command!Report, Command!Only, Command!Open, Command!Kinds, Command!Outcomes, commands
      <4> QED
        BY <4>6 DEF Command!Next
    <3> QED
      BY <3>9, <3>10
  <2> QED
    BY <2>3, <2>4
<1> QED
  BY <1>1, <1>2, <1>3

LEMMA ApplyRowSimulated ==
    ASSUME Staged, NEW w \in Writers, ApplyRow(w) PROVE [Command!Next]_commands
<1>0. StoreType /\ StageInv
  BY StagedParts
<1>1. pc[w] = "applyRow" /\ UNCHANGED <<turns, events>>
  BY DEF ApplyRow, agentVars
<1>2. CASE rows' = rows
  BY <1>1, <1>2, QuietSimulated
<1>3. CASE rows' = [rows EXCEPT ![cmd[w]] = NewRow(w)]
  <2>1. /\ cmd[w] \in Commands /\ want[w] \in {"running", "succeeded", "failed"}
        /\ rows[cmd[w]].state \in {"queued", "running"}
        /\ want[w] = "running" => rows[cmd[w]].state = "queued"
    BY <1>1, RowReady
  <2>2. PICK c \in Commands : c = cmd[w]
    BY <2>1
  <2>3. /\ \A d \in Commands \ {c} : rows'[d] = rows[d]
        /\ rows'[c].state = want[w]
        /\ rows'[c].cursor = IF want[w] = "running" THEN 0 ELSE cur[w]
    BY <1>0, <1>3, <2>2 DEF StoreType, NewRow
  <2>4. \A d \in Commands : RunsOf(d)' = RunsOf(d) /\ LogOf(d)' = LogOf(d)
    BY <1>1 DEF RunsOf, LogOf, EventsOf
  <2>5. \A d \in Commands \ {c} : CommandOf(d)' = CommandOf(d)
    BY <2>3, <2>4, CommandStays
  <2>6. /\ commands[c] = CommandOf(c) /\ commands'[c] = CommandOf(c)'
        /\ commands' = [commands EXCEPT ![c] = commands'[c]]
    BY <2>5, CommandMoves
  <2>7. PathAt(w) /\ LogAt(w)
    BY <2>1, StagedParts
  <2>8. /\ CommandOf(c).state = rows[c].state /\ CommandOf(c).log = LogOf(c)
        /\ CommandOf(c).runs = RunsOf(c) /\ CommandOf(c).result = rows[c].cursor
    BY CommandParts
  <2>9. CASE want[w] = "running"
    <3>1. rows[c].state = "queued" /\ rows[c].cursor = 0
      BY <1>0, <2>1, <2>2, <2>9 DEF StageInv, Terminal
    <3>2. CommandOf(c)' = [CommandOf(c) EXCEPT !.state = "running"]
      BY <2>3, <2>4, <2>9, <3>1, CommandParts, CommandPartsNext
    <3>3. Agent(c) => RunsOf(c) # {}
      BY <1>1, <2>2, <2>7, <2>9 DEF PathAt, HasRun, RunsOf
    <3>4. {f.kind : f \in CommandOf(c).log} \cap {"succeeded", "failed"} = {}
      <4>1. \A k \in EventsOf(c) : events[k].kind = "accepted"
        BY <1>1, <2>2, <2>7, <2>9 DEF LogAt, Outcomes
      <4> QED
        BY <2>8, <4>1 DEF LogOf
    <3>5. Command!Run(c)
      BY <2>6, <2>8, <3>1, <3>2, <3>3, <3>4
         DEF Command!Run, Command!Only, Command!Kinds, Command!Outcomes, commands
    <3> QED
      BY <3>5 DEF Command!Next
  <2>10. CASE want[w] # "running"
    <3> DEFINE e == [at |-> cur[w], kind |-> want[w]]
    <3>1. e \in LogOf(c)
      <4>1. cur[w] \in 1..MaxCursor /\ events[cur[w]] = [cmd |-> c, kind |-> want[w]]
        BY <1>1, <2>1, <2>2, <2>7, <2>10 DEF LogAt, Outcomes
      <4>2. [cmd |-> c, kind |-> want[w]] \in Events
        BY <2>1 DEF Events, Wants
      <4>3. cur[w] \in EventsOf(c) /\ events[cur[w]].kind = want[w]
        BY <4>1, <4>2, CPAssumption DEF EventsOf
      <4> QED
        BY <4>3 DEF LogOf
    <3>2. e.kind = want[w] /\ e.at = cur[w] /\ e.kind \in {"succeeded", "failed"}
      BY <2>1, <2>10
    <3> HIDE DEF e
    <3>3. CommandOf(c)' = [[CommandOf(c) EXCEPT !.state = e.kind] EXCEPT !.result = e.at]
      <4>1. rows'[c].state = e.kind /\ rows'[c].cursor = e.at
        BY <2>3, <2>10, <3>2
      <4>2. CommandOf(c)' = [state |-> e.kind, result |-> e.at, runs |-> RunsOf(c), log |-> LogOf(c)]
        BY <2>4, <4>1, CommandPartsNext
      <4>3. PICK r : r = [CommandOf(c) EXCEPT !.state = e.kind]
        OBVIOUS
      <4>4. r = [state |-> e.kind, result |-> rows[c].cursor, runs |-> RunsOf(c), log |-> LogOf(c)]
        BY <4>3, CommandParts
      <4>5. [r EXCEPT !.result = e.at] =
              [state |-> e.kind, result |-> e.at, runs |-> RunsOf(c), log |-> LogOf(c)]
        BY <4>4
      <4> QED
        BY <4>2, <4>3, <4>5, Zenon
    <3>4. commands'[c] = [commands[c] EXCEPT !.state = e.kind, !.result = e.at]
      BY <2>6, <3>3, Zenon
    <3>5. commands[c].state \in {"queued", "running"} /\ e \in commands[c].log
      BY <2>1, <2>2, <2>6, <2>8, <3>1
    <3>6. Command!Settle(c)
      BY <2>6, <3>2, <3>4, <3>5, Zenon
         DEF Command!Settle, Command!Only, Command!Open, Command!Outcomes, commands
    <3> QED
      BY <3>6 DEF Command!Next
  <2> QED
    BY <2>9, <2>10
<1> QED
  BY <1>2, <1>3 DEF ApplyRow

(* Every step of the control plane is a step of one command, or of none. *)
LEMMA CommandSimulated == Inv /\ StoryInv /\ StageInv /\ [Next]_vars => [Command!Next]_commands
<1> SUFFICES ASSUME Staged, [Next]_vars PROVE [Command!Next]_commands
  BY DEF Staged
<1>1. ASSUME NEW w \in Writers, TaskStep(w), ~AppendEvent(w), ~ApplyRow(w), ~Respawn(w)
      PROVE  UNCHANGED <<rows, turns, events>>
  BY <1>1 DEF TaskStep, ReadCursor, ApplyCursor, CheckCursor, ReadRow, Launch, Wait, Capture,
       NoteStep, storeVars, agentVars
<1>2. ASSUME NEW d \in Devices, ReadHighWater(d) \/ Deliver(d) PROVE UNCHANGED <<rows, turns, events>>
  BY <1>2 DEF ReadHighWater, Deliver, storeVars, agentVars
<1>3. TurnEnds \/ Crash \/ UNCHANGED vars => UNCHANGED <<rows, turns, events>>
  BY DEF TurnEnds, Crash, vars, storeVars, agentVars
<1> QED
  BY <1>1, <1>2, <1>3, QuietSimulated, PutSimulated, RespawnSimulated, AppendSimulated,
     ApplyRowSimulated DEF Next

(* Whatever sessions, waiters, repeated frames, lost answers and restarts do, a
   command is stored once, announced, started once, called running, given one
   outcome above all that was told, and settled once, on that outcome. *)
THEOREM CommandRefinement == Spec => ImplementsRemoteCommand
<1>1. Init => Command!Init
  <2> SUFFICES ASSUME Init PROVE \A c \in Commands : CommandOf(c) = Command!Fresh
    BY DEF Command!Init
  <2>1. ASSUME NEW c \in Commands PROVE CommandOf(c) = Command!Fresh
    <3>1. EventsOf(c) = {} /\ RunsOf(c) = {} /\ rows[c] = NoRow
      BY DEF Init, EventsOf, RunsOf
    <3>2. LogOf(c) = {}
      BY <3>1 DEF LogOf
    <3> QED
      BY <3>1, <3>2, CommandParts DEF NoRow, Command!Fresh
  <2> QED
    BY <2>1
<1>2. Inv /\ StoryInv /\ StageInv /\ [Next]_vars => [Command!Next]_commands
  BY CommandSimulated
<1> QED
  BY <1>1, <1>2, Invariance, StoryInvariance, StageInvariance, PTL
     DEF Spec, ImplementsRemoteCommand, Command!Spec, commands

=============================================================================
