----------------------------- MODULE ControlPlane -----------------------------
(***************************************************************************)
(* The mobile control plane of one server: the durable cursor allocator,   *)
(* event log and command rows of control_store.rs, and the tasks of a      *)
(* listener that write them (control_session.rs, listener.rs).             *)
(*                                                                         *)
(* Several control sessions serve frames at the same time; a frame may be  *)
(* repeated.  A launched agent runs in the one tmux pane of the server and *)
(* a task per launch waits for it.  Every statement of the store is one    *)
(* atomic step, and its answer may be lost.                                *)
(***************************************************************************)
EXTENDS Naturals, Sequences, FiniteSets

CONSTANTS
    Sessions,       \* control sessions, each serves one frame at a time
    Commands,       \* command ids (UUIDv7) of the controllers
    Op,             \* Op[c]: what command c asks for
    Notes,          \* note ids
    Audits,         \* the tasks that record the beginning of a session
    Devices,        \* controllers that subscribe to the event log
    NoCmd, NoEvent,
    AuditBlock,     \* cursors reserved by spawn_session_audit (64)
    PageLimit,      \* MAX_CONTROL_REPLAY_EVENTS
    MaxTracked,     \* MAX_TRACKED_NOTES
    MaxCursor,      \* last cursor of the space (i64::MAX)
    MaxFaults       \* bound: lost answers, failed statements and crashes

(* The task that waits for the agent of command c is named by c itself. *)
Writers == Sessions \cup Commands \cup Audits

Ops == [kind: {"agent"}] \cup [kind: {"open"}]
         \cup [kind: {"append"}, note: Notes, seq: Nat]
         \cup [kind: {"commit"}, note: Notes]

(* What a task is about to record; the kind of the event follows from it. *)
Wants == {"accepted", "heartbeat", "running", "succeeded", "failed"}

Events == [cmd: Commands \cup {NoCmd}, kind: Wants]

ASSUME CPAssumption ==
    /\ Sessions \cap Commands = {}
    /\ Audits \cap (Sessions \cup Commands) = {}
    /\ NoCmd \notin Commands /\ NoEvent \notin Events
    /\ Op \in [Commands -> Ops]
    /\ AuditBlock \in Nat \ {0} /\ PageLimit \in Nat \ {0}
    /\ MaxCursor \in Nat /\ MaxTracked \in Nat /\ MaxFaults \in Nat

Agent(c) == Op[c].kind = "agent"

VARIABLES
    hw, token,      \* mobile_control_cursor_state: next_cursor - 1, reservation_token
    events,         \* mobile_control_events, by cursor
    rows,           \* mobile_control_commands
    pane,           \* the tmux pane: what runs in it, what its scrollback tells
    noteNext,       \* note_sequences of the dispatcher: last + 1 (0: not tracked)
    resume, page,   \* a device's cursor; 1 + the high water its page read
    delivered,      \* history: cursors of the events sent to a device
    handed,         \* history: how often the allocator returned a cursor
    turns,          \* history: commands whose agent was started, in order
    faults,         \* faults so far
    pc, cmd, want, base, cur, seen

storeVars  == <<hw, token, events, rows>>
taskVars   == <<pc, cmd, want, base, cur, seen>>
deviceVars == <<resume, page, delivered>>
agentVars  == <<pane, turns>>
vars == <<storeVars, taskVars, deviceVars, agentVars, noteNext, handed, faults>>

-----------------------------------------------------------------------------
CmdStates == {"absent", "queued", "running", "succeeded", "failed"}

Rows == [state: CmdStates, cursor: Nat]

NoRow == [state |-> "absent", cursor |-> 0]

Terminal(r) == r.state \in {"succeeded", "failed"}

Labels == {"idle", "readCursor", "applyCursor", "checkCursor", "append",
           "launch", "respawn", "readRow", "applyRow", "note", "wait", "capture"}

(* completed and error of parse_codex_jsonl, over all that is in the pane. *)
NoPane == [st |-> "none", completed |-> FALSE, error |-> FALSE]

TypeOK ==
    /\ hw \in Nat /\ token \in Writers \cup {NoCmd}
    /\ events \in [1..MaxCursor -> Events \cup {NoEvent}]
    /\ rows \in [Commands -> Rows]
    /\ pane \in [st: {"none", "shell", "codex", "dead"}, completed: BOOLEAN, error: BOOLEAN]
    /\ noteNext \in [Notes -> Nat]
    /\ resume \in [Devices -> Nat] /\ page \in [Devices -> Nat]
    /\ delivered \in [Devices -> SUBSET (1..MaxCursor)]
    /\ handed \in [1..MaxCursor -> Nat]
    /\ turns \in Seq(Commands)
    /\ faults \in Nat
    /\ pc \in [Writers -> Labels]
    /\ cmd \in [Writers -> Commands \cup {NoCmd}]
    /\ want \in [Writers -> Wants]
    /\ base \in [Writers -> Nat] /\ cur \in [Writers -> Nat]
    /\ seen \in [Writers -> CmdStates]

Init ==
    /\ hw = 0 /\ token = NoCmd
    /\ events = [k \in 1..MaxCursor |-> NoEvent]
    /\ rows = [c \in Commands |-> NoRow]
    /\ pane = NoPane
    /\ noteNext = [n \in Notes |-> 0]
    /\ resume = [d \in Devices |-> 0] /\ page = [d \in Devices |-> 0]
    /\ delivered = [d \in Devices |-> {}]
    /\ handed = [k \in 1..MaxCursor |-> 0]
    /\ turns = <<>>
    /\ faults = 0
    /\ pc = [w \in Writers |-> IF w \in Audits THEN "readCursor" ELSE "idle"]
    /\ cmd = [w \in Writers |-> NoCmd]
    /\ want = [w \in Writers |-> "heartbeat"]
    /\ base = [w \in Writers |-> 0] /\ cur = [w \in Writers |-> 0]
    /\ seen = [w \in Writers |-> "absent"]

-----------------------------------------------------------------------------
(* A fault is a failed statement, a lost answer or a crash. *)
Fault == faults < MaxFaults /\ faults' = faults + 1

NoFault == faults' = faults

FaultUnless(p) == IF p THEN NoFault ELSE Fault

Goto(w, label) == pc' = [pc EXCEPT ![w] = label]

(* The task returns, with a reply or with an error that is only reported. *)
End(w) ==
    /\ Goto(w, "idle")
    /\ cmd' = [cmd EXCEPT ![w] = NoCmd]
    /\ want' = [want EXCEPT ![w] = "heartbeat"]
    /\ base' = [base EXCEPT ![w] = 0]
    /\ cur' = [cur EXCEPT ![w] = 0]
    /\ seen' = [seen EXCEPT ![w] = "absent"]

(* append_control_event, and persist_terminal_command which starts with it. *)
Record(w, what) ==
    /\ Goto(w, "readCursor")
    /\ want' = [want EXCEPT ![w] = what]
    /\ UNCHANGED <<cmd, base, cur, seen>>

SetRow(w, what) ==
    /\ Goto(w, "readRow")
    /\ want' = [want EXCEPT ![w] = what]
    /\ UNCHANGED <<cmd, base, cur, seen>>

-----------------------------------------------------------------------------
(* reserve_cursor_block: read the row, compare and set, read back. *)

Size(w) == IF w \in Audits THEN AuditBlock ELSE 1

ReadCursor(w) ==
    /\ pc[w] = "readCursor"
    /\ \/ /\ hw + Size(w) <= MaxCursor
          /\ base' = [base EXCEPT ![w] = hw]
          /\ Goto(w, "applyCursor")
          /\ NoFault
          /\ UNCHANGED <<cmd, want, cur, seen>>
       \/ FaultUnless(hw + Size(w) > MaxCursor) /\ End(w)   \* space exhausted
    /\ UNCHANGED <<storeVars, deviceVars, agentVars, noteNext, handed>>

(* The block is returned to the caller, which uses its first cursor. *)
Got(w) ==
    /\ cur' = [cur EXCEPT ![w] = base[w] + 1]
    /\ handed' = [k \in 1..MaxCursor |->
                     IF k \in base[w] + 1 .. base[w] + Size(w)
                     THEN handed[k] + 1 ELSE handed[k]]
    /\ Goto(w, "append")
    /\ base' = [base EXCEPT ![w] = 0]
    /\ UNCHANGED <<cmd, want, seen>>

Reserve(w) ==
    /\ hw = base[w]                       \* IF next_cursor = ? / IF NOT EXISTS
    /\ hw' = base[w] + Size(w)
    /\ token' = w

(* The statement failed, or its answer has no [applied] column. *)
Unanswered(w) ==
    \/ Goto(w, "checkCursor") /\ UNCHANGED <<cmd, want, base, cur, seen>>
    \/ End(w)

(* The block went to somebody else: from the top, or an error when this was the
   last of the 32 attempts.  Attempts are not counted, any may be the last. *)
Retry(w) ==
    \/ Goto(w, "readCursor") /\ UNCHANGED <<cmd, want, base, cur, seen>>
    \/ End(w)

ApplyCursor(w) ==
    /\ pc[w] = "applyCursor"
    /\ \/ Reserve(w) /\ NoFault /\ Got(w)
       \/ Reserve(w) /\ Fault /\ Unanswered(w) /\ handed' = handed
       \/ hw # base[w] /\ NoFault /\ Retry(w) /\ UNCHANGED <<hw, token, handed>>
       \/ Fault /\ Unanswered(w) /\ UNCHANGED <<hw, token, handed>>
    /\ UNCHANGED <<events, rows, deviceVars, agentVars, noteNext>>

(* Mutant: the read-back does not look at the reservation token. *)
OwnBlockByHighWater(w) == hw = base[w] + Size(w)

OwnBlock(w) == hw = base[w] + Size(w) /\ token = w

CheckCursor(w) ==
    /\ pc[w] = "checkCursor"
    /\ \/ OwnBlock(w) /\ NoFault /\ Got(w)
       \/ ~OwnBlock(w) /\ NoFault /\ Retry(w) /\ handed' = handed
       \/ Fault /\ End(w) /\ handed' = handed
    /\ UNCHANGED <<storeVars, deviceVars, agentVars, noteNext>>

-----------------------------------------------------------------------------
(* append_event, and what the caller does after it. *)

Recorded(w) ==
    CASE want[w] = "accepted"  -> Goto(w, "launch") /\ UNCHANGED <<cmd, want, base, cur, seen>>
      [] want[w] = "heartbeat" -> End(w)
      [] OTHER                 -> SetRow(w, want[w])

Refused(w) == cur[w] > hw \/ events[cur[w]] # NoEvent

(* validate_payload: an outcome carries text of up to 12 KiB, escaped only when
   it is measured against the 16 KiB of a payload. *)
TooLarge(w) == want[w] \in {"succeeded", "failed"}

AppendEvent(w) ==
    /\ pc[w] = "append"
    /\ \/ /\ ~Refused(w)
          /\ events' = [events EXCEPT ![cur[w]] = [cmd |-> cmd[w], kind |-> want[w]]]
          /\ \/ NoFault /\ Recorded(w)
             \/ Fault /\ End(w)                           \* the answer is lost
       \/ events' = events /\ FaultUnless(Refused(w) \/ TooLarge(w)) /\ End(w)
    /\ UNCHANGED <<hw, token, rows, deviceVars, agentVars, noteNext, handed>>

-----------------------------------------------------------------------------
(* dispatch_command and handle_note_command: the command id is put first. *)

(* Mutant: the agent is launched before its acceptance is in the log. *)
AcceptedUnannounced(w, c) ==
    /\ cmd' = [cmd EXCEPT ![w] = c]
    /\ Goto(w, IF Agent(c) THEN "launch" ELSE "readRow")
    /\ want' = [want EXCEPT ![w] = IF Agent(c) THEN "accepted" ELSE "running"]
    /\ UNCHANGED <<base, cur, seen>>

(* The handler goes on with the command it put. *)
Accepted(w, c) ==
    /\ cmd' = [cmd EXCEPT ![w] = c]
    /\ Goto(w, IF Agent(c) THEN "readCursor" ELSE "readRow")
    /\ want' = [want EXCEPT ![w] = IF Agent(c) THEN "accepted" ELSE "running"]
    /\ UNCHANGED <<base, cur, seen>>

(* Mutant: an insert whose answer is unknown counts as inserted. *)
PutUnknownInserted(w, c) ==
    /\ pc[w] = "idle"
    /\ \/ /\ rows[c] = NoRow
          /\ rows' = [rows EXCEPT ![c] = [state |-> "queued", cursor |-> 0]]
          /\ NoFault /\ Accepted(w, c)
       \/ rows' = rows /\ Fault /\ Accepted(w, c)
    /\ UNCHANGED <<hw, token, events, deviceVars, agentVars, noteNext, handed>>

(* A frame with command c arrives, again or for the first time, and its id is
   put (put_command_if_absent).  Only a known [applied] is an insert; anything
   else is answered with the row that is there, or with an error. *)
Put(w, c) ==
    /\ pc[w] = "idle"
    /\ \/ /\ rows[c] = NoRow
          /\ rows' = [rows EXCEPT ![c] = [state |-> "queued", cursor |-> 0]]
          /\ \/ NoFault /\ Accepted(w, c)
             \/ Fault /\ UNCHANGED taskVars
       \/ rows' = rows /\ FaultUnless(rows[c] # NoRow) /\ UNCHANGED taskVars
    /\ UNCHANGED <<hw, token, events, deviceVars, agentVars, noteNext, handed>>

-----------------------------------------------------------------------------
(* update_command: read, validate_command_transition, IF state = ?. *)

Allowed(from, to) ==
    \/ from = "queued" /\ to \in {"running", "failed"}
    \/ from = "running" /\ to \in {"succeeded", "failed"}

(* Mutant: result_cursor is the high water of the stream. *)
NewRowHighWater(w) ==
    [state |-> want[w], cursor |-> IF want[w] = "running" THEN 0 ELSE hw]

NewRow(w) ==
    [state |-> want[w], cursor |-> IF want[w] = "running" THEN 0 ELSE cur[w]]

(* The agent is running: a task of its own waits for it (tokio::spawn). *)
SpawnWaiter(w) ==
    LET c == cmd[w] IN
    /\ pc' = [pc EXCEPT ![w] = "idle", ![c] = "wait"]
    /\ cmd' = [cmd EXCEPT ![w] = NoCmd, ![c] = c]
    /\ want' = [want EXCEPT ![w] = "heartbeat"]
    /\ base' = [base EXCEPT ![w] = 0]
    /\ cur' = [cur EXCEPT ![w] = 0]
    /\ seen' = [seen EXCEPT ![w] = "absent"]

Updated(w) ==
    \/ want[w] # "running" /\ End(w)
    \/ want[w] = "running" /\ Agent(cmd[w]) /\ SpawnWaiter(w)
    \/ /\ want[w] = "running" /\ ~Agent(cmd[w])
       /\ Goto(w, "note") /\ UNCHANGED <<cmd, want, base, cur, seen>>

ReadRow(w) ==
    /\ pc[w] = "readRow"
    /\ LET r == rows[cmd[w]] IN
       IF r = NewRow(w) THEN NoFault /\ Updated(w)
       ELSE \/ /\ Allowed(r.state, want[w])
               /\ NoFault
               /\ Goto(w, "applyRow")
               /\ seen' = [seen EXCEPT ![w] = r.state]
               /\ UNCHANGED <<cmd, want, base, cur>>
            \/ FaultUnless(~Allowed(r.state, want[w])) /\ End(w)
    /\ UNCHANGED <<storeVars, deviceVars, agentVars, noteNext, handed>>

(* The read that verifies the update is part of the step: nobody else updates
   a row another task is working on. *)
ApplyRow(w) ==
    /\ pc[w] = "applyRow"
    /\ LET mine == rows[cmd[w]].state = seen[w]
       IN  \/ /\ mine
              /\ rows' = [rows EXCEPT ![cmd[w]] = NewRow(w)]
              /\ \/ NoFault /\ Updated(w)
                 \/ Fault /\ End(w)
           \/ rows' = rows /\ FaultUnless(~mine) /\ End(w)
    /\ UNCHANGED <<hw, token, events, deviceVars, agentVars, noteNext, handed>>

-----------------------------------------------------------------------------
(* CodexTmuxRuntime: one pane per server, outliving the listener. *)

(* start_turn up to the respawn: the session is created, with a shell in its
   pane, or its pane must be dead (CodexRuntimeError::Busy). *)
Launch(w) ==
    /\ pc[w] = "launch"
    /\ \/ /\ pane.st \in {"none", "dead"}
          /\ pane' = IF pane.st = "none" THEN [NoPane EXCEPT !.st = "shell"] ELSE pane
          /\ Goto(w, "respawn")
          /\ UNCHANGED <<cmd, want, base, cur, seen>>
       \/ pane' = pane /\ Record(w, "failed")             \* busy, or tmux failed
    /\ UNCHANGED <<storeVars, deviceVars, turns, noteNext, handed, faults>>

(* respawn-pane -k replaces whatever runs in the pane by now; what the pane
   printed so far stays in its scrollback. *)
Respawn(w) ==
    /\ pc[w] = "respawn"
    /\ \/ /\ pane' = [pane EXCEPT !.st = "codex"]
          /\ turns' = Append(turns, cmd[w])
          /\ SetRow(w, "running")
       \/ UNCHANGED <<pane, turns>> /\ Record(w, "failed")
    /\ UNCHANGED <<storeVars, deviceVars, noteNext, handed, faults>>

(* The agent's turn ends, having completed, reported an error, both or neither;
   the shell of a fresh session does not end.  Beyond history-limit what older
   turns printed is gone. *)
TurnEnds ==
    /\ pane.st = "codex"
    /\ \E c, e, kept \in BOOLEAN :
          pane' = [st |-> "dead", completed |-> c \/ (kept /\ pane.completed),
                   error |-> e \/ (kept /\ pane.error)]
    /\ UNCHANGED <<storeVars, taskVars, deviceVars, turns, noteNext, handed, faults>>

(* Mutant: the completion timeout is not looked at. *)
WaitForever(w) ==
    /\ pc[w] = "wait"
    /\ pane.st = "dead" /\ Goto(w, "capture") /\ UNCHANGED <<cmd, want, base, cur, seen>>
    /\ UNCHANGED <<storeVars, deviceVars, agentVars, noteNext, handed, faults>>

(* wait: polls until the pane is dead, or the completion timeout or an error. *)
Wait(w) ==
    /\ pc[w] = "wait"
    /\ \/ pane.st = "dead" /\ Goto(w, "capture") /\ UNCHANGED <<cmd, want, base, cur, seen>>
       \/ Record(w, "failed")
    /\ UNCHANGED <<storeVars, deviceVars, agentVars, noteNext, handed, faults>>

(* capture_result reads pane and scrollback as they are now, of whatever turns,
   and parse_codex_jsonl folds all of it; output too large or not JSON fails. *)
Capture(w) ==
    /\ pc[w] = "capture"
    /\ \/ pane.completed /\ ~pane.error /\ Record(w, "succeeded")
       \/ Record(w, "failed")
    /\ UNCHANGED <<storeVars, deviceVars, agentVars, noteNext, handed, faults>>

-----------------------------------------------------------------------------
(* open_note, append_note, commit_note *)

Tracked == {n \in Notes : noteNext[n] # 0}

(* Mutant: the last sequence number is accepted again. *)
InSequenceAgain(o) == o.seq + 1 >= noteNext[o.note]

InSequence(o) == o.seq >= noteNext[o.note]

TooManyNotes(o) == Cardinality(Tracked) >= MaxTracked /\ noteNext[o.note] = 0

NoteStep(w) ==
    /\ pc[w] = "note"
    /\ LET o == Op[cmd[w]] IN
       \/ /\ o.kind \in {"open", "commit"}
          /\ noteNext' = IF o.kind = "open" THEN noteNext
                         ELSE [noteNext EXCEPT ![o.note] = 0]
          /\ Record(w, "succeeded")
       \/ /\ o.kind = "append" /\ InSequence(o) /\ ~TooManyNotes(o)
          /\ noteNext' = [noteNext EXCEPT ![o.note] = o.seq + 1]
          /\ Record(w, "succeeded")
       \/ noteNext' = noteNext /\ Record(w, "failed")      \* also a bad payload
    /\ UNCHANGED <<storeVars, deviceVars, agentVars, handed, faults>>

-----------------------------------------------------------------------------
(* subscribe: events_after, then the largest prefix that fits one frame.  The
   device resumes from the high-water cursor of the batch it received. *)

ReadHighWater(d) ==
    /\ page[d] = 0
    /\ page' = [page EXCEPT ![d] = hw + 1]
    /\ UNCHANGED <<storeVars, taskVars, resume, delivered, agentVars, noteNext,
                   handed, faults>>

(* The rows above the resume cursor, read after the high water was: the query
   has no upper bound but its bucket, so rows appended since are among them. *)
Replay(d) ==
    {k \in 1..MaxCursor : resume[d] < page[d] - 1 /\ k > resume[d] /\ events[k] # NoEvent}

(* The first n elements of a set of cursors. *)
FirstOf(S, n) == {k \in S : Cardinality({j \in S : j <= k}) <= n}

LastOf(S) == CHOOSE k \in S : \A j \in S : j <= k

(* Mutant: the high water of the allocator is returned with a full page. *)
BatchEndHighWater(d, sent) == page[d] - 1

(* The high-water cursor of a batch that holds the events of sent. *)
BatchEnd(d, sent) == IF sent = Replay(d) THEN page[d] - 1 ELSE LastOf(sent)

Deliver(d) ==
    /\ page[d] # 0
    /\ \E n \in 0..PageLimit :
          /\ n = 0 => Replay(d) = {}                 \* at least one event fits
          /\ LET sent == FirstOf(Replay(d), n) IN
             /\ delivered' = [delivered EXCEPT ![d] = @ \cup sent]
             /\ resume' = [resume EXCEPT ![d] = BatchEnd(d, sent)]
    /\ page' = [page EXCEPT ![d] = 0]
    /\ UNCHANGED <<storeVars, taskVars, agentVars, noteNext, handed, faults>>

-----------------------------------------------------------------------------
(* The listener dies and comes back: tasks and note_sequences are gone, the
   pane lives on, and a new session begins. *)
Crash ==
    /\ Fault
    /\ pc' = [w \in Writers |-> IF w \in Audits THEN "readCursor" ELSE "idle"]
    /\ cmd' = [w \in Writers |-> NoCmd]
    /\ want' = [w \in Writers |-> "heartbeat"]
    /\ base' = [w \in Writers |-> 0]
    /\ cur' = [w \in Writers |-> 0]
    /\ seen' = [w \in Writers |-> "absent"]
    /\ noteNext' = [n \in Notes |-> 0]
    /\ page' = [d \in Devices |-> 0]
    /\ UNCHANGED <<storeVars, resume, delivered, agentVars, handed>>

TaskStep(w) ==
    \/ ReadCursor(w) \/ ApplyCursor(w) \/ CheckCursor(w) \/ AppendEvent(w)
    \/ ReadRow(w) \/ ApplyRow(w) \/ Launch(w) \/ Respawn(w)
    \/ Wait(w) \/ Capture(w) \/ NoteStep(w)

Next ==
    \/ \E w \in Writers : TaskStep(w)
    \/ \E w \in Sessions, c \in Commands : Put(w, c)
    \/ \E d \in Devices : ReadHighWater(d) \/ Deliver(d)
    \/ TurnEnds \/ Crash

Spec == Init /\ [][Next]_vars

(* The runtime polls every task; nothing promises that a turn ends, that a
   frame is repeated, or that a fault happens. *)
LiveSpec == Spec /\ \A w \in Writers : WF_vars(TaskStep(w))

-----------------------------------------------------------------------------
(* "cursor allocation never reuses values" (control_store.rs): whatever
   answers are lost, no cursor is returned to two callers. *)
CursorsUnique == \A k \in 1..MaxCursor : handed[k] <= 1

(* "A duplicate command id returns the stored projection and never executes
   twice" (reply): across repeated frames, sessions, lost answers and
   restarts, the agent of a command is started at most once. *)
NeverExecutesTwice ==
    \A i, j \in 1..Len(turns) : turns[i] = turns[j] => i = j

(* A terminal row names the event that announced it, in the state it has. *)
RowNamesItsEvent ==
    \A c \in Commands :
        Terminal(rows[c]) =>
            /\ rows[c].cursor \in 1..MaxCursor
            /\ events[rows[c].cursor] = [cmd |-> c, kind |-> rows[c].state]

(* The log tells one story per command: a single acceptance and a single
   outcome, in this order; and a controller that follows result_cursor of a
   finished command finds that outcome. *)
LogTellsOneStory ==
    /\ RowNamesItsEvent
    /\ \A j, k \in 1..MaxCursor :
           LET e == events[j]  f == events[k] IN
           (j # k /\ e # NoEvent /\ f # NoEvent /\ e.cmd = f.cmd /\ e.cmd # NoCmd) =>
               /\ "accepted" \in {e.kind, f.kind}
               /\ e.kind # f.kind
               /\ f.kind = "accepted" => k < j

(* While the listener lives and a note is not committed, two appends with the
   same sequence number of the note never both succeed. *)
NoReplayMerged ==
    \A c, d \in Commands :
        (/\ c # d /\ Op[c] = Op[d] /\ Op[c].kind = "append" /\ faults = 0
         /\ \A b \in Commands : Op[b].kind = "commit" => rows[b] = NoRow)
        => ~(rows[c].state = "succeeded" /\ rows[d].state = "succeeded")

(* A batch never passes over an event that was in the log when it was read,
   however the page limit and the frame limit cut it (encode_event_batch: "the
   next subscription receives every omitted event"). *)
BatchOmitsNothing ==
    [][\A d \in Devices : \A k \in 1..MaxCursor :
          (resume[d] < k /\ k <= resume'[d] /\ events[k] # NoEvent)
              => k \in delivered'[d]]_vars

(* Every task of the listener returns: no hung agent, lost race for a cursor,
   refused event or duplicate frame keeps a session or a waiter for ever.  (The
   command may be left queued or running by a task that returns an error.) *)
TasksReturn == \A w \in Writers : (pc[w] # "idle") ~> (pc[w] = "idle")

(* "a page whose high-water cursor never advances past an undelivered bounded
   event" (control_application_reply). *)
NothingSkipped ==
    \A d \in Devices : \A k \in 1..MaxCursor :
        (k <= resume[d] /\ events[k] # NoEvent) => k \in delivered[d]

(* A command as its controller can see it: its row, the turns of its agent and
   its events. *)
CommandOf(c) ==
    [state  |-> rows[c].state,
     result |-> rows[c].cursor,
     runs   |-> {i \in 1..Len(turns) : turns[i] = c},
     log    |-> {[at |-> k, kind |-> events[k].kind] :
                    k \in {j \in 1..MaxCursor : events[j] # NoEvent /\ events[j].cmd = c}}]

Command == INSTANCE RemoteCommand WITH
               command <- [c \in Commands |-> CommandOf(c)],
               Agents  <- {c \in Commands : Agent(c)}

(* What a controller is promised of each command (RemoteCommand), across all
   sessions, waiters, lost answers and restarts: acceptance, start, running and
   one outcome in this order, success only of what ran, and a row that settles
   once on the outcome that was told. *)
ImplementsRemoteCommand == Command!Spec

=============================================================================
