---------------------------- MODULE RemoteCommand ----------------------------
(* What the control plane promises the controller that sends a command, without
   sessions, cursors to reserve, a pane or statements: the command is stored
   once; an agent is announced, then started once, then called running; one
   outcome is told, above all that was told before, and success only of what
   ran; and the row settles, once, on the outcome that was told. *)
EXTENDS Naturals

CONSTANTS
    Commands,
    Agents      \* the commands that start an agent

VARIABLE command    \* state of the row, its result, the agent's runs, the log

Fresh == [state |-> "absent", result |-> 0, runs |-> {}, log |-> {}]

Init == command = [c \in Commands |-> Fresh]

Open(c) == command[c].state \in {"queued", "running"}

(* What the log says of command c. *)
Kinds(c) == {e.kind : e \in command[c].log}

Outcomes == {"succeeded", "failed"}

(* Only command c moves. *)
Only(c) == command' = [command EXCEPT ![c] = command'[c]]

(* The first frame with the command. *)
Store(c) ==
    /\ command[c] = Fresh
    /\ command'[c] = [Fresh EXCEPT !.state = "queued"]
    /\ Only(c)

Announce(c) ==
    /\ c \in Agents /\ command[c].state = "queued"
    /\ command[c].log = {} /\ command[c].runs = {}
    /\ \E e \in command'[c].log :
          /\ e.kind = "accepted"
          /\ command'[c] = [command[c] EXCEPT !.log = {e}]
    /\ Only(c)

Start(c) ==
    /\ c \in Agents /\ command[c].state = "queued"
    /\ Kinds(c) = {"accepted"} /\ command[c].runs = {}
    /\ \E n \in command'[c].runs : command'[c] = [command[c] EXCEPT !.runs = {n}]
    /\ Only(c)

Run(c) ==
    /\ command[c].state = "queued" /\ Kinds(c) \cap Outcomes = {}
    /\ c \in Agents => command[c].runs # {}
    /\ command'[c] = [command[c] EXCEPT !.state = "running"]
    /\ Only(c)

Report(c) ==
    /\ Open(c) /\ Kinds(c) \cap Outcomes = {}
    /\ c \in Agents => "accepted" \in Kinds(c)
    /\ \E e \in command'[c].log :
          /\ e.kind \in (IF command[c].state = "running" THEN Outcomes ELSE {"failed"})
          /\ \A f \in command[c].log : f.at < e.at
          /\ command'[c] = [command[c] EXCEPT !.log = @ \cup {e}]
    /\ Only(c)

Settle(c) ==
    /\ Open(c)
    /\ \E e \in command[c].log :
          /\ e.kind \in Outcomes
          /\ command'[c] = [command[c] EXCEPT !.state = e.kind, !.result = e.at]
    /\ Only(c)

Next ==
    \E c \in Commands :
        Store(c) \/ Announce(c) \/ Start(c) \/ Run(c) \/ Report(c) \/ Settle(c)

Spec == Init /\ [][Next]_command
=============================================================================
