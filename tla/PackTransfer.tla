---------------------------- MODULE PackTransfer ----------------------------
(***************************************************************************)
(* One sealed pack per session, streamed from a teacher to a learner over a *)
(* data channel and applied into the learner's landing directory            *)
(* (ferrosa-memory-sync: peer_session.rs, peer_transport*.rs,               *)
(* learner_ingest.rs, peer_cli.rs and the p2p commands of main.rs).         *)
(*                                                                          *)
(* Three activities run per session: the teacher driver, the learner        *)
(* driver, and the learner's on_message handler, which reassembles chunks   *)
(* and applies the pack while the driver polls its health.  Sessions share  *)
(* the landing directory and nothing else.  A side that has returned, or    *)
(* whose process died, is gone for good: a session is accepted once and is  *)
(* never resumed; the pack comes again in another session, of the same or   *)
(* of another version.                                                      *)
(***************************************************************************)
EXTENDS Naturals, Sequences, FiniteSets

CONSTANTS
  Sessions,       \* broker sessions, one transfer each
  Packs,          \* pack ids
  PackOf,         \* the pack a session was offered for
  MaxVersion,     \* bound: pack versions are 1..MaxVersion
  Sizes,          \* bound: numbers of wire chunks a session's sealed pack may have
  MaxChunks,      \* SendLimits.max_chunks: the teacher sends no longer pack
  Limit,          \* chunks that fit in the learner's max_pack_bytes
  EmbeddingDims,  \* the embedding_dim of a manifest: 0 from the command line
  MaxFaults       \* bound: failed calls, failed bindings, early timeouts, deaths

ASSUME SessionAssumption ==
  PackOf \in [Sessions -> Packs] /\ Sizes \in [Sessions -> SUBSET (Nat \ {0})]
ASSUME BoundAssumption ==
  /\ MaxVersion \in Nat \ {0}
  /\ MaxChunks \in Nat /\ Limit \in Nat /\ MaxFaults \in Nat
  /\ EmbeddingDims \subseteq Nat /\ EmbeddingDims # {}

VARIABLES
  tpc, lpc,       \* where each driver is
  sig,            \* last SDP signal at the broker: "none", "offer", "answer"
  up, down,       \* frames to the teacher, frames to the learner, in order
  inbox,          \* control frames the learner's router has queued
  bound,          \* the sides that verified their peer's hello
  sent,           \* chunks the teacher has sent
  armed,          \* the learner's router holds a PackReceiver
  got,            \* chunk indices in the assembler
  step,           \* where the apply of the assembled pack is
  seen,           \* versions.json as flip read it
  health,         \* "none", "applied" or "failed"
  staged,         \* staged-<pack>.json: the version staged in it, 0 if absent
  file,           \* applied-<pack>-v<n>.json: the version inside, 0 if absent
  ledger,         \* versions.json: last applied version per pack, 0 if none
  ver, size,      \* version and number of chunks of the session's pack
  faults,         \* faults so far
  upset,          \* a side died or timed out with its peer still active
  crossed         \* an apply began while another was under way

drivers == <<tpc, lpc, sig, bound, sent>>
wire == <<up, down, inbox>>
receiver == <<armed, got, step, seen, health>>
disk == <<staged, file, ledger>>
given == <<ver, size>>
world == <<faults, upset, crossed>>
vars == <<drivers, wire, receiver, disk, given, world>>

Versions == 1..MaxVersion
Ended == {"ok", "err"}
Applying == {"check", "stage", "rename", "read", "write"}
TeacherWaits == {"waitHello", "waitReady", "waitApplied", "waitComplete"}
\* The channel is open at the teacher's end.
TeacherBound == TeacherWaits \union {"seal", "send"}
TeacherPC == TeacherBound \union Ended \union {"waitAccept", "waitAnswer"}
LearnerPC == Ended \union {"accept", "waitOffer", "open", "waitHello", "arm",
                           "ready", "poll", "waitAck", "waitClosed"}
UpFrames == {"Hello", "Ready", "Applied", "Complete", "Failed"}
DownControl == {"Hello", "AppliedAck"}
DownFrames == [kind : DownControl \union {"chunk"}, index : Nat]
Control(k) == [kind |-> k, index |-> 0]
Chunk(i) == [kind |-> "chunk", index |-> i]

TypeOK ==
  /\ tpc \in [Sessions -> TeacherPC] /\ lpc \in [Sessions -> LearnerPC]
  /\ sig \in [Sessions -> {"none", "offer", "answer"}]
  /\ up \in [Sessions -> Seq(UpFrames)]
  /\ down \in [Sessions -> Seq(DownFrames)]
  /\ inbox \in [Sessions -> Seq(DownControl)]
  /\ bound \in [Sessions -> SUBSET {"teacher", "learner"}]
  /\ sent \in [Sessions -> Nat]
  /\ armed \in [Sessions -> BOOLEAN]
  /\ got \in [Sessions -> SUBSET Nat]
  /\ step \in [Sessions -> Applying \union {"idle"}]
  /\ seen \in [Sessions -> [Packs -> 0..MaxVersion]]
  /\ health \in [Sessions -> {"none", "applied", "failed"}]
  /\ staged \in [Packs -> 0..MaxVersion]
  /\ file \in [Packs -> [Versions -> 0..MaxVersion]]
  /\ ledger \in [Packs -> 0..MaxVersion]
  /\ ver \in [Sessions -> Versions] /\ size \in [Sessions -> Nat \ {0}]
  /\ faults \in Nat /\ upset \in BOOLEAN /\ crossed \in BOOLEAN

\* Every session has been offered; the landing directory is empty.
Init ==
  /\ tpc = [s \in Sessions |-> "waitAccept"]
  /\ lpc = [s \in Sessions |-> "accept"]
  /\ sig = [s \in Sessions |-> "none"]
  /\ up = [s \in Sessions |-> <<>>]
  /\ down = [s \in Sessions |-> <<>>]
  /\ inbox = [s \in Sessions |-> <<>>]
  /\ bound = [s \in Sessions |-> {}]
  /\ sent = [s \in Sessions |-> 0]
  /\ armed = [s \in Sessions |-> FALSE]
  /\ got = [s \in Sessions |-> {}]
  /\ step = [s \in Sessions |-> "idle"]
  /\ seen = [s \in Sessions |-> [p \in Packs |-> 0]]
  /\ health = [s \in Sessions |-> "none"]
  /\ staged = [p \in Packs |-> 0]
  /\ file = [p \in Packs |-> [v \in Versions |-> 0]]
  /\ ledger = [p \in Packs |-> 0]
  /\ ver \in [Sessions -> Versions]
  /\ size \in [Sessions -> UNION {Sizes[s] : s \in Sessions}]
  /\ \A s \in Sessions : size[s] \in Sizes[s]
  /\ faults = 0 /\ upset = FALSE /\ crossed = FALSE

(***************************************************************************)
(* The channel.  It is ordered and reliable while both ends live.  An end   *)
(* that closes or dies takes with it any suffix of the frames it had sent   *)
(* and the peer has not got yet.  A send to an end that is gone is either   *)
(* accepted and lost, or fails.                                             *)
(***************************************************************************)
SomePrefix(q) == {SubSeq(q, 1, n) : n \in 0..Len(q)}

StopTeacher(s, result) ==
  /\ tpc' = [tpc EXCEPT ![s] = result]
  /\ \E q \in SomePrefix(down[s]) : down' = [down EXCEPT ![s] = q]

\* The learner's handler task ends with its process.
StopLearner(s, result, out) ==
  /\ lpc' = [lpc EXCEPT ![s] = result]
  /\ step' = [step EXCEPT ![s] = "idle"]
  /\ \E q \in SomePrefix(out) : up' = [up EXCEPT ![s] = q]

SendDown(s, frame, next) ==
  \/ /\ tpc' = [tpc EXCEPT ![s] = next]
     /\ down' = [down EXCEPT ![s] = IF lpc[s] \in Ended THEN @ ELSE Append(@, frame)]
  \/ /\ lpc[s] \in Ended
     /\ StopTeacher(s, "err")

SendUp(s, frame, next) ==
  \/ /\ lpc' = [lpc EXCEPT ![s] = next]
     /\ up' = [up EXCEPT ![s] = IF tpc[s] \in Ended THEN @ ELSE Append(@, frame)]
     /\ UNCHANGED step
  \/ /\ tpc[s] \in Ended
     /\ StopLearner(s, "err", up[s])

Fault == faults < MaxFaults /\ faults' = faults + 1

(***************************************************************************)
(* The teacher driver: run_teacher_session.                                 *)
(***************************************************************************)
\* The session view says accepted; connect as offerer and post the SDP offer.
TeacherOffer(s) ==
  /\ tpc[s] = "waitAccept" /\ lpc[s] # "accept"
  /\ tpc' = [tpc EXCEPT ![s] = "waitAnswer"]
  /\ sig' = [sig EXCEPT ![s] = "offer"]
  /\ UNCHANGED <<lpc, bound, sent, wire, receiver, disk, given, world>>

\* accept_timeout passes without an acceptance.
TeacherGiveUp(s) ==
  /\ tpc[s] = "waitAccept" /\ lpc[s] = "accept"
  /\ StopTeacher(s, "err")
  /\ UNCHANGED <<lpc, sig, bound, sent, up, inbox, receiver, disk, given, world>>

\* The answer is in and the channel opens: say hello.
TeacherOpen(s) ==
  /\ tpc[s] = "waitAnswer" /\ sig[s] = "answer" /\ lpc[s] = "open"
  /\ tpc' = [tpc EXCEPT ![s] = "waitHello"]
  /\ down' = [down EXCEPT ![s] = Append(@, Control("Hello"))]
  /\ UNCHANGED <<lpc, sig, bound, sent, up, inbox, receiver, disk, given, world>>

\* The frame each of the teacher's waiting loops is waiting for.
Awaited == [waitHello |-> "Hello", waitReady |-> "Ready",
            waitApplied |-> "Applied", waitComplete |-> "Complete"]

\* A loop's other arms: Failed ends the session, any other frame is skipped.
TeacherOtherFrame(s) ==
  /\ tpc[s] \in TeacherWaits /\ up[s] # <<>> /\ Head(up[s]) # Awaited[tpc[s]]
  /\ up' = [up EXCEPT ![s] = Tail(@)]
  /\ IF Head(up[s]) = "Failed" THEN StopTeacher(s, "err") ELSE UNCHANGED <<tpc, down>>
  /\ UNCHANGED <<lpc, sig, bound, sent, inbox, receiver, disk, given, world>>

TeacherGets(s, frame) ==
  /\ tpc[s] \in TeacherWaits /\ Awaited[tpc[s]] = frame
  /\ up[s] # <<>> /\ Head(up[s]) = frame
  /\ up' = [up EXCEPT ![s] = Tail(@)]

\* Mutant: a hello that fails verification is logged and the session goes on.
TeacherHelloLogged(s) ==
  /\ TeacherGets(s, "Hello")
  /\ tpc' = [tpc EXCEPT ![s] = "waitReady"]
  /\ \/ bound' = [bound EXCEPT ![s] = @ \union {"teacher"}] /\ UNCHANGED faults
     \/ Fault /\ UNCHANGED bound
  /\ UNCHANGED <<lpc, sig, sent, down, inbox, receiver, disk, given, upset, crossed>>

\* verify_peer_hello: a failure returns without a word to the learner.
TeacherHello(s) ==
  /\ TeacherGets(s, "Hello")
  /\ \/ /\ tpc' = [tpc EXCEPT ![s] = "waitReady"]
        /\ bound' = [bound EXCEPT ![s] = @ \union {"teacher"}]
        /\ UNCHANGED <<down, faults>>
     \/ /\ Fault /\ StopTeacher(s, "err")
        /\ UNCHANGED bound
  /\ UNCHANGED <<lpc, sig, sent, inbox, receiver, disk, given, upset, crossed>>

TeacherReady(s) ==
  /\ TeacherGets(s, "Ready")
  /\ tpc' = [tpc EXCEPT ![s] = "seal"]
  /\ UNCHANGED <<lpc, sig, bound, sent, down, inbox, receiver, disk, given, world>>

\* build_and_seal: validate refuses an embedding_dim of 0, and the teacher
\* returns without a word to the learner.
TeacherSeal(s) ==
  /\ tpc[s] = "seal"
  /\ \E dim \in EmbeddingDims :
        IF dim = 0
        THEN StopTeacher(s, "err")
        ELSE tpc' = [tpc EXCEPT ![s] = "send"] /\ UNCHANGED down
  /\ UNCHANGED <<lpc, sig, bound, sent, up, inbox, receiver, disk, given, world>>

\* send_chunk: refuse a pack of too many chunks; after the last chunk
\* send_pack returns.
TeacherSend(s) ==
  /\ tpc[s] = "send"
  /\ IF size[s] > MaxChunks
     THEN StopTeacher(s, "err")
     ELSE SendDown(s, Chunk(sent[s]),
                   IF sent[s] + 1 = size[s] THEN "waitApplied" ELSE "send")
  /\ sent' = [sent EXCEPT ![s] = IF tpc'[s] = "err" THEN @ ELSE @ + 1]
  /\ UNCHANGED <<lpc, sig, bound, up, inbox, receiver, disk, given, world>>

TeacherApplied(s) ==
  /\ TeacherGets(s, "Applied")
  /\ SendDown(s, Control("AppliedAck"), "waitComplete")
  /\ UNCHANGED <<lpc, sig, bound, sent, inbox, receiver, disk, given, world>>

TeacherComplete(s) ==
  /\ TeacherGets(s, "Complete")
  /\ StopTeacher(s, "ok")
  /\ UNCHANGED <<lpc, sig, bound, sent, inbox, receiver, disk, given, world>>

(***************************************************************************)
(* The learner driver: run_learner_session.                                 *)
(***************************************************************************)
LearnerAccept(s) ==
  /\ lpc[s] = "accept"
  /\ lpc' = [lpc EXCEPT ![s] = "waitOffer"]
  /\ UNCHANGED <<tpc, sig, bound, sent, wire, receiver, disk, given, world>>

LearnerAnswer(s) ==
  /\ lpc[s] = "waitOffer" /\ sig[s] = "offer"
  /\ lpc' = [lpc EXCEPT ![s] = "open"]
  /\ sig' = [sig EXCEPT ![s] = "answer"]
  /\ UNCHANGED <<tpc, bound, sent, wire, receiver, disk, given, world>>

\* The channel opens at this end: say hello.
LearnerOpen(s) ==
  /\ lpc[s] = "open" /\ tpc[s] \in TeacherBound
  /\ lpc' = [lpc EXCEPT ![s] = "waitHello"]
  /\ up' = [up EXCEPT ![s] = Append(@, "Hello")]
  /\ UNCHANGED <<tpc, sig, bound, sent, down, inbox, receiver, disk, given, world>>

\* verify_peer_hello: on failure tell the teacher and close.  A teacher sends
\* no control frame but Hello and AppliedAck, each once, so the arms for other
\* frames of this loop and of LearnerAck's are never taken.
LearnerHello(s) ==
  /\ lpc[s] = "waitHello" /\ inbox[s] # <<>>
  /\ Head(inbox[s]) = "Hello"
  /\ inbox' = [inbox EXCEPT ![s] = Tail(@)]
  /\ \/ /\ lpc' = [lpc EXCEPT ![s] = "arm"]
        /\ bound' = [bound EXCEPT ![s] = @ \union {"learner"}]
        /\ UNCHANGED <<up, step, faults>>
     \/ /\ Fault
        /\ StopLearner(s, "err", Append(up[s], "Failed"))
        /\ UNCHANGED bound
  /\ UNCHANGED <<tpc, sig, sent, down, armed, got, seen, health, disk, given,
                 upset, crossed>>

LearnerArm(s) ==
  /\ lpc[s] = "arm"
  /\ armed' = [armed EXCEPT ![s] = TRUE]
  /\ lpc' = [lpc EXCEPT ![s] = "ready"]
  /\ UNCHANGED <<tpc, sig, bound, sent, wire, got, step, seen, health, disk, given, world>>

LearnerReady(s) ==
  /\ lpc[s] = "ready"
  /\ SendUp(s, "Ready", "poll")
  /\ UNCHANGED <<tpc, sig, bound, sent, down, inbox, armed, got, seen, health,
                 disk, given, world>>

\* The poll of receiver.health().
LearnerPoll(s) ==
  /\ lpc[s] = "poll"
  /\ \/ health[s] = "applied" /\ SendUp(s, "Applied", "waitAck")
     \/ health[s] = "failed" /\ StopLearner(s, "err", Append(up[s], "Failed"))
  /\ UNCHANGED <<tpc, sig, bound, sent, down, inbox, armed, got, seen, health,
                 disk, given, world>>

\* Mutant: the learner closes as soon as it has sent Complete.
LearnerAckCloses(s) ==
  /\ lpc[s] = "waitAck" /\ inbox[s] # <<>> /\ Head(inbox[s]) = "AppliedAck"
  /\ inbox' = [inbox EXCEPT ![s] = Tail(@)]
  /\ StopLearner(s, "ok", Append(up[s], "Complete"))
  /\ UNCHANGED <<tpc, sig, bound, sent, down, armed, got, seen, health, disk,
                 given, world>>

LearnerAck(s) ==
  /\ lpc[s] = "waitAck" /\ inbox[s] # <<>> /\ Head(inbox[s]) = "AppliedAck"
  /\ inbox' = [inbox EXCEPT ![s] = Tail(@)]
  /\ SendUp(s, "Complete", "waitClosed")
  /\ UNCHANGED <<tpc, sig, bound, sent, down, armed, got, seen, health, disk,
                 given, world>>

\* wait_channel_closed saw the teacher's end go.
LearnerClosed(s) ==
  /\ lpc[s] = "waitClosed" /\ tpc[s] \in Ended
  /\ StopLearner(s, "ok", up[s])
  /\ UNCHANGED <<tpc, sig, bound, sent, down, inbox, armed, got, seen, health,
                 disk, given, world>>

(***************************************************************************)
(* The learner's on_message handler: InboundRouter, PackReceiver,           *)
(* ingest_pack and DirPackApplyStore.  It is called for one message at a    *)
(* time, so frames wait while a pack is being applied.                      *)
(***************************************************************************)
Listening(s) == lpc[s] \notin Ended \union {"accept", "waitOffer"}

\* The assembler rejects a chunk it has and one that would exceed its byte
\* bound, without a word to the peer.
Accepts(s, f) ==
  /\ f.kind = "chunk" /\ armed[s]
  /\ f.index \notin got[s] /\ Cardinality(got[s]) < Limit

\* Every declared chunk is in.
Completes(s, f) == Accepts(s, f) /\ got[s] \union {f.index} = 0..(size[s] - 1)

\* A control frame goes to the inbox; a chunk goes to the assembler if the
\* receiver is armed and is dropped if not.  The last one empties the assembler
\* and starts the apply.
Receive(s) ==
  /\ Listening(s) /\ step[s] = "idle" /\ down[s] # <<>>
  /\ down' = [down EXCEPT ![s] = Tail(@)]
  /\ LET f == Head(down[s])
     IN /\ inbox' = IF f.kind = "chunk" THEN inbox
                    ELSE [inbox EXCEPT ![s] = Append(@, f.kind)]
        /\ got' = IF Accepts(s, f)
                  THEN [got EXCEPT ![s] = IF Completes(s, f) THEN {} ELSE @ \union {f.index}]
                  ELSE got
        /\ step' = IF Completes(s, f) THEN [step EXCEPT ![s] = "check"] ELSE step
        /\ crossed' = (crossed \/ (Completes(s, f) /\
                                   \E t \in Sessions \ {s} : step[t] # "idle"))
  /\ UNCHANGED <<drivers, up, armed, seen, health, disk, given, faults, upset>>

Finish(s, outcome) ==
  /\ step' = [step EXCEPT ![s] = "idle"]
  /\ health' = [health EXCEPT ![s] = outcome]

\* Mutants: an older version counts as applied; an older version is applied.
VerdictLenient(v, last) == IF v <= last THEN "noop" ELSE "newer"
VerdictUnordered(v, last) == IF v = last THEN "noop" ELSE "newer"

\* The same version is a no-op, an older one is a replay.
Verdict(v, last) == IF v = last THEN "noop" ELSE IF v < last THEN "replay" ELSE "newer"

\* last_applied_version and the replay check.
ApplyCheck(s) ==
  /\ step[s] = "check"
  /\ LET verdict == Verdict(ver[s], ledger[PackOf[s]])
     IN \/ verdict = "noop" /\ Finish(s, "applied")
        \/ verdict = "replay" /\ Finish(s, "failed")
        \/ verdict = "newer" /\ step' = [step EXCEPT ![s] = "stage"] /\ UNCHANGED health
  /\ UNCHANGED <<drivers, wire, armed, got, seen, disk, given, world>>

ApplyStage(s) ==
  /\ step[s] = "stage"
  /\ staged' = [staged EXCEPT ![PackOf[s]] = ver[s]]
  /\ step' = [step EXCEPT ![s] = "rename"]
  /\ UNCHANGED <<drivers, wire, armed, got, seen, health, file, ledger, given, world>>

\* flip: rename the staged file, which fails if it is no longer there.
ApplyRename(s) ==
  /\ step[s] = "rename"
  /\ LET p == PackOf[s]
     IN \/ /\ staged[p] # 0
           /\ file' = [file EXCEPT ![p][ver[s]] = staged[p]]
           /\ staged' = [staged EXCEPT ![p] = 0]
           /\ step' = [step EXCEPT ![s] = "read"]
           /\ UNCHANGED health
        \/ staged[p] = 0 /\ Finish(s, "failed") /\ UNCHANGED <<file, staged>>
  /\ UNCHANGED <<drivers, wire, armed, got, seen, ledger, given, world>>

\* flip: read_versions ...
ApplyRead(s) ==
  /\ step[s] = "read"
  /\ seen' = [seen EXCEPT ![s] = ledger]
  /\ step' = [step EXCEPT ![s] = "write"]
  /\ UNCHANGED <<drivers, wire, armed, got, health, disk, given, world>>

Recorded(s) == [seen[s] EXCEPT ![PackOf[s]] = ver[s]]

\* ... insert, and write_versions of the whole file.
ApplyWrite(s) ==
  /\ step[s] = "write"
  /\ ledger' = Recorded(s)
  /\ Finish(s, "applied")
  /\ UNCHANGED <<drivers, wire, armed, got, seen, staged, file, given, world>>

\* A file operation of the apply fails.
ApplyFails(s) ==
  /\ step[s] \in Applying /\ Fault
  /\ Finish(s, "failed")
  /\ UNCHANGED <<drivers, wire, armed, got, seen, disk, given, upset, crossed>>

(***************************************************************************)
(* Timeouts and deaths.  A deadline passes for certain when neither side    *)
(* has anything to act on.  A deadline that passes earlier, the death of a  *)
(* process, a failed broker call, a refused session view and a pair that    *)
(* cannot connect all end one side with an error, and count as faults.      *)
(***************************************************************************)
TeacherCanStep(s) ==
  \/ tpc[s] \in {"waitAccept", "seal", "send"}
  \/ tpc[s] = "waitAnswer" /\ sig[s] = "answer" /\ lpc[s] = "open"
  \/ tpc[s] \in TeacherWaits /\ up[s] # <<>>
LearnerCanStep(s) ==
  \/ lpc[s] \in {"arm", "ready"}
  \/ lpc[s] = "waitOffer" /\ sig[s] = "offer"
  \/ lpc[s] = "open" /\ tpc[s] \in TeacherBound
  \/ lpc[s] \in {"waitHello", "waitAck"} /\ inbox[s] # <<>>
  \/ lpc[s] = "poll" /\ health[s] # "none"
  \/ lpc[s] = "waitClosed" /\ tpc[s] \in Ended
  \/ Listening(s) /\ (down[s] # <<>> \/ step[s] # "idle")
Stalled(s) == ~TeacherCanStep(s) /\ ~LearnerCanStep(s)

\* Mutant: the wait for Ready has no deadline.
TeacherTimeoutUnready(s) ==
  /\ Stalled(s) /\ tpc[s] \notin Ended \union {"waitReady"}
  /\ StopTeacher(s, "err")
  /\ UNCHANGED <<lpc, sig, bound, sent, up, inbox, receiver, disk, given, world>>

TeacherTimeout(s) ==
  /\ Stalled(s) /\ tpc[s] \notin Ended
  /\ StopTeacher(s, "err")
  /\ UNCHANGED <<lpc, sig, bound, sent, up, inbox, receiver, disk, given, world>>

LearnerTimeout(s) ==
  /\ Stalled(s) /\ lpc[s] \notin Ended \union {"accept"}
  /\ StopLearner(s, "err", up[s])
  /\ UNCHANGED <<tpc, sig, bound, sent, down, inbox, armed, got, seen, health,
                 disk, given, world>>

TeacherDies(s) ==
  /\ ~Stalled(s) /\ tpc[s] \notin Ended /\ Fault
  /\ StopTeacher(s, "err") /\ upset' = TRUE
  /\ UNCHANGED <<lpc, sig, bound, sent, up, inbox, receiver, disk, given, crossed>>

LearnerDies(s) ==
  /\ ~Stalled(s) /\ lpc[s] \notin Ended \union {"accept"} /\ Fault
  /\ StopLearner(s, "err", up[s]) /\ upset' = TRUE
  /\ UNCHANGED <<tpc, sig, bound, sent, down, inbox, armed, got, seen, health,
                 disk, given, crossed>>

TeacherStep(s) ==
  \/ TeacherOffer(s) \/ TeacherGiveUp(s) \/ TeacherOpen(s) \/ TeacherOtherFrame(s)
  \/ TeacherHello(s) \/ TeacherReady(s) \/ TeacherSeal(s) \/ TeacherSend(s)
  \/ TeacherApplied(s) \/ TeacherComplete(s) \/ TeacherTimeout(s)
LearnerStep(s) ==
  \/ LearnerAnswer(s) \/ LearnerOpen(s) \/ LearnerHello(s) \/ LearnerArm(s)
  \/ LearnerReady(s) \/ LearnerPoll(s) \/ LearnerAck(s) \/ LearnerClosed(s)
  \/ LearnerTimeout(s)
HandlerStep(s) ==
  \/ Receive(s) \/ ApplyCheck(s) \/ ApplyStage(s) \/ ApplyRename(s)
  \/ ApplyRead(s) \/ ApplyWrite(s)
Faulty(s) == ApplyFails(s) \/ TeacherDies(s) \/ LearnerDies(s)

\* What the programs do by themselves.
Step(s) == TeacherStep(s) \/ LearnerStep(s) \/ HandlerStep(s)

Next == \E s \in Sessions : Step(s) \/ LearnerAccept(s) \/ Faulty(s)

\* tokio polls the drivers and the message handler, and deadlines pass; a
\* learner need not ever accept, and no fault need happen.
Fairness == \A s \in Sessions : WF_vars(Step(s))

Spec == Init /\ [][Next]_vars
FairSpec == Spec /\ Fairness

(***************************************************************************)
(* What a transfer promises.                                                *)
(***************************************************************************)
\* The applied file of the session's pack and version exists.
Landed(s) == file[PackOf[s]][ver[s]] # 0

\* "pack ... delivered and applied" is true when the teacher prints it: the
\* learner's directory holds the applied file, whatever else was received
\* there, and unless two applies overlapped the file holds that very version
\* (run_teacher_session's Ok, DirPackApplyStore::flip).
ReceiptTrue ==
  \A s \in Sessions : tpc[s] = "ok" =>
    Landed(s) /\ (~crossed => file[PackOf[s]][ver[s]] = ver[s])

\* No chunk is in flight unless each side has verified the other's hello and
\* the receiver is armed: zero pack bytes flow on an unbound channel, and none
\* is dropped at the router (run_teacher_session steps 3 to 5,
\* run_learner_session steps 3 and 4).
BindFirst ==
  \A s \in Sessions : \A i \in 1..Len(down[s]) :
    down[s][i].kind = "chunk" => armed[s] /\ bound[s] = {"teacher", "learner"}

\* When neither side died or timed out early, both return the same outcome:
\* the learner keeps the channel open after Complete until the teacher closes
\* (wait_channel_closed), so no side succeeds alone.
OutcomesAgree ==
  \A s \in Sessions :
    ~upset /\ tpc[s] \in Ended /\ lpc[s] \in Ended => tpc[s] = lpc[s]

\* A version the directory has recorded never goes back: receiving an older
\* version, in whatever order sessions end and with a death between any two
\* file operations, does not lower versions.json, unless two applies
\* overlapped (ingest_pack's replay check, flip's read and write).
LedgerMonotone ==
  [][~crossed' => \A p \in Packs : ledger'[p] >= ledger[p]]_vars

\* Both drivers of an accepted session return, even when the peer is gone, the
\* binding failed, the seal failed or the learner's assembler refused the pack
\* ("never a hang", peer_session.rs).
SessionEnds ==
  \A s \in Sessions : lpc[s] # "accept" ~> tpc[s] \in Ended /\ lpc[s] \in Ended

=============================================================================
