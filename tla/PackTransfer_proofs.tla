------------------------- MODULE PackTransfer_proofs -------------------------
(***************************************************************************)
(* What a pack transfer guarantees, for every number of sessions, packs,    *)
(* versions and chunks and any number of faults: a teacher's success means  *)
(* the learner's directory holds the pack, no pack byte precedes the        *)
(* binding of the channel, no side succeeds alone unless one died or timed  *)
(* out early, and versions.json never goes back unless two applies          *)
(* overlapped.                                                              *)
(*                                                                          *)
(* None is inductive.  The receipt reaches the teacher through a chain      *)
(* (the rename, the health flag, the Applied and Complete frames) and each  *)
(* link of it has to presuppose the applied file; the path on which the     *)
(* same version is acknowledged without a write needs the ledger, and the   *)
(* copy of it a flip holds, to name existing files.  The order of the       *)
(* binding needs what each program point of both drivers and each frame in  *)
(* flight knows of the two hello checks.  The equal outcomes need where the *)
(* last three frames of the dialogue are, and the ledger needs that a flip  *)
(* that found a newer version is alone until it has written it.             *)
(***************************************************************************)
EXTENDS PackTransfer, SequenceTheorems, TLAPS

(* The frames in flight in a queue.                                        *)
Frames(q) == {q[i] : i \in 1..Len(q)}

(* A channel cut short holds some of its frames.                           *)
LEMMA PrefixFrames ==
  ASSUME NEW S, NEW q \in Seq(S), NEW r \in SomePrefix(q)
  PROVE  r \in Seq(S) /\ Frames(r) \subseteq Frames(q)
  <1>1. PICK n \in 0..Len(q) : r = SubSeq(q, 1, n)
    BY DEF SomePrefix
  <1>2. \A i \in 1..n : q[i] \in S
    BY <1>1, ElementOfSeq
  <1>3. /\ r \in Seq(S) /\ Len(r) = n
        /\ \A i \in 1..n : r[i] = q[i]
    BY <1>1, <1>2, SubSeqProperties
  <1>4. 1..n \subseteq 1..Len(q)
    BY <1>1
  <1> QED
    BY <1>3, <1>4 DEF Frames

(* A send adds its frame.                                                 *)
LEMMA AppendFrames ==
  ASSUME NEW S, NEW q \in Seq(S), NEW e \in S
  PROVE  Append(q, e) \in Seq(S) /\ Frames(Append(q, e)) = Frames(q) \union {e}
  <1>1. /\ Append(q, e) \in Seq(S) /\ Len(Append(q, e)) = Len(q) + 1
        /\ \A i \in 1..Len(q) : Append(q, e)[i] = q[i]
        /\ Append(q, e)[Len(q) + 1] = e
    OBVIOUS
  <1>2. 1..(Len(q) + 1) = (1..Len(q)) \union {Len(q) + 1}
    OBVIOUS
  <1> QED
    BY <1>1, <1>2 DEF Frames

(* A receive takes a frame that was there and leaves some of the others.   *)
LEMMA TailFrames ==
  ASSUME NEW S, NEW q \in Seq(S), q # <<>>
  PROVE  /\ Tail(q) \in Seq(S) /\ Head(q) \in S
         /\ Frames(Tail(q)) \subseteq Frames(q) /\ Head(q) \in Frames(q)
  <1>1. /\ Head(q) \in S /\ Tail(q) \in Seq(S) /\ Len(Tail(q)) = Len(q) - 1
        /\ \A i \in 1..Len(Tail(q)) : Tail(q)[i] = q[i + 1]
    BY HeadTailProperties
  <1>2. Len(q) \in Nat \ {0} /\ Head(q) = q[1]
    BY EmptySeq
  <1>3. \A i \in 1..Len(Tail(q)) : i + 1 \in 1..Len(q)
    BY <1>1, <1>2
  <1> QED
    BY <1>1, <1>2, <1>3 DEF Frames

-----------------------------------------------------------------------------
(* What the invariant says.                                                *)

(* Whatever makes a teacher report success presupposes the applied file.   *)
Evidence(s) ==
  \/ step[s] \in {"read", "write"} \/ health[s] = "applied"
  \/ lpc[s] \in {"waitAck", "waitClosed"}
  \/ "Applied" \in Frames(up[s]) \/ "Complete" \in Frames(up[s])
  \/ tpc[s] = "ok"

LandedInv ==
  /\ \A p \in Packs : ledger[p] # 0 => file[p][ledger[p]] # 0
  /\ \A s \in Sessions, p \in Packs : seen[s][p] # 0 => file[p][seen[s][p]] # 0
  /\ \A s \in Sessions : Evidence(s) => Landed(s)

(* Until two applies overlap, only one is under way, what it staged is its *)
(* own version, and every applied file holds the version in its name.      *)
OwnInv ==
  ~crossed =>
    /\ \A s, t \in Sessions : s # t => step[s] = "idle" \/ step[t] = "idle"
    /\ \A s \in Sessions : step[s] = "rename" => staged[PackOf[s]] = ver[s]
    /\ \A p \in Packs, v \in Versions : file[p][v] \in {0, v}

ChunkIn(q) == \E f \in Frames(q) : f.kind = "chunk"

(* Each side's progress presupposes its own check of the peer's hello, and *)
(* a chunk presupposes both checks and the armed receiver.                 *)
BindInv ==
  \A s \in Sessions :
    /\ lpc[s] = "arm" => "learner" \in bound[s]
    /\ lpc[s] = "ready" \/ "Ready" \in Frames(up[s]) => armed[s] /\ "learner" \in bound[s]
    /\ tpc[s] = "waitReady" => "teacher" \in bound[s]
    /\ tpc[s] \in {"seal", "send"} \/ ChunkIn(down[s])
         => armed[s] /\ bound[s] = {"teacher", "learner"}

TransferInv == TypeOK /\ LandedInv /\ OwnInv /\ BindInv

-----------------------------------------------------------------------------
(* What the shared parts of the actions do.                                *)

(* A stopping teacher leaves a part of the frames it had in flight.        *)
LEMMA StopTeacherEffect ==
  ASSUME TypeOK, NEW s \in Sessions, NEW r \in Ended, StopTeacher(s, r)
  PROVE  /\ tpc' \in [Sessions -> TeacherPC] /\ tpc' = [tpc EXCEPT ![s] = r]
         /\ down' \in [Sessions -> Seq(DownFrames)]
         /\ \A t \in Sessions : Frames(down'[t]) \subseteq Frames(down[t])
  <1>1. tpc \in [Sessions -> TeacherPC] /\ down \in [Sessions -> Seq(DownFrames)]
    BY DEF TypeOK
  <1>2. PICK q \in SomePrefix(down[s]) : down' = [down EXCEPT ![s] = q]
    BY DEF StopTeacher
  <1>3. q \in Seq(DownFrames) /\ Frames(q) \subseteq Frames(down[s])
    BY <1>1, PrefixFrames
  <1>4. /\ down' \in [Sessions -> Seq(DownFrames)]
        /\ \A t \in Sessions : Frames(down'[t]) \subseteq Frames(down[t])
    BY <1>1, <1>2, <1>3
  <1> QED
    BY <1>1, <1>4 DEF StopTeacher, TeacherPC

(* A stopping learner leaves a part of out, and no apply under way.        *)
LEMMA StopLearnerEffect ==
  ASSUME TypeOK, NEW s \in Sessions, NEW r \in Ended, NEW out \in Seq(UpFrames),
         StopLearner(s, r, out)
  PROVE  /\ lpc' \in [Sessions -> LearnerPC] /\ lpc' = [lpc EXCEPT ![s] = r]
         /\ step' \in [Sessions -> Applying \union {"idle"}]
         /\ \A t \in Sessions : step'[t] \in {step[t], "idle"}
         /\ up' \in [Sessions -> Seq(UpFrames)]
         /\ Frames(up'[s]) \subseteq Frames(out)
         /\ \A t \in Sessions \ {s} : up'[t] = up[t]
  <1>1. /\ lpc \in [Sessions -> LearnerPC] /\ up \in [Sessions -> Seq(UpFrames)]
        /\ step \in [Sessions -> Applying \union {"idle"}]
    BY DEF TypeOK
  <1>2. PICK q \in SomePrefix(out) : up' = [up EXCEPT ![s] = q]
    BY DEF StopLearner
  <1>3. q \in Seq(UpFrames) /\ Frames(q) \subseteq Frames(out)
    BY PrefixFrames
  <1>4. /\ up' \in [Sessions -> Seq(UpFrames)]
        /\ Frames(up'[s]) \subseteq Frames(out)
        /\ \A t \in Sessions \ {s} : up'[t] = up[t]
    BY <1>1, <1>2, <1>3
  <1>5. /\ lpc' \in [Sessions -> LearnerPC] /\ lpc' = [lpc EXCEPT ![s] = r]
        /\ step' \in [Sessions -> Applying \union {"idle"}]
        /\ \A t \in Sessions : step'[t] \in {step[t], "idle"}
    BY <1>1 DEF StopLearner, LearnerPC
  <1> QED
    BY <1>4, <1>5

(* A send by the teacher adds its frame, or fails and stops the teacher.   *)
LEMMA SendDownEffect ==
  ASSUME TypeOK, NEW s \in Sessions, NEW f \in DownFrames, NEW n \in TeacherPC,
         SendDown(s, f, n)
  PROVE  /\ tpc' \in [Sessions -> TeacherPC]
         /\ \E r \in {n, "err"} : tpc' = [tpc EXCEPT ![s] = r]
         /\ down' \in [Sessions -> Seq(DownFrames)]
         /\ Frames(down'[s]) \subseteq Frames(down[s]) \union {f}
         /\ \A t \in Sessions \ {s} : Frames(down'[t]) \subseteq Frames(down[t])
  <1>1. tpc \in [Sessions -> TeacherPC] /\ down \in [Sessions -> Seq(DownFrames)]
    BY DEF TypeOK
  <1>2. CASE /\ tpc' = [tpc EXCEPT ![s] = n]
             /\ down' = [down EXCEPT ![s] = IF lpc[s] \in Ended THEN @ ELSE Append(@, f)]
    <2>1. Append(down[s], f) \in Seq(DownFrames)
            /\ Frames(Append(down[s], f)) = Frames(down[s]) \union {f}
      BY <1>1, AppendFrames
    <2> DEFINE d == IF lpc[s] \in Ended THEN down[s] ELSE Append(down[s], f)
    <2>2. d \in Seq(DownFrames) /\ Frames(d) \subseteq Frames(down[s]) \union {f}
      BY <1>1, <2>1
    <2>3. down' = [down EXCEPT ![s] = d]
      BY <1>2
    <2> HIDE DEF d
    <2>4. /\ down' \in [Sessions -> Seq(DownFrames)] /\ down'[s] = d
          /\ \A t \in Sessions \ {s} : down'[t] = down[t]
      BY <1>1, <2>2, <2>3
    <2> QED
      BY <1>1, <1>2, <2>2, <2>4
  <1>3. CASE StopTeacher(s, "err")
    <2>1. "err" \in Ended
      BY DEF Ended
    <2> QED
      BY <1>3, <2>1, StopTeacherEffect
  <1> QED
    BY <1>2, <1>3 DEF SendDown

(* A send by the learner adds its frame, or fails and stops the learner.   *)
LEMMA SendUpEffect ==
  ASSUME TypeOK, NEW s \in Sessions, NEW f \in UpFrames, NEW n \in LearnerPC,
         SendUp(s, f, n)
  PROVE  /\ lpc' \in [Sessions -> LearnerPC]
         /\ \E r \in {n, "err"} : lpc' = [lpc EXCEPT ![s] = r]
         /\ step' \in [Sessions -> Applying \union {"idle"}]
         /\ \A t \in Sessions : step'[t] \in {step[t], "idle"}
         /\ up' \in [Sessions -> Seq(UpFrames)]
         /\ Frames(up'[s]) \subseteq Frames(up[s]) \union {f}
         /\ \A t \in Sessions \ {s} : up'[t] = up[t]
  <1>1. /\ lpc \in [Sessions -> LearnerPC] /\ up \in [Sessions -> Seq(UpFrames)]
        /\ step \in [Sessions -> Applying \union {"idle"}] /\ up[s] \in Seq(UpFrames)
    BY DEF TypeOK
  <1>2. CASE /\ lpc' = [lpc EXCEPT ![s] = n]
             /\ up' = [up EXCEPT ![s] = IF tpc[s] \in Ended THEN @ ELSE Append(@, f)]
             /\ UNCHANGED step
    <2>1. Append(up[s], f) \in Seq(UpFrames)
            /\ Frames(Append(up[s], f)) = Frames(up[s]) \union {f}
      BY <1>1, AppendFrames
    <2> DEFINE u == IF tpc[s] \in Ended THEN up[s] ELSE Append(up[s], f)
    <2>2. u \in Seq(UpFrames) /\ Frames(u) \subseteq Frames(up[s]) \union {f}
      BY <1>1, <2>1
    <2>3. up' = [up EXCEPT ![s] = u]
      BY <1>2
    <2> HIDE DEF u
    <2>4. /\ up' \in [Sessions -> Seq(UpFrames)] /\ up'[s] = u
          /\ \A t \in Sessions \ {s} : up'[t] = up[t]
      BY <1>1, <2>2, <2>3
    <2> QED
      BY <1>1, <1>2, <2>2, <2>4
  <1>3. CASE StopLearner(s, "err", up[s])
    <2>1. "err" \in Ended
      BY DEF Ended
    <2> QED
      BY <1>1, <1>3, <2>1, StopLearnerEffect
  <1> QED
    BY <1>2, <1>3 DEF SendUp

(* Taking the frame at the head of the teacher's queue.                    *)
LEMMA TakeUpEffect ==
  ASSUME TypeOK, NEW s \in Sessions, up[s] # <<>>, up' = [up EXCEPT ![s] = Tail(@)]
  PROVE  /\ up' \in [Sessions -> Seq(UpFrames)]
         /\ \A t \in Sessions : Frames(up'[t]) \subseteq Frames(up[t])
         /\ Head(up[s]) \in Frames(up[s])
  <1>1. up \in [Sessions -> Seq(UpFrames)]
    BY DEF TypeOK
  <1>2. /\ Tail(up[s]) \in Seq(UpFrames) /\ Head(up[s]) \in Frames(up[s])
        /\ Frames(Tail(up[s])) \subseteq Frames(up[s])
    BY <1>1, TailFrames
  <1> QED
    BY <1>1, <1>2

(* Taking the frame at the head of the learner's inbox.                    *)
LEMMA TakeInboxType ==
  ASSUME TypeOK, NEW s \in Sessions, inbox[s] # <<>>,
         inbox' = [inbox EXCEPT ![s] = Tail(@)]
  PROVE  inbox' \in [Sessions -> Seq(DownControl)]
  <1>1. inbox \in [Sessions -> Seq(DownControl)]
    BY DEF TypeOK
  <1>2. Tail(inbox[s]) \in Seq(DownControl)
    BY <1>1, TailFrames
  <1> QED
    BY <1>1, <1>2

-----------------------------------------------------------------------------
(* How an action that leaves the files alone keeps each part.              *)

(* No new evidence and no change of the directory or of a flip's copy.     *)
LEMMA LandedKept ==
  ASSUME LandedInv, UNCHANGED <<file, ledger, seen, ver>>,
         \A t \in Sessions : Evidence(t)' => Evidence(t)
  PROVE  LandedInv'
  BY DEF LandedInv, Landed

(* No apply starts or moves on, and the directory stays.                   *)
LEMMA OwnKept ==
  ASSUME OwnInv, UNCHANGED <<file, staged, ver, crossed>>,
         \A t \in Sessions : \/ step'[t] = "idle"
                             \/ step[t] # "idle" /\ (step'[t] = "rename" => step[t] = "rename")
  PROVE  OwnInv'
  BY DEF OwnInv

-----------------------------------------------------------------------------
(* The drivers. *)

(* Nothing the invariant speaks of changes. *)
LEMMA TeacherOfferInv ==
  ASSUME TransferInv, NEW s \in Sessions, TeacherOffer(s)
  PROVE  TransferInv'
  <1>0. TypeOK /\ LandedInv /\ OwnInv /\ BindInv
    BY DEF TransferInv
  <1>1. TypeOK'
    BY <1>0, SessionAssumption, BoundAssumption
    DEF TeacherOffer, TypeOK, TeacherPC, TeacherBound, TeacherWaits, LearnerPC, Ended, drivers, wire, receiver, disk, given, world
  <1>2. LandedInv'
    <2>1. \A t \in Sessions : Evidence(t)' => Evidence(t)
      BY <1>0 DEF TeacherOffer, Evidence, TypeOK, drivers, wire, receiver, disk, given, world
    <2>2. UNCHANGED <<file, ledger, seen, ver>>
      BY <1>0 DEF TeacherOffer, drivers, wire, receiver, disk, given, world
    <2> QED
      BY <1>0, <2>1, <2>2, LandedKept
  <1>3. OwnInv'
    <2>1. UNCHANGED <<file, staged, ver, crossed>>
      BY <1>0 DEF TeacherOffer, drivers, wire, receiver, disk, given, world
    <2>2. \A t \in Sessions : step'[t] \in {step[t], "idle"}
      BY <1>0 DEF TeacherOffer, TypeOK, drivers, wire, receiver, disk, given, world
    <2> QED
      BY <1>0, <2>1, <2>2, OwnKept
  <1>4. BindInv'
    BY <1>0 DEF TeacherOffer, BindInv, ChunkIn, TypeOK, drivers, wire, receiver, disk, given, world
  <1> QED
    BY <1>1, <1>2, <1>3, <1>4 DEF TransferInv

(* The teacher stops. *)
LEMMA TeacherGiveUpInv ==
  ASSUME TransferInv, NEW s \in Sessions, TeacherGiveUp(s)
  PROVE  TransferInv'
  <1>0. TypeOK /\ LandedInv /\ OwnInv /\ BindInv
    BY DEF TransferInv
  <1>1. /\ tpc' \in [Sessions -> TeacherPC] /\ tpc' = [tpc EXCEPT ![s] = "err"]
        /\ down' \in [Sessions -> Seq(DownFrames)]
        /\ \A t \in Sessions : Frames(down'[t]) \subseteq Frames(down[t])
    BY <1>0, StopTeacherEffect DEF TeacherGiveUp, Ended
  <1>2. TypeOK'
    BY <1>0, <1>1, SessionAssumption, BoundAssumption
    DEF TeacherGiveUp, TypeOK, TeacherPC, TeacherBound, TeacherWaits, LearnerPC, Ended, drivers, wire, receiver, disk, given, world
  <1>3. LandedInv'
    <2>1. \A t \in Sessions : Evidence(t)' => Evidence(t)
      BY <1>0, <1>1 DEF TeacherGiveUp, Evidence, TypeOK, drivers, wire, receiver, disk, given, world
    <2>2. UNCHANGED <<file, ledger, seen, ver>>
      BY <1>0, <1>1 DEF TeacherGiveUp, drivers, wire, receiver, disk, given, world
    <2> QED
      BY <1>0, <2>1, <2>2, LandedKept
  <1>4. OwnInv'
    <2>1. UNCHANGED <<file, staged, ver, crossed>>
      BY <1>0, <1>1 DEF TeacherGiveUp, drivers, wire, receiver, disk, given, world
    <2>2. \A t \in Sessions : step'[t] \in {step[t], "idle"}
      BY <1>0, <1>1 DEF TeacherGiveUp, TypeOK, drivers, wire, receiver, disk, given, world
    <2> QED
      BY <1>0, <2>1, <2>2, OwnKept
  <1>5. BindInv'
    BY <1>0, <1>1 DEF TeacherGiveUp, BindInv, ChunkIn, TypeOK, drivers, wire, receiver, disk, given, world
  <1> QED
    BY <1>2, <1>3, <1>4, <1>5 DEF TransferInv

(* The teacher stops. *)
LEMMA TeacherTimeoutInv ==
  ASSUME TransferInv, NEW s \in Sessions, TeacherTimeout(s)
  PROVE  TransferInv'
  <1>0. TypeOK /\ LandedInv /\ OwnInv /\ BindInv
    BY DEF TransferInv
  <1>1. /\ tpc' \in [Sessions -> TeacherPC] /\ tpc' = [tpc EXCEPT ![s] = "err"]
        /\ down' \in [Sessions -> Seq(DownFrames)]
        /\ \A t \in Sessions : Frames(down'[t]) \subseteq Frames(down[t])
    BY <1>0, StopTeacherEffect DEF TeacherTimeout, Ended
  <1>2. TypeOK'
    BY <1>0, <1>1, SessionAssumption, BoundAssumption
    DEF TeacherTimeout, TypeOK, TeacherPC, TeacherBound, TeacherWaits, LearnerPC, Ended, drivers, wire, receiver, disk, given, world
  <1>3. LandedInv'
    <2>1. \A t \in Sessions : Evidence(t)' => Evidence(t)
      BY <1>0, <1>1 DEF TeacherTimeout, Evidence, TypeOK, drivers, wire, receiver, disk, given, world
    <2>2. UNCHANGED <<file, ledger, seen, ver>>
      BY <1>0, <1>1 DEF TeacherTimeout, drivers, wire, receiver, disk, given, world
    <2> QED
      BY <1>0, <2>1, <2>2, LandedKept
  <1>4. OwnInv'
    <2>1. UNCHANGED <<file, staged, ver, crossed>>
      BY <1>0, <1>1 DEF TeacherTimeout, drivers, wire, receiver, disk, given, world
    <2>2. \A t \in Sessions : step'[t] \in {step[t], "idle"}
      BY <1>0, <1>1 DEF TeacherTimeout, TypeOK, drivers, wire, receiver, disk, given, world
    <2> QED
      BY <1>0, <2>1, <2>2, OwnKept
  <1>5. BindInv'
    BY <1>0, <1>1 DEF TeacherTimeout, BindInv, ChunkIn, TypeOK, drivers, wire, receiver, disk, given, world
  <1> QED
    BY <1>2, <1>3, <1>4, <1>5 DEF TransferInv

(* The teacher stops. *)
LEMMA TeacherDiesInv ==
  ASSUME TransferInv, NEW s \in Sessions, TeacherDies(s)
  PROVE  TransferInv'
  <1>0. TypeOK /\ LandedInv /\ OwnInv /\ BindInv
    BY DEF TransferInv
  <1>1. /\ tpc' \in [Sessions -> TeacherPC] /\ tpc' = [tpc EXCEPT ![s] = "err"]
        /\ down' \in [Sessions -> Seq(DownFrames)]
        /\ \A t \in Sessions : Frames(down'[t]) \subseteq Frames(down[t])
    BY <1>0, StopTeacherEffect DEF TeacherDies, Ended
  <1>2. TypeOK'
    BY <1>0, <1>1, SessionAssumption, BoundAssumption, SMTT(30)
    DEF TeacherDies, Fault, TypeOK, drivers, wire, receiver, disk, given, world
  <1>3. LandedInv'
    <2>1. \A t \in Sessions : Evidence(t)' => Evidence(t)
      BY <1>0, <1>1 DEF TeacherDies, Evidence, TypeOK, drivers, wire, receiver, disk, given, world
    <2>2. UNCHANGED <<file, ledger, seen, ver>>
      BY <1>0, <1>1 DEF TeacherDies, drivers, wire, receiver, disk, given, world
    <2> QED
      BY <1>0, <2>1, <2>2, LandedKept
  <1>4. OwnInv'
    <2>1. UNCHANGED <<file, staged, ver, crossed>>
      BY <1>0, <1>1 DEF TeacherDies, drivers, wire, receiver, disk, given, world
    <2>2. \A t \in Sessions : step'[t] \in {step[t], "idle"}
      BY <1>0, <1>1 DEF TeacherDies, TypeOK, drivers, wire, receiver, disk, given, world
    <2> QED
      BY <1>0, <2>1, <2>2, OwnKept
  <1>5. BindInv'
    BY <1>0, <1>1 DEF TeacherDies, BindInv, ChunkIn, TypeOK, drivers, wire, receiver, disk, given, world
  <1> QED
    BY <1>2, <1>3, <1>4, <1>5 DEF TransferInv

(* A hello is no chunk. *)
LEMMA TeacherOpenInv ==
  ASSUME TransferInv, NEW s \in Sessions, TeacherOpen(s)
  PROVE  TransferInv'
  <1>0. TypeOK /\ LandedInv /\ OwnInv /\ BindInv
    BY DEF TransferInv
  <1>1. /\ down' \in [Sessions -> Seq(DownFrames)]
        /\ Frames(down'[s]) = Frames(down[s]) \union {Control("Hello")}
        /\ \A t \in Sessions \ {s} : down'[t] = down[t]
        /\ Control("Hello").kind = "Hello"
    <2>1. down \in [Sessions -> Seq(DownFrames)] /\ Control("Hello") \in DownFrames
      BY <1>0 DEF TypeOK, Control, DownFrames, DownControl
    <2>2. /\ Append(down[s], Control("Hello")) \in Seq(DownFrames)
          /\ Frames(Append(down[s], Control("Hello"))) = Frames(down[s]) \union {Control("Hello")}
      BY <2>1, AppendFrames
    <2>3. down' = [down EXCEPT ![s] = Append(down[s], Control("Hello"))]
      BY DEF TeacherOpen
    <2> QED
      BY <2>1, <2>2, <2>3 DEF Control
  <1>2. TypeOK'
    BY <1>0, <1>1, SessionAssumption, BoundAssumption
    DEF TeacherOpen, TypeOK, TeacherPC, TeacherBound, TeacherWaits, LearnerPC, Ended, drivers, wire, receiver, disk, given, world
  <1>3. LandedInv'
    <2>1. \A t \in Sessions : Evidence(t)' => Evidence(t)
      BY <1>0, <1>1 DEF TeacherOpen, Evidence, TypeOK, drivers, wire, receiver, disk, given, world
    <2>2. UNCHANGED <<file, ledger, seen, ver>>
      BY <1>0, <1>1 DEF TeacherOpen, drivers, wire, receiver, disk, given, world
    <2> QED
      BY <1>0, <2>1, <2>2, LandedKept
  <1>4. OwnInv'
    <2>1. UNCHANGED <<file, staged, ver, crossed>>
      BY <1>0, <1>1 DEF TeacherOpen, drivers, wire, receiver, disk, given, world
    <2>2. \A t \in Sessions : step'[t] \in {step[t], "idle"}
      BY <1>0, <1>1 DEF TeacherOpen, TypeOK, drivers, wire, receiver, disk, given, world
    <2> QED
      BY <1>0, <2>1, <2>2, OwnKept
  <1>5. BindInv'
    BY <1>0, <1>1, ZenonT(60) DEF TeacherOpen, BindInv, ChunkIn, TypeOK, drivers, wire, receiver, disk, given, world
  <1> QED
    BY <1>2, <1>3, <1>4, <1>5 DEF TransferInv

(* A frame is taken, and Failed stops the teacher. *)
LEMMA TeacherOtherFrameInv ==
  ASSUME TransferInv, NEW s \in Sessions, TeacherOtherFrame(s)
  PROVE  TransferInv'
  <1>0. TypeOK /\ LandedInv /\ OwnInv /\ BindInv
    BY DEF TransferInv
  <1>1. /\ up' \in [Sessions -> Seq(UpFrames)]
        /\ \A t \in Sessions : Frames(up'[t]) \subseteq Frames(up[t])
    BY <1>0, TakeUpEffect DEF TeacherOtherFrame
  <1>2. /\ tpc' \in [Sessions -> TeacherPC] /\ down' \in [Sessions -> Seq(DownFrames)]
        /\ \A t \in Sessions : Frames(down'[t]) \subseteq Frames(down[t])
        /\ \A t \in Sessions : tpc'[t] \in {tpc[t], "err"}
    <2>1. CASE StopTeacher(s, "err")
      <3>1. "err" \in Ended
        BY DEF Ended
      <3> QED
        BY <1>0, <2>1, <3>1, StopTeacherEffect DEF TypeOK
    <2>2. CASE UNCHANGED <<tpc, down>>
      BY <1>0, <2>2 DEF TypeOK
    <2> QED
      BY <2>1, <2>2 DEF TeacherOtherFrame
  <1>3. TypeOK'
    BY <1>0, <1>1, <1>2, SessionAssumption, BoundAssumption
    DEF TeacherOtherFrame, TypeOK, TeacherPC, TeacherBound, TeacherWaits, LearnerPC, Ended, drivers, wire, receiver, disk, given, world
  <1>4. LandedInv'
    <2>1. \A t \in Sessions : Evidence(t)' => Evidence(t)
      BY <1>0, <1>1, <1>2 DEF TeacherOtherFrame, Evidence, TypeOK, drivers, wire, receiver, disk, given, world
    <2>2. UNCHANGED <<file, ledger, seen, ver>>
      BY <1>0, <1>1, <1>2 DEF TeacherOtherFrame, drivers, wire, receiver, disk, given, world
    <2> QED
      BY <1>0, <2>1, <2>2, LandedKept
  <1>5. OwnInv'
    <2>1. UNCHANGED <<file, staged, ver, crossed>>
      BY <1>0, <1>1, <1>2 DEF TeacherOtherFrame, drivers, wire, receiver, disk, given, world
    <2>2. \A t \in Sessions : step'[t] \in {step[t], "idle"}
      BY <1>0, <1>1, <1>2 DEF TeacherOtherFrame, TypeOK, drivers, wire, receiver, disk, given, world
    <2> QED
      BY <1>0, <2>1, <2>2, OwnKept
  <1>6. BindInv'
    BY <1>0, <1>1, <1>2 DEF TeacherOtherFrame, BindInv, ChunkIn, TypeOK, drivers, wire, receiver, disk, given, world
  <1> QED
    BY <1>3, <1>4, <1>5, <1>6 DEF TransferInv

(* The teacher's own check, or its failure, which stops the teacher. *)
LEMMA TeacherHelloInv ==
  ASSUME TransferInv, NEW s \in Sessions, TeacherHello(s)
  PROVE  TransferInv'
  <1>0. TypeOK /\ LandedInv /\ OwnInv /\ BindInv
    BY DEF TransferInv
  <1>1. /\ up' \in [Sessions -> Seq(UpFrames)]
        /\ \A t \in Sessions : Frames(up'[t]) \subseteq Frames(up[t])
    BY <1>0, TakeUpEffect DEF TeacherHello, TeacherGets
  <1>2. /\ tpc' \in [Sessions -> TeacherPC] /\ down' \in [Sessions -> Seq(DownFrames)]
        /\ \A t \in Sessions : Frames(down'[t]) \subseteq Frames(down[t])
        /\ bound' \in [Sessions -> SUBSET {"teacher", "learner"}] /\ faults' \in Nat
        /\ \A t \in Sessions : bound[t] \subseteq bound'[t]
        /\ \A t \in Sessions : \/ tpc'[t] \in {tpc[t], "err"}
                               \/ tpc'[t] = "waitReady" /\ "teacher" \in bound'[t]
    <2>1. CASE /\ tpc' = [tpc EXCEPT ![s] = "waitReady"]
               /\ bound' = [bound EXCEPT ![s] = @ \union {"teacher"}]
               /\ UNCHANGED <<down, faults>>
      BY <1>0, <2>1 DEF TypeOK, TeacherPC, TeacherBound, TeacherWaits
    <2>2. CASE Fault /\ StopTeacher(s, "err") /\ UNCHANGED bound
      <3>1. "err" \in Ended
        BY DEF Ended
      <3> QED
        BY <1>0, <2>2, <3>1, StopTeacherEffect, SMTT(30) DEF TypeOK, Fault
    <2> QED
      BY <2>1, <2>2 DEF TeacherHello
  <1>3. TypeOK'
    BY <1>0, <1>1, <1>2, SessionAssumption, BoundAssumption
    DEF TeacherHello, TypeOK, TeacherPC, TeacherBound, TeacherWaits, LearnerPC, Ended, drivers, wire, receiver, disk, given, world
  <1>4. LandedInv'
    <2>1. \A t \in Sessions : Evidence(t)' => Evidence(t)
      BY <1>0, <1>1, <1>2 DEF TeacherHello, Evidence, TypeOK, drivers, wire, receiver, disk, given, world
    <2>2. UNCHANGED <<file, ledger, seen, ver>>
      BY <1>0, <1>1, <1>2 DEF TeacherHello, drivers, wire, receiver, disk, given, world
    <2> QED
      BY <1>0, <2>1, <2>2, LandedKept
  <1>5. OwnInv'
    <2>1. UNCHANGED <<file, staged, ver, crossed>>
      BY <1>0, <1>1, <1>2 DEF TeacherHello, drivers, wire, receiver, disk, given, world
    <2>2. \A t \in Sessions : step'[t] \in {step[t], "idle"}
      BY <1>0, <1>1, <1>2 DEF TeacherHello, TypeOK, drivers, wire, receiver, disk, given, world
    <2> QED
      BY <1>0, <2>1, <2>2, OwnKept
  <1>6. BindInv'
    BY <1>0, <1>1, <1>2, ZenonT(60) DEF TeacherHello, BindInv, ChunkIn, TypeOK, drivers, wire, receiver, disk, given, world
  <1> QED
    BY <1>3, <1>4, <1>5, <1>6 DEF TransferInv

(* Ready was sent by a bound learner with its receiver armed. *)
LEMMA TeacherReadyInv ==
  ASSUME TransferInv, NEW s \in Sessions, TeacherReady(s)
  PROVE  TransferInv'
  <1>0. TypeOK /\ LandedInv /\ OwnInv /\ BindInv
    BY DEF TransferInv
  <1>1. /\ up' \in [Sessions -> Seq(UpFrames)]
        /\ \A t \in Sessions : Frames(up'[t]) \subseteq Frames(up[t])
    BY <1>0, TakeUpEffect DEF TeacherReady, TeacherGets
  <1>2. "Ready" \in Frames(up[s])
    BY <1>0, TakeUpEffect DEF TeacherReady, TeacherGets
  <1>3. tpc[s] = "waitReady"
    BY <1>0 DEF TeacherReady, TeacherGets, Awaited, TeacherWaits
  <1>4. TypeOK'
    BY <1>0, <1>1, <1>2, <1>3, SessionAssumption, BoundAssumption
    DEF TeacherReady, TypeOK, TeacherPC, TeacherBound, TeacherWaits, LearnerPC, Ended, drivers, wire, receiver, disk, given, world
  <1>5. LandedInv'
    <2>1. \A t \in Sessions : Evidence(t)' => Evidence(t)
      BY <1>0, <1>1, <1>2, <1>3 DEF TeacherReady, Evidence, TypeOK, drivers, wire, receiver, disk, given, world
    <2>2. UNCHANGED <<file, ledger, seen, ver>>
      BY <1>0, <1>1, <1>2, <1>3 DEF TeacherReady, drivers, wire, receiver, disk, given, world
    <2> QED
      BY <1>0, <2>1, <2>2, LandedKept
  <1>6. OwnInv'
    <2>1. UNCHANGED <<file, staged, ver, crossed>>
      BY <1>0, <1>1, <1>2, <1>3 DEF TeacherReady, drivers, wire, receiver, disk, given, world
    <2>2. \A t \in Sessions : step'[t] \in {step[t], "idle"}
      BY <1>0, <1>1, <1>2, <1>3 DEF TeacherReady, TypeOK, drivers, wire, receiver, disk, given, world
    <2> QED
      BY <1>0, <2>1, <2>2, OwnKept
  <1>7. BindInv'
    <2>1. armed[s] /\ bound[s] = {"teacher", "learner"}
      <3>1. armed[s] /\ {"teacher", "learner"} \subseteq bound[s]
        BY <1>0, <1>2, <1>3 DEF BindInv
      <3>2. bound[s] \subseteq {"teacher", "learner"}
        BY <1>0 DEF TypeOK
      <3> QED
        BY <3>1, <3>2
    <2>2. /\ UNCHANGED <<lpc, bound, armed, down>>
          /\ \A t \in Sessions \ {s} : tpc'[t] = tpc[t]
          /\ tpc'[s] = "seal"
      BY <1>0 DEF TeacherReady, TypeOK, receiver
    <2> QED
      BY <1>0, <1>1, <2>1, <2>2 DEF BindInv, ChunkIn
  <1> QED
    BY <1>4, <1>5, <1>6, <1>7 DEF TransferInv

(* The seal moves the teacher on, or stops it. *)
LEMMA TeacherSealInv ==
  ASSUME TransferInv, NEW s \in Sessions, TeacherSeal(s)
  PROVE  TransferInv'
  <1>0. TypeOK /\ LandedInv /\ OwnInv /\ BindInv
    BY DEF TransferInv
  <1>1. /\ tpc' \in [Sessions -> TeacherPC] /\ down' \in [Sessions -> Seq(DownFrames)]
        /\ \A t \in Sessions : Frames(down'[t]) \subseteq Frames(down[t])
        /\ \A t \in Sessions : \/ tpc'[t] \in {tpc[t], "err"}
                               \/ tpc[t] = "seal" /\ tpc'[t] = "send"
    <2>1. CASE StopTeacher(s, "err")
      <3>1. "err" \in Ended
        BY DEF Ended
      <3>2. /\ tpc' \in [Sessions -> TeacherPC] /\ tpc' = [tpc EXCEPT ![s] = "err"]
            /\ down' \in [Sessions -> Seq(DownFrames)]
            /\ \A t \in Sessions : Frames(down'[t]) \subseteq Frames(down[t])
        BY <1>0, <2>1, <3>1, StopTeacherEffect
      <3>3. \A t \in Sessions : tpc'[t] \in {tpc[t], "err"}
        BY <1>0, <3>2 DEF TypeOK
      <3> QED
        BY <3>2, <3>3
    <2>2. CASE tpc' = [tpc EXCEPT ![s] = "send"] /\ UNCHANGED down
      BY <1>0, <2>2 DEF TypeOK, TeacherSeal, TeacherPC, TeacherBound
    <2> QED
      BY <2>1, <2>2 DEF TeacherSeal
  <1>2. TypeOK'
    BY <1>0, <1>1, SessionAssumption, BoundAssumption
    DEF TeacherSeal, TypeOK, TeacherPC, TeacherBound, TeacherWaits, LearnerPC, Ended, drivers, wire, receiver, disk, given, world
  <1>3. LandedInv'
    <2>1. \A t \in Sessions : Evidence(t)' => Evidence(t)
      BY <1>0, <1>1 DEF TeacherSeal, Evidence, TypeOK, drivers, wire, receiver, disk, given, world
    <2>2. UNCHANGED <<file, ledger, seen, ver>>
      BY <1>0, <1>1 DEF TeacherSeal, drivers, wire, receiver, disk, given, world
    <2> QED
      BY <1>0, <2>1, <2>2, LandedKept
  <1>4. OwnInv'
    <2>1. UNCHANGED <<file, staged, ver, crossed>>
      BY <1>0, <1>1 DEF TeacherSeal, drivers, wire, receiver, disk, given, world
    <2>2. \A t \in Sessions : step'[t] \in {step[t], "idle"}
      BY <1>0, <1>1 DEF TeacherSeal, TypeOK, drivers, wire, receiver, disk, given, world
    <2> QED
      BY <1>0, <2>1, <2>2, OwnKept
  <1>5. BindInv'
    BY <1>0, <1>1, ZenonT(60) DEF TeacherSeal, BindInv, ChunkIn, TypeOK, drivers, wire, receiver, disk, given, world
  <1> QED
    BY <1>2, <1>3, <1>4, <1>5 DEF TransferInv

(* A chunk leaves a teacher for which both checks are known. *)
LEMMA TeacherSendInv ==
  ASSUME TransferInv, NEW s \in Sessions, TeacherSend(s)
  PROVE  TransferInv'
  <1>0. TypeOK /\ LandedInv /\ OwnInv /\ BindInv
    BY DEF TransferInv
  <1>1. /\ tpc' \in [Sessions -> TeacherPC] /\ down' \in [Sessions -> Seq(DownFrames)]
        /\ Frames(down'[s]) \subseteq Frames(down[s]) \union {Chunk(sent[s])}
        /\ \A t \in Sessions \ {s} : Frames(down'[t]) \subseteq Frames(down[t])
        /\ \E r \in {"waitApplied", "send", "err"} : tpc' = [tpc EXCEPT ![s] = r]
    <2>1. Chunk(sent[s]) \in DownFrames /\ {"waitApplied", "send"} \subseteq TeacherPC
      BY <1>0 DEF TypeOK, Chunk, DownFrames, TeacherPC, TeacherBound, TeacherWaits
    <2>2. CASE StopTeacher(s, "err")
      <3>1. "err" \in Ended
        BY DEF Ended
      <3> QED
        BY <1>0, <2>2, <3>1, StopTeacherEffect
    <2>3. CASE \E n \in {"waitApplied", "send"} : SendDown(s, Chunk(sent[s]), n)
      <3>1. PICK n \in {"waitApplied", "send"} : SendDown(s, Chunk(sent[s]), n)
        BY <2>3
      <3>2. /\ tpc' \in [Sessions -> TeacherPC]
            /\ \E r \in {n, "err"} : tpc' = [tpc EXCEPT ![s] = r]
            /\ down' \in [Sessions -> Seq(DownFrames)]
            /\ Frames(down'[s]) \subseteq Frames(down[s]) \union {Chunk(sent[s])}
            /\ \A t \in Sessions \ {s} : Frames(down'[t]) \subseteq Frames(down[t])
        BY <1>0, <2>1, <3>1, SendDownEffect
      <3> QED
        BY <3>2
    <2> QED
      BY <2>2, <2>3 DEF TeacherSend
  <1>2. TypeOK'
    BY <1>0, <1>1, SessionAssumption, BoundAssumption, SMTT(30)
    DEF TeacherSend, TypeOK, TeacherPC, TeacherBound, TeacherWaits, LearnerPC, Ended, drivers, wire, receiver, disk, given, world
  <1>3. LandedInv'
    <2>1. \A t \in Sessions : Evidence(t)' => Evidence(t)
      BY <1>0, <1>1 DEF TeacherSend, Evidence, TypeOK, drivers, wire, receiver, disk, given, world
    <2>2. UNCHANGED <<file, ledger, seen, ver>>
      BY <1>0, <1>1 DEF TeacherSend, drivers, wire, receiver, disk, given, world
    <2> QED
      BY <1>0, <2>1, <2>2, LandedKept
  <1>4. OwnInv'
    <2>1. UNCHANGED <<file, staged, ver, crossed>>
      BY <1>0, <1>1 DEF TeacherSend, drivers, wire, receiver, disk, given, world
    <2>2. \A t \in Sessions : step'[t] \in {step[t], "idle"}
      BY <1>0, <1>1 DEF TeacherSend, TypeOK, drivers, wire, receiver, disk, given, world
    <2> QED
      BY <1>0, <2>1, <2>2, OwnKept
  <1>5. BindInv'
    BY <1>0, <1>1, ZenonT(60) DEF TeacherSend, BindInv, ChunkIn, TypeOK, drivers, wire, receiver, disk, given, world
  <1> QED
    BY <1>2, <1>3, <1>4, <1>5 DEF TransferInv

(* AppliedAck is no chunk. *)
LEMMA TeacherAppliedInv ==
  ASSUME TransferInv, NEW s \in Sessions, TeacherApplied(s)
  PROVE  TransferInv'
  <1>0. TypeOK /\ LandedInv /\ OwnInv /\ BindInv
    BY DEF TransferInv
  <1>1. /\ up' \in [Sessions -> Seq(UpFrames)]
        /\ \A t \in Sessions : Frames(up'[t]) \subseteq Frames(up[t])
    BY <1>0, TakeUpEffect DEF TeacherApplied, TeacherGets
  <1>2. Control("AppliedAck") \in DownFrames /\ Control("AppliedAck").kind # "chunk" /\ "waitComplete" \in TeacherPC
    BY DEF Control, DownFrames, DownControl, TeacherPC, TeacherBound, TeacherWaits
  <1>3. /\ tpc' \in [Sessions -> TeacherPC]
        /\ \E r \in {"waitComplete", "err"} : tpc' = [tpc EXCEPT ![s] = r]
        /\ down' \in [Sessions -> Seq(DownFrames)]
        /\ Frames(down'[s]) \subseteq Frames(down[s]) \union {Control("AppliedAck")}
        /\ \A t \in Sessions \ {s} : Frames(down'[t]) \subseteq Frames(down[t])
    BY <1>0, <1>2, SendDownEffect DEF TeacherApplied
  <1>4. TypeOK'
    BY <1>0, <1>1, <1>2, <1>3, SessionAssumption, BoundAssumption
    DEF TeacherApplied, TypeOK, TeacherPC, TeacherBound, TeacherWaits, LearnerPC, Ended, drivers, wire, receiver, disk, given, world
  <1>5. LandedInv'
    <2>1. \A t \in Sessions : Evidence(t)' => Evidence(t)
      BY <1>0, <1>1, <1>2, <1>3 DEF TeacherApplied, Evidence, TypeOK, drivers, wire, receiver, disk, given, world
    <2>2. UNCHANGED <<file, ledger, seen, ver>>
      BY <1>0, <1>1, <1>2, <1>3 DEF TeacherApplied, drivers, wire, receiver, disk, given, world
    <2> QED
      BY <1>0, <2>1, <2>2, LandedKept
  <1>6. OwnInv'
    <2>1. UNCHANGED <<file, staged, ver, crossed>>
      BY <1>0, <1>1, <1>2, <1>3 DEF TeacherApplied, drivers, wire, receiver, disk, given, world
    <2>2. \A t \in Sessions : step'[t] \in {step[t], "idle"}
      BY <1>0, <1>1, <1>2, <1>3 DEF TeacherApplied, TypeOK, drivers, wire, receiver, disk, given, world
    <2> QED
      BY <1>0, <2>1, <2>2, OwnKept
  <1>7. BindInv'
    BY <1>0, <1>1, <1>2, <1>3, ZenonT(60) DEF TeacherApplied, BindInv, ChunkIn, TypeOK, drivers, wire, receiver, disk, given, world
  <1> QED
    BY <1>4, <1>5, <1>6, <1>7 DEF TransferInv

(* Complete was sent by a learner that had applied the pack. *)
LEMMA TeacherCompleteInv ==
  ASSUME TransferInv, NEW s \in Sessions, TeacherComplete(s)
  PROVE  TransferInv'
  <1>0. TypeOK /\ LandedInv /\ OwnInv /\ BindInv
    BY DEF TransferInv
  <1>1. /\ up' \in [Sessions -> Seq(UpFrames)]
        /\ \A t \in Sessions : Frames(up'[t]) \subseteq Frames(up[t])
    BY <1>0, TakeUpEffect DEF TeacherComplete, TeacherGets
  <1>2. "Complete" \in Frames(up[s])
    BY <1>0, TakeUpEffect DEF TeacherComplete, TeacherGets
  <1>3. /\ tpc' \in [Sessions -> TeacherPC] /\ tpc' = [tpc EXCEPT ![s] = "ok"]
        /\ down' \in [Sessions -> Seq(DownFrames)]
        /\ \A t \in Sessions : Frames(down'[t]) \subseteq Frames(down[t])
    BY <1>0, StopTeacherEffect DEF TeacherComplete, Ended
  <1>4. TypeOK'
    BY <1>0, <1>1, <1>2, <1>3, SessionAssumption, BoundAssumption
    DEF TeacherComplete, TypeOK, TeacherPC, TeacherBound, TeacherWaits, LearnerPC, Ended, drivers, wire, receiver, disk, given, world
  <1>5. LandedInv'
    <2>1. \A t \in Sessions : Evidence(t)' => Evidence(t)
      BY <1>0, <1>1, <1>2, <1>3 DEF TeacherComplete, Evidence, TypeOK, drivers, wire, receiver, disk, given, world
    <2>2. UNCHANGED <<file, ledger, seen, ver>>
      BY <1>0, <1>1, <1>2, <1>3 DEF TeacherComplete, drivers, wire, receiver, disk, given, world
    <2> QED
      BY <1>0, <2>1, <2>2, LandedKept
  <1>6. OwnInv'
    <2>1. UNCHANGED <<file, staged, ver, crossed>>
      BY <1>0, <1>1, <1>2, <1>3 DEF TeacherComplete, drivers, wire, receiver, disk, given, world
    <2>2. \A t \in Sessions : step'[t] \in {step[t], "idle"}
      BY <1>0, <1>1, <1>2, <1>3 DEF TeacherComplete, TypeOK, drivers, wire, receiver, disk, given, world
    <2> QED
      BY <1>0, <2>1, <2>2, OwnKept
  <1>7. BindInv'
    BY <1>0, <1>1, <1>2, <1>3 DEF TeacherComplete, BindInv, ChunkIn, TypeOK, drivers, wire, receiver, disk, given, world
  <1> QED
    BY <1>4, <1>5, <1>6, <1>7 DEF TransferInv

(* Nothing the invariant speaks of changes. *)
LEMMA LearnerAcceptInv ==
  ASSUME TransferInv, NEW s \in Sessions, LearnerAccept(s)
  PROVE  TransferInv'
  <1>0. TypeOK /\ LandedInv /\ OwnInv /\ BindInv
    BY DEF TransferInv
  <1>1. TypeOK'
    BY <1>0, SessionAssumption, BoundAssumption
    DEF LearnerAccept, TypeOK, TeacherPC, TeacherBound, TeacherWaits, LearnerPC, Ended, drivers, wire, receiver, disk, given, world
  <1>2. LandedInv'
    <2>1. \A t \in Sessions : Evidence(t)' => Evidence(t)
      BY <1>0 DEF LearnerAccept, Evidence, TypeOK, drivers, wire, receiver, disk, given, world
    <2>2. UNCHANGED <<file, ledger, seen, ver>>
      BY <1>0 DEF LearnerAccept, drivers, wire, receiver, disk, given, world
    <2> QED
      BY <1>0, <2>1, <2>2, LandedKept
  <1>3. OwnInv'
    <2>1. UNCHANGED <<file, staged, ver, crossed>>
      BY <1>0 DEF LearnerAccept, drivers, wire, receiver, disk, given, world
    <2>2. \A t \in Sessions : step'[t] \in {step[t], "idle"}
      BY <1>0 DEF LearnerAccept, TypeOK, drivers, wire, receiver, disk, given, world
    <2> QED
      BY <1>0, <2>1, <2>2, OwnKept
  <1>4. BindInv'
    BY <1>0 DEF LearnerAccept, BindInv, ChunkIn, TypeOK, drivers, wire, receiver, disk, given, world
  <1> QED
    BY <1>1, <1>2, <1>3, <1>4 DEF TransferInv

(* Nothing the invariant speaks of changes. *)
LEMMA LearnerAnswerInv ==
  ASSUME TransferInv, NEW s \in Sessions, LearnerAnswer(s)
  PROVE  TransferInv'
  <1>0. TypeOK /\ LandedInv /\ OwnInv /\ BindInv
    BY DEF TransferInv
  <1>1. TypeOK'
    BY <1>0, SessionAssumption, BoundAssumption
    DEF LearnerAnswer, TypeOK, TeacherPC, TeacherBound, TeacherWaits, LearnerPC, Ended, drivers, wire, receiver, disk, given, world
  <1>2. LandedInv'
    <2>1. \A t \in Sessions : Evidence(t)' => Evidence(t)
      BY <1>0 DEF LearnerAnswer, Evidence, TypeOK, drivers, wire, receiver, disk, given, world
    <2>2. UNCHANGED <<file, ledger, seen, ver>>
      BY <1>0 DEF LearnerAnswer, drivers, wire, receiver, disk, given, world
    <2> QED
      BY <1>0, <2>1, <2>2, LandedKept
  <1>3. OwnInv'
    <2>1. UNCHANGED <<file, staged, ver, crossed>>
      BY <1>0 DEF LearnerAnswer, drivers, wire, receiver, disk, given, world
    <2>2. \A t \in Sessions : step'[t] \in {step[t], "idle"}
      BY <1>0 DEF LearnerAnswer, TypeOK, drivers, wire, receiver, disk, given, world
    <2> QED
      BY <1>0, <2>1, <2>2, OwnKept
  <1>4. BindInv'
    BY <1>0 DEF LearnerAnswer, BindInv, ChunkIn, TypeOK, drivers, wire, receiver, disk, given, world
  <1> QED
    BY <1>1, <1>2, <1>3, <1>4 DEF TransferInv

(* A hello is neither a receipt nor Ready. *)
LEMMA LearnerOpenInv ==
  ASSUME TransferInv, NEW s \in Sessions, LearnerOpen(s)
  PROVE  TransferInv'
  <1>0. TypeOK /\ LandedInv /\ OwnInv /\ BindInv
    BY DEF TransferInv
  <1>1. /\ up' \in [Sessions -> Seq(UpFrames)]
        /\ Frames(up'[s]) = Frames(up[s]) \union {"Hello"}
        /\ \A t \in Sessions \ {s} : up'[t] = up[t]
    <2>1. up \in [Sessions -> Seq(UpFrames)] /\ "Hello" \in UpFrames
      BY <1>0 DEF TypeOK, UpFrames
    <2>2. /\ Append(up[s], "Hello") \in Seq(UpFrames)
          /\ Frames(Append(up[s], "Hello")) = Frames(up[s]) \union {"Hello"}
      BY <2>1, AppendFrames
    <2> QED
      BY <2>1, <2>2 DEF LearnerOpen
  <1>2. TypeOK'
    BY <1>0, <1>1, SessionAssumption, BoundAssumption
    DEF LearnerOpen, TypeOK, TeacherPC, TeacherBound, TeacherWaits, LearnerPC, Ended, drivers, wire, receiver, disk, given, world
  <1>3. LandedInv'
    <2>1. \A t \in Sessions : Evidence(t)' => Evidence(t)
      BY <1>0, <1>1 DEF LearnerOpen, Evidence, TypeOK, drivers, wire, receiver, disk, given, world
    <2>2. UNCHANGED <<file, ledger, seen, ver>>
      BY <1>0, <1>1 DEF LearnerOpen, drivers, wire, receiver, disk, given, world
    <2> QED
      BY <1>0, <2>1, <2>2, LandedKept
  <1>4. OwnInv'
    <2>1. UNCHANGED <<file, staged, ver, crossed>>
      BY <1>0, <1>1 DEF LearnerOpen, drivers, wire, receiver, disk, given, world
    <2>2. \A t \in Sessions : step'[t] \in {step[t], "idle"}
      BY <1>0, <1>1 DEF LearnerOpen, TypeOK, drivers, wire, receiver, disk, given, world
    <2> QED
      BY <1>0, <2>1, <2>2, OwnKept
  <1>5. BindInv'
    BY <1>0, <1>1 DEF LearnerOpen, BindInv, ChunkIn, TypeOK, drivers, wire, receiver, disk, given, world
  <1> QED
    BY <1>2, <1>3, <1>4, <1>5 DEF TransferInv

(* The learner's own check, or its failure, which stops the learner. *)
LEMMA LearnerHelloInv ==
  ASSUME TransferInv, NEW s \in Sessions, LearnerHello(s)
  PROVE  TransferInv'
  <1>0. TypeOK /\ LandedInv /\ OwnInv /\ BindInv
    BY DEF TransferInv
  <1>1. inbox' \in [Sessions -> Seq(DownControl)]
    BY <1>0, TakeInboxType DEF LearnerHello
  <1>2. /\ lpc' \in [Sessions -> LearnerPC] /\ up' \in [Sessions -> Seq(UpFrames)]
        /\ step' \in [Sessions -> Applying \union {"idle"}]
        /\ \A t \in Sessions : step'[t] \in {step[t], "idle"}
        /\ \A t \in Sessions : Frames(up'[t]) \subseteq Frames(up[t]) \union {"Failed"}
        /\ bound' \in [Sessions -> SUBSET {"teacher", "learner"}] /\ faults' \in Nat
        /\ \A t \in Sessions : bound[t] \subseteq bound'[t]
        /\ \A t \in Sessions : \/ lpc'[t] = lpc[t] \/ lpc'[t] = "err"
                               \/ lpc'[t] = "arm" /\ "learner" \in bound'[t]
    <2>1. "Failed" \in UpFrames /\ up[s] \in Seq(UpFrames) /\ "err" \in Ended
      BY <1>0 DEF TypeOK, UpFrames, Ended
    <2>2. /\ Append(up[s], "Failed") \in Seq(UpFrames)
          /\ Frames(Append(up[s], "Failed")) = Frames(up[s]) \union {"Failed"}
      BY <2>1, AppendFrames
    <2>3. CASE /\ lpc' = [lpc EXCEPT ![s] = "arm"]
               /\ bound' = [bound EXCEPT ![s] = @ \union {"learner"}]
               /\ UNCHANGED <<up, step, faults>>
      BY <1>0, <2>3 DEF TypeOK, LearnerPC
    <2>4. CASE /\ Fault /\ StopLearner(s, "err", Append(up[s], "Failed"))
               /\ UNCHANGED bound
      <3>1. /\ lpc' \in [Sessions -> LearnerPC] /\ lpc' = [lpc EXCEPT ![s] = "err"]
            /\ step' \in [Sessions -> Applying \union {"idle"}]
            /\ \A t \in Sessions : step'[t] \in {step[t], "idle"}
            /\ up' \in [Sessions -> Seq(UpFrames)]
            /\ Frames(up'[s]) \subseteq Frames(up[s]) \union {"Failed"}
            /\ \A t \in Sessions \ {s} : up'[t] = up[t]
        BY <1>0, <2>1, <2>2, <2>4, StopLearnerEffect
      <3>2. \A t \in Sessions : lpc'[t] = lpc[t] \/ lpc'[t] = "err"
        BY <1>0, <3>1 DEF TypeOK
      <3>3. faults' \in Nat /\ bound' = bound
        BY <1>0, <2>4 DEF TypeOK, Fault
      <3>4. bound' \in [Sessions -> SUBSET {"teacher", "learner"}]
        BY <1>0, <3>3 DEF TypeOK
      <3> QED
        BY <3>1, <3>2, <3>3, <3>4
    <2> QED
      BY <2>3, <2>4 DEF LearnerHello
  <1>3. TypeOK'
    BY <1>0, <1>1, <1>2, SessionAssumption, BoundAssumption
    DEF LearnerHello, TypeOK, TeacherPC, TeacherBound, TeacherWaits, LearnerPC, Ended, drivers, wire, receiver, disk, given, world
  <1>4. LandedInv'
    <2>1. UNCHANGED <<tpc, health, file, ledger, seen, ver>>
      BY DEF LearnerHello, disk, given
    <2>2. \A t \in Sessions : Evidence(t)' => Evidence(t)
      BY <1>2, <2>1 DEF Evidence
    <2> QED
      BY <1>0, <2>1, <2>2, LandedKept
  <1>5. OwnInv'
    <2>1. UNCHANGED <<file, staged, ver, crossed>>
      BY <1>0, <1>1, <1>2 DEF LearnerHello, drivers, wire, receiver, disk, given, world
    <2>2. \A t \in Sessions : step'[t] \in {step[t], "idle"}
      BY <1>0, <1>1, <1>2 DEF LearnerHello, TypeOK, drivers, wire, receiver, disk, given, world
    <2> QED
      BY <1>0, <2>1, <2>2, OwnKept
  <1>6. BindInv'
    <2>1. UNCHANGED <<tpc, armed, down>>
      BY DEF LearnerHello
    <2>2. \A t \in Sessions : bound'[t] \subseteq {"teacher", "learner"}
      BY <1>2
    <2>3. \A t \in Sessions : bound[t] = {"teacher", "learner"} => bound'[t] = {"teacher", "learner"}
      BY <1>2, <2>2
    <2>4. \A t \in Sessions : "Ready" \in Frames(up'[t]) => "Ready" \in Frames(up[t])
      BY <1>2
    <2>5. \A t \in Sessions : \/ lpc'[t] = lpc[t] \/ lpc'[t] = "err"
                              \/ lpc'[t] = "arm" /\ "learner" \in bound'[t]
      BY <1>2
    <2>6. \A t \in Sessions : \A x : x \in bound[t] => x \in bound'[t]
      BY <1>2
    <2> QED
      BY <1>0, <2>1, <2>3, <2>4, <2>5, <2>6 DEF BindInv, ChunkIn
  <1> QED
    BY <1>3, <1>4, <1>5, <1>6 DEF TransferInv

(* The receiver is armed by a learner that has checked the hello. *)
LEMMA LearnerArmInv ==
  ASSUME TransferInv, NEW s \in Sessions, LearnerArm(s)
  PROVE  TransferInv'
  <1>0. TypeOK /\ LandedInv /\ OwnInv /\ BindInv
    BY DEF TransferInv
  <1>1. TypeOK'
    BY <1>0, SessionAssumption, BoundAssumption
    DEF LearnerArm, TypeOK, TeacherPC, TeacherBound, TeacherWaits, LearnerPC, Ended, drivers, wire, receiver, disk, given, world
  <1>2. LandedInv'
    <2>1. \A t \in Sessions : Evidence(t)' => Evidence(t)
      BY <1>0 DEF LearnerArm, Evidence, TypeOK, drivers, wire, receiver, disk, given, world
    <2>2. UNCHANGED <<file, ledger, seen, ver>>
      BY <1>0 DEF LearnerArm, drivers, wire, receiver, disk, given, world
    <2> QED
      BY <1>0, <2>1, <2>2, LandedKept
  <1>3. OwnInv'
    <2>1. UNCHANGED <<file, staged, ver, crossed>>
      BY <1>0 DEF LearnerArm, drivers, wire, receiver, disk, given, world
    <2>2. \A t \in Sessions : step'[t] \in {step[t], "idle"}
      BY <1>0 DEF LearnerArm, TypeOK, drivers, wire, receiver, disk, given, world
    <2> QED
      BY <1>0, <2>1, <2>2, OwnKept
  <1>4. BindInv'
    BY <1>0 DEF LearnerArm, BindInv, ChunkIn, TypeOK, drivers, wire, receiver, disk, given, world
  <1> QED
    BY <1>1, <1>2, <1>3, <1>4 DEF TransferInv

(* Ready is sent with the receiver armed. *)
LEMMA LearnerReadyInv ==
  ASSUME TransferInv, NEW s \in Sessions, LearnerReady(s)
  PROVE  TransferInv'
  <1>0. TypeOK /\ LandedInv /\ OwnInv /\ BindInv
    BY DEF TransferInv
  <1>1. "Ready" \in UpFrames /\ "poll" \in LearnerPC
    BY DEF UpFrames, LearnerPC
  <1>2. /\ lpc' \in [Sessions -> LearnerPC]
        /\ \E r \in {"poll", "err"} : lpc' = [lpc EXCEPT ![s] = r]
        /\ step' \in [Sessions -> Applying \union {"idle"}]
        /\ \A t \in Sessions : step'[t] \in {step[t], "idle"}
        /\ up' \in [Sessions -> Seq(UpFrames)]
        /\ Frames(up'[s]) \subseteq Frames(up[s]) \union {"Ready"}
        /\ \A t \in Sessions \ {s} : up'[t] = up[t]
    BY <1>0, <1>1, SendUpEffect DEF LearnerReady
  <1>3. TypeOK'
    BY <1>0, <1>1, <1>2, SessionAssumption, BoundAssumption
    DEF LearnerReady, TypeOK, TeacherPC, TeacherBound, TeacherWaits, LearnerPC, Ended, drivers, wire, receiver, disk, given, world
  <1>4. LandedInv'
    <2>1. UNCHANGED <<tpc, health, file, ledger, seen, ver>>
      BY DEF LearnerReady, disk, given
    <2>2. \A t \in Sessions \ {s} : lpc'[t] = lpc[t] /\ up'[t] = up[t]
      BY <1>0, <1>2 DEF TypeOK
    <2>3. /\ lpc'[s] \in {"poll", "err"}
          /\ \A f \in {"Applied", "Complete"} : f \in Frames(up'[s]) => f \in Frames(up[s])
      BY <1>0, <1>2 DEF TypeOK
    <2>4. \A t \in Sessions \ {s} : Evidence(t)' => Evidence(t)
      BY <1>2, <2>1, <2>2 DEF Evidence
    <2>5. Evidence(s)' => Evidence(s)
      BY <1>2, <2>1, <2>3 DEF Evidence
    <2>6. \A t \in Sessions : Evidence(t)' => Evidence(t)
      BY <2>4, <2>5
    <2> QED
      BY <1>0, <2>1, <2>6, LandedKept
  <1>5. OwnInv'
    <2>1. UNCHANGED <<file, staged, ver, crossed>>
      BY <1>0, <1>1, <1>2 DEF LearnerReady, drivers, wire, receiver, disk, given, world
    <2>2. \A t \in Sessions : step'[t] \in {step[t], "idle"}
      BY <1>0, <1>1, <1>2 DEF LearnerReady, TypeOK, drivers, wire, receiver, disk, given, world
    <2> QED
      BY <1>0, <2>1, <2>2, OwnKept
  <1>6. BindInv'
    BY <1>0, <1>1, <1>2 DEF LearnerReady, BindInv, ChunkIn, TypeOK, drivers, wire, receiver, disk, given, world
  <1> QED
    BY <1>3, <1>4, <1>5, <1>6 DEF TransferInv

(* The receipt is sent when the health says applied. *)
LEMMA LearnerPollInv ==
  ASSUME TransferInv, NEW s \in Sessions, LearnerPoll(s)
  PROVE  TransferInv'
  <1>0. TypeOK /\ LandedInv /\ OwnInv /\ BindInv
    BY DEF TransferInv
  <1>1. /\ lpc' \in [Sessions -> LearnerPC] /\ up' \in [Sessions -> Seq(UpFrames)]
        /\ step' \in [Sessions -> Applying \union {"idle"}]
        /\ \A t \in Sessions : step'[t] \in {step[t], "idle"}
        /\ \A t \in Sessions \ {s} : up'[t] = up[t]
        /\ \/ /\ health[s] = "applied"
              /\ Frames(up'[s]) \subseteq Frames(up[s]) \union {"Applied"}
              /\ \E r \in {"waitAck", "err"} : lpc' = [lpc EXCEPT ![s] = r]
           \/ /\ Frames(up'[s]) \subseteq Frames(up[s]) \union {"Failed"}
              /\ lpc' = [lpc EXCEPT ![s] = "err"]
    <2>1. "Failed" \in UpFrames /\ up[s] \in Seq(UpFrames) /\ "err" \in Ended
      BY <1>0 DEF TypeOK, UpFrames, Ended
    <2>2. /\ Append(up[s], "Failed") \in Seq(UpFrames)
          /\ Frames(Append(up[s], "Failed")) = Frames(up[s]) \union {"Failed"}
      BY <2>1, AppendFrames
    <2>3. CASE health[s] = "applied" /\ SendUp(s, "Applied", "waitAck")
      <3>1. "Applied" \in UpFrames /\ "waitAck" \in LearnerPC
        BY DEF UpFrames, LearnerPC
      <3>2. /\ lpc' \in [Sessions -> LearnerPC]
            /\ \E r \in {"waitAck", "err"} : lpc' = [lpc EXCEPT ![s] = r]
            /\ step' \in [Sessions -> Applying \union {"idle"}]
            /\ \A t \in Sessions : step'[t] \in {step[t], "idle"}
            /\ up' \in [Sessions -> Seq(UpFrames)]
            /\ Frames(up'[s]) \subseteq Frames(up[s]) \union {"Applied"}
            /\ \A t \in Sessions \ {s} : up'[t] = up[t]
        BY <1>0, <2>3, <3>1, SendUpEffect
      <3> QED
        BY <2>3, <3>2
    <2>4. CASE StopLearner(s, "err", Append(up[s], "Failed"))
      BY <1>0, <2>1, <2>2, <2>4, StopLearnerEffect
    <2> QED
      BY <2>3, <2>4 DEF LearnerPoll
  <1>2. TypeOK'
    BY <1>0, <1>1, SessionAssumption, BoundAssumption
    DEF LearnerPoll, TypeOK, TeacherPC, TeacherBound, TeacherWaits, LearnerPC, Ended, drivers, wire, receiver, disk, given, world
  <1>3. LandedInv'
    <2>1. UNCHANGED <<tpc, health, file, ledger, seen, ver>>
      BY DEF LearnerPoll, disk, given
    <2>2. \A t \in Sessions \ {s} : lpc'[t] = lpc[t] /\ up'[t] = up[t]
      BY <1>0, <1>1 DEF TypeOK
    <2>3. \/ health[s] = "applied"
          \/ /\ lpc'[s] = "err"
             /\ \A f \in {"Applied", "Complete"} : f \in Frames(up'[s]) => f \in Frames(up[s])
      <3>1. s \in DOMAIN lpc
        BY <1>0 DEF TypeOK
      <3> QED
        BY <1>1, <3>1
    <2>4. \A t \in Sessions \ {s} : Evidence(t)' => Evidence(t)
      BY <1>1, <2>1, <2>2 DEF Evidence
    <2>5. Evidence(s)' => Evidence(s)
      BY <1>1, <2>1, <2>3 DEF Evidence
    <2>6. \A t \in Sessions : Evidence(t)' => Evidence(t)
      BY <2>4, <2>5
    <2> QED
      BY <1>0, <2>1, <2>6, LandedKept
  <1>4. OwnInv'
    <2>1. UNCHANGED <<file, staged, ver, crossed>>
      BY <1>0, <1>1 DEF LearnerPoll, drivers, wire, receiver, disk, given, world
    <2>2. \A t \in Sessions : step'[t] \in {step[t], "idle"}
      BY <1>0, <1>1 DEF LearnerPoll, TypeOK, drivers, wire, receiver, disk, given, world
    <2> QED
      BY <1>0, <2>1, <2>2, OwnKept
  <1>5. BindInv'
    BY <1>0, <1>1 DEF LearnerPoll, BindInv, ChunkIn, TypeOK, drivers, wire, receiver, disk, given, world
  <1> QED
    BY <1>2, <1>3, <1>4, <1>5 DEF TransferInv

(* Complete is sent by a learner that sent its receipt. *)
LEMMA LearnerAckInv ==
  ASSUME TransferInv, NEW s \in Sessions, LearnerAck(s)
  PROVE  TransferInv'
  <1>0. TypeOK /\ LandedInv /\ OwnInv /\ BindInv
    BY DEF TransferInv
  <1>1. "Complete" \in UpFrames /\ "waitClosed" \in LearnerPC
    BY DEF UpFrames, LearnerPC
  <1>2. /\ lpc' \in [Sessions -> LearnerPC]
        /\ \E r \in {"waitClosed", "err"} : lpc' = [lpc EXCEPT ![s] = r]
        /\ step' \in [Sessions -> Applying \union {"idle"}]
        /\ \A t \in Sessions : step'[t] \in {step[t], "idle"}
        /\ up' \in [Sessions -> Seq(UpFrames)]
        /\ Frames(up'[s]) \subseteq Frames(up[s]) \union {"Complete"}
        /\ \A t \in Sessions \ {s} : up'[t] = up[t]
    BY <1>0, <1>1, SendUpEffect DEF LearnerAck
  <1>3. inbox' \in [Sessions -> Seq(DownControl)]
    BY <1>0, TakeInboxType DEF LearnerAck
  <1>4. TypeOK'
    BY <1>0, <1>1, <1>2, <1>3, SessionAssumption, BoundAssumption
    DEF LearnerAck, TypeOK, TeacherPC, TeacherBound, TeacherWaits, LearnerPC, Ended, drivers, wire, receiver, disk, given, world
  <1>5. LandedInv'
    <2>1. \A t \in Sessions : Evidence(t)' => Evidence(t)
      BY <1>0, <1>1, <1>2, <1>3, SMTT(30) DEF LearnerAck, Evidence, TypeOK, drivers, wire, receiver, disk, given, world
    <2>2. UNCHANGED <<file, ledger, seen, ver>>
      BY <1>0, <1>1, <1>2, <1>3 DEF LearnerAck, drivers, wire, receiver, disk, given, world
    <2> QED
      BY <1>0, <2>1, <2>2, LandedKept
  <1>6. OwnInv'
    <2>1. UNCHANGED <<file, staged, ver, crossed>>
      BY <1>0, <1>1, <1>2, <1>3 DEF LearnerAck, drivers, wire, receiver, disk, given, world
    <2>2. \A t \in Sessions : step'[t] \in {step[t], "idle"}
      BY <1>0, <1>1, <1>2, <1>3 DEF LearnerAck, TypeOK, drivers, wire, receiver, disk, given, world
    <2> QED
      BY <1>0, <2>1, <2>2, OwnKept
  <1>7. BindInv'
    <2>1. UNCHANGED <<tpc, bound, armed, down>>
      BY DEF LearnerAck
    <2>2. \A t \in Sessions : lpc'[t] \in {lpc[t], "waitClosed", "err"}
      BY <1>0, <1>2 DEF TypeOK
    <2>3. \A t \in Sessions : Frames(up'[t]) \subseteq Frames(up[t]) \union {"Complete"}
      BY <1>2
    <2> QED
      BY <1>0, <2>1, <2>2, <2>3 DEF BindInv, ChunkIn
  <1> QED
    BY <1>4, <1>5, <1>6, <1>7 DEF TransferInv

(* The learner stops. *)
LEMMA LearnerClosedInv ==
  ASSUME TransferInv, NEW s \in Sessions, LearnerClosed(s)
  PROVE  TransferInv'
  <1>0. TypeOK /\ LandedInv /\ OwnInv /\ BindInv
    BY DEF TransferInv
  <1>1. /\ lpc' \in [Sessions -> LearnerPC] /\ lpc' = [lpc EXCEPT ![s] = "ok"]
        /\ step' \in [Sessions -> Applying \union {"idle"}]
        /\ \A t \in Sessions : step'[t] \in {step[t], "idle"}
        /\ up' \in [Sessions -> Seq(UpFrames)]
        /\ Frames(up'[s]) \subseteq Frames(up[s])
        /\ \A t \in Sessions \ {s} : up'[t] = up[t]
    BY <1>0, StopLearnerEffect DEF LearnerClosed, TypeOK, Ended
  <1>2. TypeOK'
    BY <1>0, <1>1, SessionAssumption, BoundAssumption
    DEF LearnerClosed, TypeOK, TeacherPC, TeacherBound, TeacherWaits, LearnerPC, Ended, drivers, wire, receiver, disk, given, world
  <1>3. LandedInv'
    <2>1. \A t \in Sessions : Evidence(t)' => Evidence(t)
      BY <1>0, <1>1 DEF LearnerClosed, Evidence, TypeOK, drivers, wire, receiver, disk, given, world
    <2>2. UNCHANGED <<file, ledger, seen, ver>>
      BY <1>0, <1>1 DEF LearnerClosed, drivers, wire, receiver, disk, given, world
    <2> QED
      BY <1>0, <2>1, <2>2, LandedKept
  <1>4. OwnInv'
    <2>1. UNCHANGED <<file, staged, ver, crossed>>
      BY <1>0, <1>1 DEF LearnerClosed, drivers, wire, receiver, disk, given, world
    <2>2. \A t \in Sessions : step'[t] \in {step[t], "idle"}
      BY <1>0, <1>1 DEF LearnerClosed, TypeOK, drivers, wire, receiver, disk, given, world
    <2> QED
      BY <1>0, <2>1, <2>2, OwnKept
  <1>5. BindInv'
    BY <1>0, <1>1 DEF LearnerClosed, BindInv, ChunkIn, TypeOK, drivers, wire, receiver, disk, given, world
  <1> QED
    BY <1>2, <1>3, <1>4, <1>5 DEF TransferInv

(* The learner stops. *)
LEMMA LearnerTimeoutInv ==
  ASSUME TransferInv, NEW s \in Sessions, LearnerTimeout(s)
  PROVE  TransferInv'
  <1>0. TypeOK /\ LandedInv /\ OwnInv /\ BindInv
    BY DEF TransferInv
  <1>1. /\ lpc' \in [Sessions -> LearnerPC] /\ lpc' = [lpc EXCEPT ![s] = "err"]
        /\ step' \in [Sessions -> Applying \union {"idle"}]
        /\ \A t \in Sessions : step'[t] \in {step[t], "idle"}
        /\ up' \in [Sessions -> Seq(UpFrames)]
        /\ Frames(up'[s]) \subseteq Frames(up[s])
        /\ \A t \in Sessions \ {s} : up'[t] = up[t]
    BY <1>0, StopLearnerEffect DEF LearnerTimeout, TypeOK, Ended
  <1>2. TypeOK'
    BY <1>0, <1>1, SessionAssumption, BoundAssumption
    DEF LearnerTimeout, TypeOK, TeacherPC, TeacherBound, TeacherWaits, LearnerPC, Ended, drivers, wire, receiver, disk, given, world
  <1>3. LandedInv'
    <2>1. \A t \in Sessions : Evidence(t)' => Evidence(t)
      BY <1>0, <1>1 DEF LearnerTimeout, Evidence, TypeOK, drivers, wire, receiver, disk, given, world
    <2>2. UNCHANGED <<file, ledger, seen, ver>>
      BY <1>0, <1>1 DEF LearnerTimeout, drivers, wire, receiver, disk, given, world
    <2> QED
      BY <1>0, <2>1, <2>2, LandedKept
  <1>4. OwnInv'
    <2>1. UNCHANGED <<file, staged, ver, crossed>>
      BY <1>0, <1>1 DEF LearnerTimeout, drivers, wire, receiver, disk, given, world
    <2>2. \A t \in Sessions : step'[t] \in {step[t], "idle"}
      BY <1>0, <1>1 DEF LearnerTimeout, TypeOK, drivers, wire, receiver, disk, given, world
    <2> QED
      BY <1>0, <2>1, <2>2, OwnKept
  <1>5. BindInv'
    BY <1>0, <1>1 DEF LearnerTimeout, BindInv, ChunkIn, TypeOK, drivers, wire, receiver, disk, given, world
  <1> QED
    BY <1>2, <1>3, <1>4, <1>5 DEF TransferInv

(* The learner stops. *)
LEMMA LearnerDiesInv ==
  ASSUME TransferInv, NEW s \in Sessions, LearnerDies(s)
  PROVE  TransferInv'
  <1>0. TypeOK /\ LandedInv /\ OwnInv /\ BindInv
    BY DEF TransferInv
  <1>1. /\ lpc' \in [Sessions -> LearnerPC] /\ lpc' = [lpc EXCEPT ![s] = "err"]
        /\ step' \in [Sessions -> Applying \union {"idle"}]
        /\ \A t \in Sessions : step'[t] \in {step[t], "idle"}
        /\ up' \in [Sessions -> Seq(UpFrames)]
        /\ Frames(up'[s]) \subseteq Frames(up[s])
        /\ \A t \in Sessions \ {s} : up'[t] = up[t]
    BY <1>0, StopLearnerEffect DEF LearnerDies, TypeOK, Ended
  <1>2. TypeOK'
    BY <1>0, <1>1, SessionAssumption, BoundAssumption, SMTT(30)
    DEF LearnerDies, Fault, TypeOK, drivers, wire, receiver, disk, given, world
  <1>3. LandedInv'
    <2>1. \A t \in Sessions : Evidence(t)' => Evidence(t)
      BY <1>0, <1>1 DEF LearnerDies, Evidence, TypeOK, drivers, wire, receiver, disk, given, world
    <2>2. UNCHANGED <<file, ledger, seen, ver>>
      BY <1>0, <1>1 DEF LearnerDies, drivers, wire, receiver, disk, given, world
    <2> QED
      BY <1>0, <2>1, <2>2, LandedKept
  <1>4. OwnInv'
    <2>1. UNCHANGED <<file, staged, ver, crossed>>
      BY <1>0, <1>1 DEF LearnerDies, drivers, wire, receiver, disk, given, world
    <2>2. \A t \in Sessions : step'[t] \in {step[t], "idle"}
      BY <1>0, <1>1 DEF LearnerDies, TypeOK, drivers, wire, receiver, disk, given, world
    <2> QED
      BY <1>0, <2>1, <2>2, OwnKept
  <1>5. BindInv'
    BY <1>0, <1>1 DEF LearnerDies, BindInv, ChunkIn, TypeOK, drivers, wire, receiver, disk, given, world
  <1> QED
    BY <1>2, <1>3, <1>4, <1>5 DEF TransferInv

-----------------------------------------------------------------------------
(* The message handler and the apply.                                      *)

(* A frame is taken; the last chunk starts the apply, which marks an       *)
(* overlap if another one is under way.                                    *)
LEMMA ReceiveInv ==
  ASSUME TransferInv, NEW s \in Sessions, Receive(s)
  PROVE  TransferInv'
  <1>0. TypeOK /\ LandedInv /\ OwnInv /\ BindInv
    BY DEF TransferInv
  <1> DEFINE f == Head(down[s])
  <1>1. down \in [Sessions -> Seq(DownFrames)] /\ down[s] # <<>>
    BY <1>0 DEF TypeOK, Receive
  <1>2. f \in DownFrames /\ Tail(down[s]) \in Seq(DownFrames)
          /\ Frames(Tail(down[s])) \subseteq Frames(down[s])
    BY <1>1, TailFrames
  <1>3. /\ down' \in [Sessions -> Seq(DownFrames)]
        /\ \A t \in Sessions : Frames(down'[t]) \subseteq Frames(down[t])
    BY <1>1, <1>2 DEF Receive
  <1>4. f.index \in Nat /\ f.kind \in DownControl \union {"chunk"}
    BY <1>2 DEF DownFrames
  <1>5. inbox' \in [Sessions -> Seq(DownControl)]
    <2>1. inbox \in [Sessions -> Seq(DownControl)]
      BY <1>0 DEF TypeOK
    <2>2. f.kind # "chunk" => Append(inbox[s], f.kind) \in Seq(DownControl)
      BY <1>4, <2>1, AppendFrames
    <2>3. inbox' = inbox \/ (f.kind # "chunk" /\ inbox' = [inbox EXCEPT ![s] = Append(inbox[s], f.kind)])
      BY DEF Receive
    <2> QED
      BY <2>1, <2>2, <2>3
  <1>6. got' \in [Sessions -> SUBSET Nat]
    <2>1. got \in [Sessions -> SUBSET Nat]
      BY <1>0 DEF TypeOK
    <2>2. \E g \in SUBSET Nat : got' = got \/ got' = [got EXCEPT ![s] = g]
      BY <1>4, <2>1 DEF Receive
    <2> QED
      BY <2>1, <2>2
  <1>7. /\ step' \in [Sessions -> Applying \union {"idle"}] /\ crossed' \in BOOLEAN
        /\ \/ step' = step /\ crossed' = crossed
           \/ /\ step' = [step EXCEPT ![s] = "check"]
              /\ crossed' = (crossed \/ \E t \in Sessions \ {s} : step[t] # "idle")
    BY <1>0 DEF Receive, TypeOK, Applying
  <1>8. UNCHANGED <<tpc, lpc, sig, bound, sent, up, armed, seen, health, staged,
                    file, ledger, ver, size, faults, upset>>
    BY DEF Receive, drivers, disk, given
  <1> HIDE DEF f
  <1>9. TypeOK'
    BY <1>0, <1>3, <1>5, <1>6, <1>7, <1>8 DEF TypeOK
  <1>10. LandedInv'
    <2>1. \A t \in Sessions : step'[t] \in {step[t], "check"}
      BY <1>0, <1>7 DEF TypeOK
    <2>2. \A t \in Sessions : Evidence(t)' => Evidence(t)
      BY <1>8, <2>1 DEF Evidence
    <2> QED
      BY <1>0, <1>8, <2>2, LandedKept
  <1>11. OwnInv'
    <2>1. CASE step' = step /\ crossed' = crossed
      BY <1>0, <1>8, <2>1, OwnKept
    <2>2. CASE /\ step' = [step EXCEPT ![s] = "check"]
               /\ crossed' = (crossed \/ \E t \in Sessions \ {s} : step[t] # "idle")
      <3>1. SUFFICES ASSUME ~crossed'
                     PROVE  OwnInv'
        BY DEF OwnInv
      <3>2. ~crossed /\ \A t \in Sessions \ {s} : step[t] = "idle"
        BY <2>2, <3>1
      <3>3. /\ step'[s] = "check"
            /\ \A t \in Sessions \ {s} : step'[t] = "idle"
        BY <1>0, <2>2, <3>2 DEF TypeOK
      <3> QED
        BY <1>0, <1>8, <3>2, <3>3 DEF OwnInv
    <2> QED
      BY <1>7, <2>1, <2>2
  <1>12. BindInv'
    BY <1>0, <1>3, <1>8 DEF BindInv, ChunkIn
  <1> QED
    BY <1>9, <1>10, <1>11, <1>12 DEF TransferInv

(* What every step of the apply leaves alone.                              *)
LEMMA ApplyFrame ==
  ASSUME TransferInv, NEW s \in Sessions,
         \/ ApplyCheck(s) \/ ApplyStage(s) \/ ApplyRename(s)
         \/ ApplyRead(s) \/ ApplyWrite(s) \/ ApplyFails(s)
  PROVE  /\ UNCHANGED <<tpc, lpc, sig, bound, sent, up, down, inbox, armed, got,
                        ver, size, upset, crossed>>
         /\ step \in [Sessions -> Applying \union {"idle"}]
         /\ health \in [Sessions -> {"none", "applied", "failed"}]
         /\ ver[s] \in Versions /\ PackOf[s] \in Packs /\ step[s] # "idle"
         /\ BindInv'
  <1>1. UNCHANGED <<tpc, lpc, sig, bound, sent, up, down, inbox, armed, got,
                    ver, size, upset, crossed>>
    BY DEF ApplyCheck, ApplyStage, ApplyRename, ApplyRead, ApplyWrite, ApplyFails,
           drivers, wire, given, world
  <1>2. BindInv'
    BY <1>1 DEF TransferInv, BindInv, ChunkIn
  <1>3. step[s] # "idle"
    BY DEF ApplyCheck, ApplyStage, ApplyRename, ApplyRead, ApplyWrite, ApplyFails, Applying
  <1> QED
    BY <1>1, <1>2, <1>3, SessionAssumption DEF TransferInv, TypeOK

(* The same version again is applied because the ledger names its file.    *)
LEMMA ApplyCheckInv ==
  ASSUME TransferInv, NEW s \in Sessions, ApplyCheck(s)
  PROVE  TransferInv'
  <1>0. TypeOK /\ LandedInv /\ OwnInv
    BY DEF TransferInv
  <1>1. UNCHANGED <<seen, staged, file, ledger, faults>>
    BY DEF ApplyCheck, disk, world
  <1>2. /\ UNCHANGED <<tpc, lpc, sig, bound, sent, up, down, inbox, armed, got,
                       ver, size, upset, crossed>>
        /\ step \in [Sessions -> Applying \union {"idle"}]
        /\ health \in [Sessions -> {"none", "applied", "failed"}]
        /\ ver[s] \in Versions /\ PackOf[s] \in Packs /\ step[s] # "idle" /\ BindInv'
    BY ApplyFrame
  <1>3. \/ /\ ver[s] = ledger[PackOf[s]]
           /\ step' = [step EXCEPT ![s] = "idle"]
           /\ health' = [health EXCEPT ![s] = "applied"]
        \/ /\ step' = [step EXCEPT ![s] = "idle"]
           /\ health' = [health EXCEPT ![s] = "failed"]
        \/ step' = [step EXCEPT ![s] = "stage"] /\ health' = health
    BY DEF ApplyCheck, Finish, Verdict
  <1>4. /\ step' \in [Sessions -> Applying \union {"idle"}]
        /\ health' \in [Sessions -> {"none", "applied", "failed"}]
        /\ step'[s] \in {"idle", "stage"}
        /\ \A t \in Sessions \ {s} : step'[t] = step[t] /\ health'[t] = health[t]
        /\ health'[s] = "applied" => health[s] = "applied" \/ ver[s] = ledger[PackOf[s]]
    BY <1>2, <1>3 DEF Applying
  <1>5. TypeOK'
    BY <1>0, <1>1, <1>2, <1>4 DEF TypeOK
  <1>6. LandedInv'
    <2>1. ver[s] = ledger[PackOf[s]] => Landed(s)
      BY <1>0, <1>2, BoundAssumption DEF LandedInv, Landed, Versions
    <2>2. \A t \in Sessions : Evidence(t)' => Landed(t)
      BY <1>0, <1>2, <1>4, <2>1 DEF LandedInv, Evidence
    <2> QED
      BY <1>0, <1>1, <1>2, <2>2 DEF LandedInv, Landed
  <1>7. OwnInv'
    <2>1. \A t \in Sessions : step'[t] = "idle" \/ (step[t] # "idle" /\ (step'[t] = "rename" => step[t] = "rename"))
      BY <1>2, <1>4
    <2> QED
      BY <1>0, <1>1, <1>2, <2>1, OwnKept
  <1> QED
    BY <1>2, <1>5, <1>6, <1>7 DEF TransferInv

(* What is staged is the session's own version.                            *)
LEMMA ApplyStageInv ==
  ASSUME TransferInv, NEW s \in Sessions, ApplyStage(s)
  PROVE  TransferInv'
  <1>0. TypeOK /\ LandedInv /\ OwnInv
    BY DEF TransferInv
  <1>1. UNCHANGED <<seen, file, ledger, faults, health>>
    BY DEF ApplyStage, world
  <1>2. /\ UNCHANGED <<tpc, lpc, sig, bound, sent, up, down, inbox, armed, got,
                       ver, size, upset, crossed>>
        /\ step \in [Sessions -> Applying \union {"idle"}]
        /\ ver[s] \in Versions /\ PackOf[s] \in Packs /\ step[s] # "idle" /\ BindInv'
    BY ApplyFrame
  <1>3. /\ staged \in [Packs -> 0..MaxVersion] /\ ver[s] \in 0..MaxVersion
        /\ staged' = [staged EXCEPT ![PackOf[s]] = ver[s]]
        /\ step' = [step EXCEPT ![s] = "rename"]
    BY <1>0, <1>2, BoundAssumption DEF ApplyStage, TypeOK, Versions
  <1>4. /\ staged' \in [Packs -> 0..MaxVersion] /\ staged'[PackOf[s]] = ver[s]
        /\ step' \in [Sessions -> Applying \union {"idle"}] /\ step'[s] = "rename"
        /\ \A t \in Sessions \ {s} : step'[t] = step[t]
    BY <1>2, <1>3 DEF Applying
  <1>5. TypeOK'
    BY <1>0, <1>1, <1>2, <1>4 DEF TypeOK
  <1>6. LandedInv'
    <2>1. \A t \in Sessions : Evidence(t)' => Evidence(t)
      BY <1>1, <1>2, <1>4 DEF Evidence
    <2> QED
      BY <1>0, <1>1, <1>2, <2>1, LandedKept
  <1>7. OwnInv'
    <2>1. SUFFICES ASSUME ~crossed'
                   PROVE  OwnInv'
      BY DEF OwnInv
    <2>2. ~crossed
      BY <1>2, <2>1
    <2>3. \A t \in Sessions \ {s} : step'[t] = "idle"
      BY <1>0, <1>2, <1>4, <2>2 DEF OwnInv
    <2> QED
      BY <1>0, <1>1, <1>2, <1>4, <2>2, <2>3 DEF OwnInv
  <1> QED
    BY <1>2, <1>5, <1>6, <1>7 DEF TransferInv

(* The rename makes the file visible, and no file ever goes away.          *)
LEMMA ApplyRenameInv ==
  ASSUME TransferInv, NEW s \in Sessions, ApplyRename(s)
  PROVE  TransferInv'
  <1>0. TypeOK /\ LandedInv /\ OwnInv
    BY DEF TransferInv
  <1> DEFINE p == PackOf[s]
             v == ver[s]
  <1>1. UNCHANGED <<seen, ledger, faults>>
    BY DEF ApplyRename, world
  <1>2. /\ UNCHANGED <<tpc, lpc, sig, bound, sent, up, down, inbox, armed, got,
                       ver, size, upset, crossed>>
        /\ step \in [Sessions -> Applying \union {"idle"}]
        /\ health \in [Sessions -> {"none", "applied", "failed"}]
        /\ v \in Versions /\ p \in Packs /\ step[s] # "idle" /\ BindInv'
    BY ApplyFrame
  <1>3. /\ staged \in [Packs -> 0..MaxVersion] /\ 0 \in 0..MaxVersion
        /\ file \in [Packs -> [Versions -> 0..MaxVersion]] /\ step[s] = "rename"
    BY <1>0, BoundAssumption DEF TypeOK, ApplyRename
  <1>4. CASE /\ staged[p] # 0
             /\ file' = [file EXCEPT ![p][v] = staged[p]]
             /\ staged' = [staged EXCEPT ![p] = 0]
             /\ step' = [step EXCEPT ![s] = "read"]
             /\ UNCHANGED health
    <2>1. /\ file' \in [Packs -> [Versions -> 0..MaxVersion]]
          /\ file'[p][v] = staged[p]
          /\ \A q \in Packs, w \in Versions : <<q, w>> # <<p, v>> => file'[q][w] = file[q][w]
      BY <1>2, <1>3, <1>4
    <2>2. /\ staged' \in [Packs -> 0..MaxVersion]
          /\ step' \in [Sessions -> Applying \union {"idle"}] /\ step'[s] = "read"
          /\ \A t \in Sessions \ {s} : step'[t] = step[t]
      BY <1>2, <1>3, <1>4 DEF Applying
    <2>3. TypeOK'
      BY <1>0, <1>1, <1>2, <1>4, <2>1, <2>2 DEF TypeOK
    <2>4. \A q \in Packs, w \in Versions : file[q][w] # 0 => file'[q][w] # 0
      BY <1>4, <2>1
    <2>5. LandedInv'
      <3>1. Landed(s)'
        BY <1>2, <1>4, <2>1 DEF Landed
      <3>2. \A t \in Sessions : Landed(t) => Landed(t)'
        BY <1>0, <1>2, <2>4, SessionAssumption DEF Landed, TypeOK
      <3>3. \A t \in Sessions : Evidence(t)' => Landed(t)'
        BY <1>0, <1>2, <1>4, <2>2, <3>1, <3>2 DEF LandedInv, Evidence
      <3>4. /\ \A q \in Packs : ledger[q] # 0 => ledger[q] \in Versions
            /\ \A t \in Sessions, q \in Packs : seen[t][q] # 0 => seen[t][q] \in Versions
        <4>1. \A n \in 0..MaxVersion : n # 0 => n \in Versions
          BY BoundAssumption DEF Versions
        <4>2. /\ \A q \in Packs : ledger[q] \in 0..MaxVersion
              /\ \A t \in Sessions, q \in Packs : seen[t][q] \in 0..MaxVersion
          BY <1>0 DEF TypeOK
        <4> QED
          BY <4>1, <4>2
      <3> QED
        BY <1>0, <1>1, <2>4, <3>3, <3>4 DEF LandedInv
    <2>6. OwnInv'
      <3>1. SUFFICES ASSUME ~crossed'
                     PROVE  OwnInv'
        BY DEF OwnInv
      <3>2. ~crossed
        BY <1>2, <3>1
      <3>3. \A t \in Sessions \ {s} : step'[t] = "idle"
        BY <1>0, <1>2, <2>2, <3>2 DEF OwnInv
      <3>4. staged[p] = v
        BY <1>0, <1>3, <3>2 DEF OwnInv
      <3>5. \A q \in Packs, w \in Versions : file'[q][w] \in {0, w}
        BY <1>0, <2>1, <3>2, <3>4 DEF OwnInv
      <3> QED
        BY <2>2, <3>3, <3>5 DEF OwnInv
    <2> QED
      BY <1>2, <2>3, <2>5, <2>6 DEF TransferInv
  <1>5. CASE staged[p] = 0 /\ Finish(s, "failed") /\ UNCHANGED <<file, staged>>
    <2>1. /\ step' \in [Sessions -> Applying \union {"idle"}] /\ step'[s] = "idle"
          /\ health' \in [Sessions -> {"none", "applied", "failed"}] /\ health'[s] = "failed"
          /\ \A t \in Sessions \ {s} : step'[t] = step[t] /\ health'[t] = health[t]
      BY <1>2, <1>5 DEF Finish
    <2>2. TypeOK'
      BY <1>0, <1>1, <1>2, <1>5, <2>1 DEF TypeOK
    <2>3. \A t \in Sessions : Evidence(t)' => Evidence(t)
      BY <1>2, <2>1 DEF Evidence
    <2>4. LandedInv'
      BY <1>0, <1>1, <1>2, <1>5, <2>3, LandedKept
    <2>5. OwnInv'
      BY <1>0, <1>2, <1>3, <1>5, <2>1, OwnKept
    <2> QED
      BY <1>2, <2>2, <2>4, <2>5 DEF TransferInv
  <1> QED
    BY <1>4, <1>5 DEF ApplyRename

(* The snapshot of the ledger names files that exist.                      *)
LEMMA ApplyReadInv ==
  ASSUME TransferInv, NEW s \in Sessions, ApplyRead(s)
  PROVE  TransferInv'
  <1>0. TypeOK /\ LandedInv /\ OwnInv
    BY DEF TransferInv
  <1>1. UNCHANGED <<staged, file, ledger, faults, health>> /\ step[s] = "read"
    BY DEF ApplyRead, world, disk
  <1>2. /\ UNCHANGED <<tpc, lpc, sig, bound, sent, up, down, inbox, armed, got,
                       ver, size, upset, crossed>>
        /\ step \in [Sessions -> Applying \union {"idle"}]
        /\ BindInv'
    BY ApplyFrame
  <1>3. /\ seen' \in [Sessions -> [Packs -> 0..MaxVersion]]
        /\ \A t \in Sessions : seen'[t] \in {seen[t], ledger}
        /\ step' \in [Sessions -> Applying \union {"idle"}] /\ step'[s] = "write"
        /\ \A t \in Sessions \ {s} : step'[t] = step[t]
    BY <1>0, <1>2 DEF ApplyRead, TypeOK, Applying
  <1>4. TypeOK'
    BY <1>0, <1>1, <1>2, <1>3 DEF TypeOK
  <1>5. LandedInv'
    <2>1. \A t \in Sessions : Evidence(t)' => Evidence(t)
      BY <1>1, <1>2, <1>3 DEF Evidence
    <2>2. \A t \in Sessions, q \in Packs : seen'[t][q] # 0 => file[q][seen'[t][q]] # 0
      BY <1>0, <1>3 DEF LandedInv
    <2> QED
      BY <1>0, <1>1, <1>2, <2>1, <2>2 DEF LandedInv, Landed
  <1>6. OwnInv'
    BY <1>0, <1>1, <1>2, <1>3, OwnKept
  <1> QED
    BY <1>2, <1>4, <1>5, <1>6 DEF TransferInv

(* The ledger written names the snapshot's files and the one just made.    *)
LEMMA ApplyWriteInv ==
  ASSUME TransferInv, NEW s \in Sessions, ApplyWrite(s)
  PROVE  TransferInv'
  <1>0. TypeOK /\ LandedInv /\ OwnInv
    BY DEF TransferInv
  <1>1. UNCHANGED <<seen, staged, file, faults>> /\ step[s] = "write"
    BY DEF ApplyWrite, world
  <1>2. /\ UNCHANGED <<tpc, lpc, sig, bound, sent, up, down, inbox, armed, got,
                       ver, size, upset, crossed>>
        /\ step \in [Sessions -> Applying \union {"idle"}]
        /\ health \in [Sessions -> {"none", "applied", "failed"}]
        /\ ver[s] \in Versions /\ PackOf[s] \in Packs /\ BindInv'
    BY ApplyFrame
  <1>3. /\ step' \in [Sessions -> Applying \union {"idle"}] /\ step'[s] = "idle"
        /\ health' \in [Sessions -> {"none", "applied", "failed"}]
        /\ \A t \in Sessions \ {s} : step'[t] = step[t] /\ health'[t] = health[t]
    BY <1>2 DEF ApplyWrite, Finish
  <1>4. /\ ledger' \in [Packs -> 0..MaxVersion]
        /\ \A q \in Packs : ledger'[q] = seen[s][q] \/ (q = PackOf[s] /\ ledger'[q] = ver[s])
    <2>1. seen[s] \in [Packs -> 0..MaxVersion] /\ ver[s] \in 0..MaxVersion
      BY <1>0, <1>2, BoundAssumption DEF TypeOK, Versions
    <2> QED
      BY <2>1 DEF ApplyWrite, Recorded
  <1>5. TypeOK'
    BY <1>0, <1>1, <1>2, <1>3, <1>4 DEF TypeOK
  <1>6. LandedInv'
    <2>1. Landed(s)
      BY <1>0, <1>1 DEF LandedInv, Evidence
    <2>2. \A t \in Sessions : Evidence(t)' => Landed(t)
      BY <1>0, <1>2, <1>3, <2>1 DEF LandedInv, Evidence
    <2>3. \A q \in Packs : ledger'[q] # 0 => file[q][ledger'[q]] # 0
      BY <1>0, <1>4, <2>1 DEF LandedInv, Landed
    <2> QED
      BY <1>0, <1>1, <1>2, <2>2, <2>3 DEF LandedInv, Landed
  <1>7. OwnInv'
    BY <1>0, <1>1, <1>2, <1>3, OwnKept
  <1> QED
    BY <1>2, <1>5, <1>6, <1>7 DEF TransferInv

(* A failed apply is no evidence of anything.                              *)
LEMMA ApplyFailsInv ==
  ASSUME TransferInv, NEW s \in Sessions, ApplyFails(s)
  PROVE  TransferInv'
  <1>0. TypeOK /\ LandedInv /\ OwnInv
    BY DEF TransferInv
  <1>1. UNCHANGED <<seen, staged, file, ledger>> /\ faults' \in Nat
    BY <1>0 DEF ApplyFails, Fault, TypeOK, disk
  <1>2. /\ UNCHANGED <<tpc, lpc, sig, bound, sent, up, down, inbox, armed, got,
                       ver, size, upset, crossed>>
        /\ step \in [Sessions -> Applying \union {"idle"}]
        /\ health \in [Sessions -> {"none", "applied", "failed"}] /\ BindInv'
    BY ApplyFrame
  <1>3. /\ step' \in [Sessions -> Applying \union {"idle"}] /\ step'[s] = "idle"
        /\ health' \in [Sessions -> {"none", "applied", "failed"}] /\ health'[s] = "failed"
        /\ \A t \in Sessions \ {s} : step'[t] = step[t] /\ health'[t] = health[t]
    BY <1>2 DEF ApplyFails, Finish
  <1>4. TypeOK'
    BY <1>0, <1>1, <1>2, <1>3 DEF TypeOK
  <1>5. \A t \in Sessions : Evidence(t)' => Evidence(t)
    BY <1>2, <1>3 DEF Evidence
  <1>6. LandedInv'
    BY <1>0, <1>1, <1>2, <1>5, LandedKept
  <1>7. OwnInv'
    BY <1>0, <1>1, <1>2, <1>3, OwnKept
  <1> QED
    BY <1>2, <1>4, <1>6, <1>7 DEF TransferInv

-----------------------------------------------------------------------------
(* No frame is in flight and the directory is empty.                       *)
LEMMA TransferInit == Init => TransferInv
  <1> SUFFICES ASSUME Init
               PROVE  TransferInv
    OBVIOUS
  <1>1. TypeOK
    <2>1. size \in [Sessions -> Nat \ {0}]
      BY SessionAssumption DEF Init
    <2>2. /\ tpc \in [Sessions -> TeacherPC] /\ lpc \in [Sessions -> LearnerPC]
          /\ sig \in [Sessions -> {"none", "offer", "answer"}]
      BY DEF Init, TeacherPC, LearnerPC
    <2>3. /\ up \in [Sessions -> Seq(UpFrames)] /\ down \in [Sessions -> Seq(DownFrames)]
          /\ inbox \in [Sessions -> Seq(DownControl)]
      <3>1. \A S : <<>> \in Seq(S)
        BY EmptySeq
      <3> QED
        BY <3>1 DEF Init
    <2>4. /\ bound \in [Sessions -> SUBSET {"teacher", "learner"}]
          /\ sent \in [Sessions -> Nat] /\ armed \in [Sessions -> BOOLEAN]
          /\ got \in [Sessions -> SUBSET Nat]
          /\ step \in [Sessions -> Applying \union {"idle"}]
          /\ health \in [Sessions -> {"none", "applied", "failed"}]
      BY DEF Init
    <2>5. 0 \in 0..MaxVersion
      BY BoundAssumption
    <2>6. /\ seen \in [Sessions -> [Packs -> 0..MaxVersion]]
          /\ staged \in [Packs -> 0..MaxVersion] /\ ledger \in [Packs -> 0..MaxVersion]
          /\ file \in [Packs -> [Versions -> 0..MaxVersion]]
      BY <2>5 DEF Init
    <2>7. /\ ver \in [Sessions -> Versions]
          /\ faults \in Nat /\ upset \in BOOLEAN /\ crossed \in BOOLEAN
      BY DEF Init
    <2> QED
      BY <2>1, <2>2, <2>3, <2>4, <2>6, <2>7 DEF TypeOK
  <1>2. \A s \in Sessions : Frames(up[s]) = {} /\ Frames(down[s]) = {}
    BY DEF Init, Frames
  <1>3. LandedInv
    BY <1>2 DEF Init, LandedInv, Evidence
  <1>4. OwnInv
    BY DEF Init, OwnInv
  <1>5. BindInv
    BY <1>2 DEF Init, BindInv, ChunkIn
  <1> QED
    BY <1>1, <1>3, <1>4, <1>5 DEF TransferInv

(* A stuttering step changes none of the variables.                        *)
LEMMA TransferStutter == TransferInv /\ UNCHANGED vars => TransferInv'
  <1> SUFFICES ASSUME TransferInv, UNCHANGED vars
               PROVE  TransferInv'
    OBVIOUS
  <1>1. UNCHANGED <<tpc, lpc, sig, bound, sent, up, down, inbox, armed, got, step, seen,
                    health, staged, file, ledger, ver, size, faults, upset, crossed>>
    BY DEF vars, drivers, wire, receiver, disk, given, world
  <1>2. TypeOK'
    BY <1>1 DEF TransferInv, TypeOK
  <1>3. LandedInv'
    BY <1>1 DEF TransferInv, LandedInv, Landed, Evidence
  <1>4. OwnInv'
    BY <1>1 DEF TransferInv, OwnInv
  <1>5. BindInv'
    BY <1>1 DEF TransferInv, BindInv, ChunkIn
  <1> QED
    BY <1>2, <1>3, <1>4, <1>5 DEF TransferInv

(* One lemma per action.                                                   *)
LEMMA TransferNext == TransferInv /\ [Next]_vars => TransferInv'
  <1> SUFFICES ASSUME TransferInv, Next
               PROVE  TransferInv'
    BY TransferStutter
  <1>1. PICK s \in Sessions : Step(s) \/ LearnerAccept(s) \/ Faulty(s)
    BY DEF Next
  <1>2. CASE TeacherStep(s)
    BY <1>2, TeacherOfferInv, TeacherGiveUpInv, TeacherOpenInv, TeacherOtherFrameInv,
       TeacherHelloInv, TeacherReadyInv, TeacherSealInv, TeacherSendInv,
       TeacherAppliedInv, TeacherCompleteInv, TeacherTimeoutInv DEF TeacherStep
  <1>3. CASE LearnerStep(s)
    BY <1>3, LearnerAnswerInv, LearnerOpenInv, LearnerHelloInv, LearnerArmInv,
       LearnerReadyInv, LearnerPollInv, LearnerAckInv, LearnerClosedInv,
       LearnerTimeoutInv DEF LearnerStep
  <1>4. CASE HandlerStep(s)
    BY <1>4, ReceiveInv, ApplyCheckInv, ApplyStageInv, ApplyRenameInv, ApplyReadInv,
       ApplyWriteInv DEF HandlerStep
  <1>5. CASE LearnerAccept(s)
    BY <1>5, LearnerAcceptInv
  <1>6. CASE Faulty(s)
    BY <1>6, ApplyFailsInv, TeacherDiesInv, LearnerDiesInv DEF Faulty
  <1> QED
    BY <1>1, <1>2, <1>3, <1>4, <1>5, <1>6 DEF Step

(* The invariant holds in every reachable state.                           *)
THEOREM TransferInvariant == Spec => []TransferInv
  BY TransferInit, TransferNext, PTL DEF Spec

(* Type correctness, for every number of sessions, packs and chunks.       *)
THEOREM TypeCorrect == Spec => []TypeOK
  <1>1. TransferInv => TypeOK
    BY DEF TransferInv
  <1> QED
    BY <1>1, TransferInvariant, PTL

(* When run_teacher_session returns Ok, the learner's directory holds the  *)
(* applied file, and the right version unless two applies overlapped.      *)
THEOREM Receipts == Spec => []ReceiptTrue
  <1>1. TransferInv => ReceiptTrue
    <2> SUFFICES ASSUME TransferInv, NEW s \in Sessions, tpc[s] = "ok"
                 PROVE  Landed(s) /\ (~crossed => file[PackOf[s]][ver[s]] = ver[s])
      BY DEF ReceiptTrue
    <2>1. Landed(s)
      BY DEF TransferInv, LandedInv, Evidence
    <2>2. PackOf[s] \in Packs /\ ver[s] \in Versions
      BY SessionAssumption DEF TransferInv, TypeOK
    <2>3. ~crossed => file[PackOf[s]][ver[s]] \in {0, ver[s]}
      BY <2>2 DEF TransferInv, OwnInv
    <2> QED
      BY <2>1, <2>3 DEF Landed
  <1> QED
    BY <1>1, TransferInvariant, PTL

(* No chunk is sent before both hellos are verified and the receiver is    *)
(* armed.                                                                  *)
THEOREM BoundBeforeBytes == Spec => []BindFirst
  <1>1. TransferInv => BindFirst
    <2> SUFFICES ASSUME TransferInv, NEW s \in Sessions, NEW i \in 1..Len(down[s]),
                        down[s][i].kind = "chunk"
                 PROVE  armed[s] /\ bound[s] = {"teacher", "learner"}
      BY DEF BindFirst
    <2>1. ChunkIn(down[s])
      BY DEF ChunkIn, Frames
    <2> QED
      BY <2>1 DEF TransferInv, BindInv
  <1> QED
    BY <1>1, TransferInvariant, PTL

-----------------------------------------------------------------------------
(* Both sides return the same outcome, and the ledger never goes back.     *)

(* The teacher has acknowledged an apply, and the learner has yet to see it. *)
AckIn(s) ==
  "AppliedAck" \in Frames(inbox[s]) \/ \E f \in Frames(down[s]) : f.kind = "AppliedAck"

(* Between the learner's last send and the teacher's close, neither side   *)
(* can end with an error: whoever waits has its frame on the way.          *)
AgreeAt(s) ==
  /\ "Failed" \in Frames(up[s]) => lpc[s] = "err"
  /\ "Applied" \in Frames(up[s]) \/ AckIn(s) => lpc[s] \in Ended \union {"waitAck", "waitClosed"}
  /\ ~upset =>
       /\ "Complete" \in Frames(up[s]) \/ tpc[s] = "ok" => lpc[s] \in {"waitClosed", "ok"}
       /\ lpc[s] = "ok" => tpc[s] = "ok"
       /\ lpc[s] = "waitClosed" =>
            tpc[s] = "ok" \/ (tpc[s] = "waitComplete" /\ "Complete" \in Frames(up[s]))
       /\ lpc[s] = "waitAck" /\ AckIn(s) => tpc[s] = "waitComplete"

AgreeInv == \A s \in Sessions : AgreeAt(s)

(* Until two applies overlap, a flip is for a newer version and holds the  *)
(* ledger as it is.                                                        *)
FlipInv ==
  ~crossed => \A s \in Sessions :
    /\ step[s] \in {"stage", "rename", "read", "write"} => ledger[PackOf[s]] < ver[s]
    /\ step[s] = "write" => seen[s] = ledger

(* The drivers leave the ledger and its copies alone, and start no apply.  *)
LEMMA TeacherKeepsFlip ==
  ASSUME NEW s \in Sessions, TeacherStep(s) \/ TeacherDies(s)
  PROVE  UNCHANGED <<step, ledger, seen, ver, crossed>>
  BY DEF TeacherStep, TeacherOffer, TeacherGiveUp, TeacherOpen, TeacherOtherFrame, TeacherHello,
         TeacherReady, TeacherSeal, TeacherSend, TeacherApplied, TeacherComplete, TeacherTimeout,
         TeacherDies, receiver, disk, given, world

LEMMA LearnerKeepsFlip ==
  ASSUME TypeOK, NEW s \in Sessions, LearnerStep(s) \/ LearnerAccept(s) \/ LearnerDies(s)
  PROVE  /\ UNCHANGED <<ledger, seen, ver, crossed>>
         /\ \A t \in Sessions : step'[t] \in {step[t], "idle"}
  <1>1. UNCHANGED <<ledger, seen, ver, crossed>>
    BY DEF LearnerStep, LearnerAnswer, LearnerOpen, LearnerHello, LearnerArm, LearnerReady,
           LearnerPoll, LearnerAck, LearnerClosed, LearnerTimeout, LearnerAccept, LearnerDies,
           receiver, disk, given, world
  <1>2. step' = step \/ step' = [step EXCEPT ![s] = "idle"]
    BY DEF LearnerStep, LearnerAnswer, LearnerOpen, LearnerHello, LearnerArm, LearnerReady,
           LearnerPoll, LearnerAck, LearnerClosed, LearnerTimeout, LearnerAccept, LearnerDies,
           SendUp, StopLearner, receiver
  <1> QED
    BY <1>1, <1>2 DEF TypeOK

LEMMA FlipKept ==
  ASSUME FlipInv, UNCHANGED <<ledger, seen, ver>>, crossed => crossed',
         \A t \in Sessions : step'[t] \in {step[t], "idle", "check"}
  PROVE  FlipInv'
  BY DEF FlipInv

(* A flip begins for a newer version, reads the ledger, and is alone.      *)
LEMMA FlipStep ==
  ASSUME TransferInv, FlipInv, [Next]_vars
  PROVE  FlipInv' /\ (~crossed' => \A p \in Packs : ledger'[p] >= ledger[p])
  <1>0. TypeOK /\ OwnInv
    BY DEF TransferInv
  <1>a. /\ step \in [Sessions -> Applying \union {"idle"}] /\ ledger \in [Packs -> 0..MaxVersion]
        /\ seen \in [Sessions -> [Packs -> 0..MaxVersion]] /\ MaxVersion \in Nat
        /\ \A s \in Sessions : ver[s] \in Versions /\ PackOf[s] \in Packs
    BY <1>0, SessionAssumption, BoundAssumption DEF TypeOK
  <1>b. ledger' = ledger => \A p \in Packs : ledger'[p] >= ledger[p]
    BY <1>a
  <1>1. ASSUME NEW s \in Sessions, TeacherStep(s) \/ TeacherDies(s)
        PROVE  FlipInv' /\ ledger' = ledger
    <2>1. UNCHANGED <<step, ledger, seen, ver, crossed>>
      BY <1>1, TeacherKeepsFlip
    <2> QED
      BY <2>1, FlipKept
  <1>2. ASSUME NEW s \in Sessions, LearnerStep(s) \/ LearnerAccept(s) \/ LearnerDies(s)
        PROVE  FlipInv' /\ ledger' = ledger
    BY <1>0, <1>2, LearnerKeepsFlip, FlipKept
  <1>3. ASSUME NEW s \in Sessions, Receive(s)
        PROVE  FlipInv' /\ ledger' = ledger
    <2>1. UNCHANGED <<ledger, seen, ver>> /\ (crossed => crossed')
      BY <1>3 DEF Receive, disk, given
    <2>2. step' = step \/ step' = [step EXCEPT ![s] = "check"]
      BY <1>3 DEF Receive
    <2>3. \A t \in Sessions : step'[t] \in {step[t], "idle", "check"}
      BY <1>a, <2>2
    <2> QED
      BY <2>1, <2>3, FlipKept
  <1>4. ASSUME NEW s \in Sessions, ApplyFails(s)
        PROVE  FlipInv' /\ ledger' = ledger
    <2>1. UNCHANGED <<ledger, seen, ver, crossed>> /\ step' = [step EXCEPT ![s] = "idle"]
      BY <1>4 DEF ApplyFails, Finish, disk, given
    <2>3. \A t \in Sessions : step'[t] \in {step[t], "idle", "check"}
      BY <1>a, <2>1
    <2> QED
      BY <2>1, <2>3, FlipKept
  <1>5. ASSUME NEW s \in Sessions, ApplyCheck(s)
        PROVE  FlipInv' /\ ledger' = ledger
    <2>1. UNCHANGED <<ledger, seen, ver, crossed>>
      BY <1>5 DEF ApplyCheck, disk, given, world
    <2>2. \/ step' = [step EXCEPT ![s] = "idle"]
          \/ step' = [step EXCEPT ![s] = "stage"] /\ Verdict(ver[s], ledger[PackOf[s]]) = "newer"
      BY <1>5 DEF ApplyCheck, Finish
    <2>3. Verdict(ver[s], ledger[PackOf[s]]) = "newer" => ledger[PackOf[s]] < ver[s]
      <3>1. ver[s] \in 1..MaxVersion /\ ledger[PackOf[s]] \in 0..MaxVersion
        BY <1>a DEF Versions
      <3>2. ver[s] \in Nat /\ ledger[PackOf[s]] \in Nat
        BY <1>a, <3>1
      <3> QED
        BY <3>2 DEF Verdict
    <2>4. /\ step'[s] = "idle" \/ (step'[s] = "stage" /\ ledger[PackOf[s]] < ver[s])
          /\ \A t \in Sessions \ {s} : step'[t] = step[t]
      BY <1>a, <2>2, <2>3
    <2> QED
      BY <2>1, <2>4 DEF FlipInv
  <1>6. ASSUME NEW s \in Sessions, ApplyStage(s) \/ ApplyRename(s)
        PROVE  FlipInv' /\ ledger' = ledger
    <2>1. UNCHANGED <<ledger, seen, ver, crossed>> /\ step[s] \in {"stage", "rename"}
      BY <1>6 DEF ApplyStage, ApplyRename, given, world
    <2>2. \E l \in {"rename", "read", "idle"} : step' = [step EXCEPT ![s] = l]
      BY <1>6 DEF ApplyStage, ApplyRename, Finish
    <2>3. /\ step'[s] \in {"rename", "read", "idle"}
          /\ \A t \in Sessions \ {s} : step'[t] = step[t]
      BY <1>a, <2>2
    <2> QED
      BY <2>1, <2>3 DEF FlipInv
  <1>7. ASSUME NEW s \in Sessions, ApplyRead(s)
        PROVE  FlipInv' /\ ledger' = ledger
    <2>1. UNCHANGED <<ledger, ver, crossed>> /\ step[s] = "read"
      BY <1>7 DEF ApplyRead, disk, given, world
    <2>2. /\ seen'[s] = ledger /\ step'[s] = "write"
          /\ \A t \in Sessions \ {s} : seen'[t] = seen[t] /\ step'[t] = step[t]
      BY <1>7, <1>a DEF ApplyRead
    <2> QED
      BY <2>1, <2>2 DEF FlipInv
  <1>8. ASSUME NEW s \in Sessions, ApplyWrite(s)
        PROVE  FlipInv' /\ (~crossed' => \A p \in Packs : ledger'[p] >= ledger[p])
    <2>1. UNCHANGED <<seen, ver, crossed>> /\ step[s] = "write"
      BY <1>8 DEF ApplyWrite, given, world
    <2>2. /\ ledger' = [seen[s] EXCEPT ![PackOf[s]] = ver[s]]
          /\ step' = [step EXCEPT ![s] = "idle"]
      BY <1>8 DEF ApplyWrite, Recorded, Finish
    <2> SUFFICES ASSUME ~crossed
                 PROVE  FlipInv' /\ \A p \in Packs : ledger'[p] >= ledger[p]
      BY <2>1 DEF FlipInv
    <2>3. \A t \in Sessions : step'[t] = "idle"
      BY <1>0, <1>a, <2>1, <2>2 DEF OwnInv
    <2>4. seen[s] = ledger /\ ledger[PackOf[s]] < ver[s]
      BY <2>1 DEF FlipInv
    <2>5. \A p \in Packs : ledger'[p] = IF p = PackOf[s] THEN ver[s] ELSE ledger[p]
      BY <1>a, <2>2, <2>4
    <2>6. \A p \in Packs : ledger'[p] >= ledger[p]
      BY <1>a, <2>4, <2>5 DEF Versions
    <2> QED
      BY <2>3, <2>6 DEF FlipInv
  <1>9. UNCHANGED vars => FlipInv' /\ ledger' = ledger
    <2> SUFFICES ASSUME UNCHANGED vars PROVE FlipInv' /\ ledger' = ledger
      OBVIOUS
    <2>1. UNCHANGED <<step, ledger, seen, ver, crossed>>
      BY DEF vars, receiver, disk, given, world
    <2> QED
      BY <2>1, FlipKept
  <1> QED
    BY <1>b, <1>1, <1>2, <1>3, <1>4, <1>5, <1>6, <1>7, <1>8, <1>9
       DEF Next, Step, HandlerStep, Faulty

(* versions.json never names an older version than it did, for every       *)
(* number of sessions and packs, unless two applies overlapped.            *)
THEOREM LedgerForward == Spec => LedgerMonotone
  <1>1. Init => FlipInv
    BY DEF Init, FlipInv
  <1>2. TransferInv /\ FlipInv /\ [Next]_vars => FlipInv'
    BY FlipStep
  <1>3. TransferInv /\ FlipInv /\ [Next]_vars
          => [~crossed' => \A p \in Packs : ledger'[p] >= ledger[p]]_vars
    BY FlipStep
  <1> QED
    BY <1>1, <1>2, <1>3, TransferInvariant, PTL DEF Spec, LedgerMonotone

-----------------------------------------------------------------------------
(* A receive leaves every frame but the one it takes.                      *)
LEMMA TailKeeps ==
  ASSUME NEW S, NEW q \in Seq(S), q # <<>>
  PROVE  Frames(q) \subseteq Frames(Tail(q)) \union {Head(q)}
  <1>1. /\ Len(Tail(q)) = Len(q) - 1 /\ Len(q) \in Nat \ {0} /\ Head(q) = q[1]
        /\ \A i \in 1..Len(Tail(q)) : Tail(q)[i] = q[i + 1]
    BY HeadTailProperties, EmptySeq
  <1>2. \A i \in 1..Len(q) : i = 1 \/ (i - 1 \in 1..Len(Tail(q)) /\ Tail(q)[i - 1] = q[i])
    BY <1>1
  <1> QED
    BY <1>1, <1>2 DEF Frames

(* An empty queue has no frame.                                            *)
LEMMA NoFrames == Frames(<<>>) = {}
  BY DEF Frames

(* The drivers, the channel and the inbox of session t are as they were.   *)
Same(t) ==
  /\ tpc'[t] = tpc[t] /\ lpc'[t] = lpc[t] /\ up'[t] = up[t]
  /\ down'[t] = down[t] /\ inbox'[t] = inbox[t]

LEMMA SameAgrees ==
  ASSUME NEW t, AgreeAt(t), Same(t), upset => upset'
  PROVE  AgreeAt(t)'
  BY DEF AgreeAt, AckIn, Same

(* A step of one session leaves the frames and drivers of the others.      *)
LEMMA TeacherSame ==
  ASSUME TypeOK, NEW s \in Sessions, TeacherStep(s) \/ TeacherDies(s)
  PROVE  \A t \in Sessions \ {s} : Same(t)
  <1>1. /\ tpc \in [Sessions -> TeacherPC] /\ up \in [Sessions -> Seq(UpFrames)]
        /\ down \in [Sessions -> Seq(DownFrames)]
    BY DEF TypeOK
  <1>2. UNCHANGED <<lpc, inbox>>
    BY DEF TeacherStep, TeacherOffer, TeacherGiveUp, TeacherOpen, TeacherOtherFrame, TeacherHello,
           TeacherReady, TeacherSeal, TeacherSend, TeacherApplied, TeacherComplete, TeacherTimeout,
           TeacherDies, wire
  <1>3. up' = up \/ \E q : up' = [up EXCEPT ![s] = q]
    BY DEF TeacherStep, TeacherOffer, TeacherGiveUp, TeacherOpen, TeacherOtherFrame, TeacherHello,
           TeacherReady, TeacherSeal, TeacherSend, TeacherApplied, TeacherComplete, TeacherTimeout,
           TeacherDies, TeacherGets, wire
  <1>4. tpc' = tpc \/ \E q : tpc' = [tpc EXCEPT ![s] = q]
    BY DEF TeacherStep, TeacherOffer, TeacherGiveUp, TeacherOpen, TeacherOtherFrame, TeacherHello,
           TeacherReady, TeacherSeal, TeacherSend, TeacherApplied, TeacherComplete, TeacherTimeout,
           TeacherDies, SendDown, StopTeacher
  <1>5. down' = down \/ \E q : down' = [down EXCEPT ![s] = q]
    BY DEF TeacherStep, TeacherOffer, TeacherGiveUp, TeacherOpen, TeacherOtherFrame, TeacherHello,
           TeacherReady, TeacherSeal, TeacherSend, TeacherApplied, TeacherComplete, TeacherTimeout,
           TeacherDies, SendDown, StopTeacher, wire
  <1> QED
    BY <1>1, <1>2, <1>3, <1>4, <1>5 DEF Same

LEMMA LearnerSame ==
  ASSUME TypeOK, NEW s \in Sessions, LearnerStep(s) \/ LearnerAccept(s) \/ LearnerDies(s)
  PROVE  \A t \in Sessions \ {s} : Same(t)
  <1>1. /\ lpc \in [Sessions -> LearnerPC] /\ up \in [Sessions -> Seq(UpFrames)]
        /\ inbox \in [Sessions -> Seq(DownControl)]
    BY DEF TypeOK
  <1>2. UNCHANGED <<tpc, down>>
    BY DEF LearnerStep, LearnerAnswer, LearnerOpen, LearnerHello, LearnerArm, LearnerReady,
           LearnerPoll, LearnerAck, LearnerClosed, LearnerTimeout, LearnerAccept, LearnerDies, wire
  <1>3. up' = up \/ \E q : up' = [up EXCEPT ![s] = q]
    BY DEF LearnerStep, LearnerAnswer, LearnerOpen, LearnerHello, LearnerArm, LearnerReady,
           LearnerPoll, LearnerAck, LearnerClosed, LearnerTimeout, LearnerAccept, LearnerDies,
           SendUp, StopLearner, wire
  <1>4. lpc' = lpc \/ \E q : lpc' = [lpc EXCEPT ![s] = q]
    BY DEF LearnerStep, LearnerAnswer, LearnerOpen, LearnerHello, LearnerArm, LearnerReady,
           LearnerPoll, LearnerAck, LearnerClosed, LearnerTimeout, LearnerAccept, LearnerDies,
           SendUp, StopLearner
  <1>5. inbox' = inbox \/ \E q : inbox' = [inbox EXCEPT ![s] = q]
    BY DEF LearnerStep, LearnerAnswer, LearnerOpen, LearnerHello, LearnerArm, LearnerReady,
           LearnerPoll, LearnerAck, LearnerClosed, LearnerTimeout, LearnerAccept, LearnerDies, wire
  <1> QED
    BY <1>1, <1>2, <1>3, <1>4, <1>5 DEF Same

(* A frame taken off the channel reaches the inbox, if it is a control     *)
(* frame: no acknowledgement appears.                                      *)
LEMMA ReceiveAgrees ==
  ASSUME TypeOK, AgreeInv, NEW s \in Sessions, Receive(s)
  PROVE  AgreeInv'
  <1>1. /\ down \in [Sessions -> Seq(DownFrames)] /\ inbox \in [Sessions -> Seq(DownControl)]
        /\ down[s] \in Seq(DownFrames) /\ inbox[s] \in Seq(DownControl) /\ down[s] # <<>>
    BY DEF TypeOK, Receive
  <1>2. UNCHANGED <<tpc, lpc, up, upset>>
    BY DEF Receive, drivers
  <1> DEFINE f == Head(down[s])
  <1>3. /\ f \in DownFrames /\ f \in Frames(down[s])
        /\ Frames(Tail(down[s])) \subseteq Frames(down[s])
    BY <1>1, TailFrames
  <1>4. /\ down'[s] = Tail(down[s])
        /\ \A t \in Sessions \ {s} : down'[t] = down[t] /\ inbox'[t] = inbox[t]
        /\ inbox'[s] = inbox[s] \/ (f.kind # "chunk" /\ inbox'[s] = Append(inbox[s], f.kind))
    BY <1>1 DEF Receive
  <1>5. f.kind # "chunk" => f.kind \in DownControl
    BY <1>3 DEF DownFrames
  <1> HIDE DEF f
  <1>6. Frames(inbox'[s]) \subseteq Frames(inbox[s]) \union {f.kind}
    <2>1. CASE inbox'[s] = inbox[s]
      BY <2>1
    <2>2. CASE f.kind # "chunk" /\ inbox'[s] = Append(inbox[s], f.kind)
      <3>1. f.kind \in DownControl
        BY <1>5, <2>2
      <3>2. Frames(Append(inbox[s], f.kind)) = Frames(inbox[s]) \union {f.kind}
        BY <1>1, <3>1, AppendFrames
      <3> QED
        BY <2>2, <3>2
    <2> QED
      BY <1>4, <2>1, <2>2
  <1>7. AckIn(s)' => AckIn(s)
    BY <1>3, <1>4, <1>6 DEF AckIn
  <1>8. AgreeAt(s)'
    BY <1>2, <1>7 DEF AgreeAt, AgreeInv
  <1>9. \A t \in Sessions \ {s} : AgreeAt(t)'
    BY <1>2, <1>4, SameAgrees DEF Same, AgreeInv
  <1> QED
    BY <1>8, <1>9 DEF AgreeInv

(* While the teacher is neither done nor waiting for Complete, its steps   *)
(* that acknowledge nothing change nothing the learner relies on.          *)
LEMMA TeacherBusy ==
  ASSUME NEW s \in Sessions, AgreeAt(s), UNCHANGED upset,
         tpc[s] \notin {"ok", "waitComplete"}, tpc'[s] # "ok",
         lpc'[s] = lpc[s], inbox'[s] = inbox[s], Frames(up'[s]) \subseteq Frames(up[s]),
         \A f \in Frames(down'[s]) : f.kind = "AppliedAck" => f \in Frames(down[s])
  PROVE  AgreeAt(s)'
  <1>1. AckIn(s)' => AckIn(s)
    BY DEF AckIn
  <1> QED
    BY <1>1 DEF AgreeAt, Ended

(* The steps up to the last chunk.                                         *)
LEMMA TeacherEarlyAgrees ==
  ASSUME TypeOK, NEW s \in Sessions, AgreeAt(s),
         \/ TeacherOffer(s) \/ TeacherGiveUp(s) \/ TeacherOpen(s) \/ TeacherHello(s)
         \/ TeacherReady(s) \/ TeacherSeal(s) \/ TeacherSend(s)
  PROVE  AgreeAt(s)'
  <1>1. /\ tpc \in [Sessions -> TeacherPC] /\ up \in [Sessions -> Seq(UpFrames)]
        /\ down \in [Sessions -> Seq(DownFrames)] /\ "err" \in Ended /\ down[s] \in Seq(DownFrames)
        /\ sent[s] \in Nat
    BY DEF TypeOK, Ended
  <1>2. UNCHANGED <<lpc, inbox, upset>>
    BY DEF TeacherOffer, TeacherGiveUp, TeacherOpen, TeacherHello, TeacherReady, TeacherSeal,
           TeacherSend, wire, world
  <1>3. tpc[s] \notin {"ok", "waitComplete"}
    BY <1>1 DEF TeacherOffer, TeacherGiveUp, TeacherOpen, TeacherHello, TeacherReady, TeacherSeal,
           TeacherSend, TeacherGets, Awaited, TeacherWaits
  <1>4. Frames(up'[s]) \subseteq Frames(up[s])
    <2>1. up' = up \/ (up[s] # <<>> /\ up' = [up EXCEPT ![s] = Tail(@)])
      BY DEF TeacherOffer, TeacherGiveUp, TeacherOpen, TeacherHello, TeacherReady, TeacherSeal,
             TeacherSend, TeacherGets, wire
    <2> QED
      BY <2>1, TakeUpEffect
  <1>5. /\ tpc'[s] # "ok"
        /\ \A f \in Frames(down'[s]) : f.kind = "AppliedAck" => f \in Frames(down[s])
    <2>1. CASE StopTeacher(s, "err")
      <3>1. tpc' = [tpc EXCEPT ![s] = "err"] /\ Frames(down'[s]) \subseteq Frames(down[s])
        BY <1>1, <2>1, StopTeacherEffect
      <3> QED
        BY <1>1, <3>1
    <2>2. CASE /\ UNCHANGED down
               /\ \E n \in {"waitAnswer", "waitReady", "seal", "send"} : tpc' = [tpc EXCEPT ![s] = n]
      BY <1>1, <2>2
    <2>3. CASE TeacherOpen(s)
      <3>1. Control("Hello") \in DownFrames /\ Control("Hello").kind = "Hello"
        BY DEF Control, DownFrames, DownControl
      <3>2. Frames(Append(down[s], Control("Hello"))) = Frames(down[s]) \union {Control("Hello")}
        BY <1>1, <3>1, AppendFrames
      <3>3. tpc'[s] = "waitHello" /\ down'[s] = Append(down[s], Control("Hello"))
        BY <1>1, <2>3 DEF TeacherOpen
      <3> QED
        BY <3>1, <3>2, <3>3
    <2>4. ASSUME NEW n \in {"waitApplied", "send"}, SendDown(s, Chunk(sent[s]), n)
          PROVE  /\ tpc'[s] # "ok"
                 /\ \A f \in Frames(down'[s]) : f.kind = "AppliedAck" => f \in Frames(down[s])
      <3> DEFINE c == Chunk(sent[s])
      <3>1. c \in DownFrames /\ c.kind = "chunk"
        BY <1>1 DEF Chunk, DownFrames
      <3>a. SendDown(s, c, n)
        BY <2>4
      <3> HIDE DEF c
      <3>2. n \in TeacherPC
        BY <2>4 DEF TeacherPC, TeacherBound, TeacherWaits
      <3>3. /\ \E r \in {n, "err"} : tpc' = [tpc EXCEPT ![s] = r]
            /\ Frames(down'[s]) \subseteq Frames(down[s]) \union {c}
        BY <3>a, <3>1, <3>2, SendDownEffect
      <3> QED
        BY <1>1, <2>4, <3>1, <3>3
    <2>5. TeacherOffer(s) \/ TeacherGiveUp(s) \/ TeacherHello(s) \/ TeacherReady(s)
            \/ TeacherSeal(s)
          => \/ StopTeacher(s, "err")
             \/ /\ UNCHANGED down
                /\ \E n \in {"waitAnswer", "waitReady", "seal", "send"} :
                     tpc' = [tpc EXCEPT ![s] = n]
      BY DEF TeacherOffer, TeacherGiveUp, TeacherHello, TeacherReady, TeacherSeal, wire
    <2>6. TeacherSend(s)
          => \/ StopTeacher(s, "err")
             \/ \E n \in {"waitApplied", "send"} : SendDown(s, Chunk(sent[s]), n)
      BY DEF TeacherSend
    <2> QED
      BY <2>1, <2>2, <2>3, <2>4, <2>5, <2>6
  <1> QED
    BY <1>2, <1>3, <1>4, <1>5, TeacherBusy

(* The teacher acknowledges an apply: the learner is in waitAck, or gone.  *)
LEMMA TeacherAppliedAgrees ==
  ASSUME TypeOK, NEW s \in Sessions, AgreeAt(s), TeacherApplied(s)
  PROVE  AgreeAt(s)'
  <1>1. /\ tpc \in [Sessions -> TeacherPC] /\ lpc[s] \in LearnerPC
    BY DEF TypeOK
  <1>2. UNCHANGED <<lpc, inbox, upset>>
    BY DEF TeacherApplied, world
  <1>3. /\ Frames(up'[s]) \subseteq Frames(up[s]) /\ "Applied" \in Frames(up[s])
        /\ up[s] # <<>> /\ tpc[s] = "waitApplied"
    <2>1. tpc[s] = "waitApplied" /\ up[s] # <<>> /\ Head(up[s]) = "Applied"
      BY DEF TeacherApplied, TeacherGets, Awaited, TeacherWaits
    <2> QED
      BY <2>1, TakeUpEffect DEF TeacherApplied, TeacherGets
  <1>4. lpc[s] \in Ended \union {"waitAck", "waitClosed"}
    BY <1>3 DEF AgreeAt
  <1>5. tpc'[s] = "waitComplete" \/ (tpc'[s] = "err" /\ lpc[s] \in Ended)
    BY <1>1 DEF TeacherApplied, SendDown, StopTeacher
  <1> QED
    BY <1>2, <1>3, <1>4, <1>5 DEF AgreeAt, Ended

LEMMA TeacherCompleteAgrees ==
  ASSUME TypeOK, NEW s \in Sessions, AgreeAt(s), TeacherComplete(s)
  PROVE  AgreeAt(s)'
  <1>1. tpc \in [Sessions -> TeacherPC] /\ "ok" \in Ended
    BY DEF TypeOK, Ended
  <1>2. UNCHANGED <<lpc, inbox, upset>>
    BY DEF TeacherComplete, world
  <1>3. tpc[s] = "waitComplete" /\ up[s] # <<>> /\ Head(up[s]) = "Complete"
    BY DEF TeacherComplete, TeacherGets, Awaited, TeacherWaits
  <1>4. Frames(up'[s]) \subseteq Frames(up[s]) /\ "Complete" \in Frames(up[s])
    BY <1>3, TakeUpEffect DEF TeacherComplete, TeacherGets
  <1>5. /\ tpc' = [tpc EXCEPT ![s] = "ok"] /\ Frames(down'[s]) \subseteq Frames(down[s])
    BY <1>1, StopTeacherEffect DEF TeacherComplete
  <1>6. tpc'[s] = "ok"
    BY <1>1, <1>5
  <1>7. AckIn(s)' => AckIn(s)
    BY <1>2, <1>5 DEF AckIn
  <1> QED
    BY <1>2, <1>3, <1>4, <1>6, <1>7 DEF AgreeAt, Ended

(* The teacher ends on Failed, which only a learner that ended with an     *)
(* error sends, and skips what it does not wait for, never Complete at the *)
(* last wait.                                                              *)
LEMMA TeacherOtherFrameAgrees ==
  ASSUME TypeOK, NEW s \in Sessions, AgreeAt(s), TeacherOtherFrame(s)
  PROVE  AgreeAt(s)'
  <1>1. /\ tpc \in [Sessions -> TeacherPC] /\ "err" \in Ended
        /\ up \in [Sessions -> Seq(UpFrames)] /\ up[s] \in Seq(UpFrames)
    BY DEF TypeOK, Ended
  <1>2. /\ UNCHANGED <<lpc, inbox, upset>> /\ up[s] # <<>> /\ tpc[s] \in TeacherWaits
        /\ up' = [up EXCEPT ![s] = Tail(@)] /\ Head(up[s]) # Awaited[tpc[s]]
    BY DEF TeacherOtherFrame, world
  <1>3. /\ Frames(up'[s]) \subseteq Frames(up[s]) /\ Head(up[s]) \in Frames(up[s])
        /\ Frames(up[s]) \subseteq Frames(up'[s]) \union {Head(up[s])}
    BY <1>1, <1>2, TakeUpEffect, TailKeeps
  <1>4. /\ Frames(down'[s]) \subseteq Frames(down[s])
        /\ tpc'[s] = tpc[s] \/ (tpc'[s] = "err" /\ Head(up[s]) = "Failed")
    <2>1. CASE Head(up[s]) = "Failed"
      <3>1. StopTeacher(s, "err")
        BY <2>1 DEF TeacherOtherFrame
      <3> QED
        BY <1>1, <2>1, <3>1, StopTeacherEffect
    <2>2. CASE Head(up[s]) # "Failed"
      BY <2>2 DEF TeacherOtherFrame
    <2> QED
      BY <2>1, <2>2
  <1>5. AckIn(s)' => AckIn(s)
    BY <1>2, <1>4 DEF AckIn
  <1>6. CASE tpc[s] = "waitComplete"
    <2>1. Head(up[s]) # "Complete"
      BY <1>2, <1>6 DEF Awaited
    <2> QED
      BY <1>2, <1>3, <1>4, <1>5, <1>6, <2>1 DEF AgreeAt, Ended
  <1>7. CASE tpc[s] # "waitComplete"
    <2>1. tpc[s] # "ok" /\ tpc'[s] # "ok"
      BY <1>2, <1>4 DEF TeacherWaits
    <2> QED
      BY <1>2, <1>3, <1>4, <1>7, <2>1, TeacherBusy
  <1> QED
    BY <1>6, <1>7

(* A deadline passes for certain only when nothing is on the way, so never *)
(* for a teacher whose peer is about to succeed.                           *)
LEMMA TeacherTimeoutAgrees ==
  ASSUME TypeOK, NEW s \in Sessions, AgreeAt(s), TeacherTimeout(s)
  PROVE  AgreeAt(s)'
  <1>1. /\ tpc \in [Sessions -> TeacherPC] /\ "err" \in Ended
    BY DEF TypeOK, Ended
  <1>2. /\ UNCHANGED <<lpc, inbox, up, upset>> /\ tpc[s] \notin Ended /\ Stalled(s)
    BY DEF TeacherTimeout, world
  <1>3. tpc'[s] = "err" /\ Frames(down'[s]) \subseteq Frames(down[s])
    BY <1>1, StopTeacherEffect DEF TeacherTimeout
  <1>4. AckIn(s)' => AckIn(s)
    BY <1>2, <1>3 DEF AckIn
  <1>5. CASE tpc[s] = "waitComplete"
    <2>1. up[s] = <<>>
      BY <1>2, <1>5 DEF Stalled, TeacherCanStep, TeacherWaits
    <2>2. lpc[s] = "waitAck" => ~AckIn(s)
      <3> SUFFICES ASSUME lpc[s] = "waitAck" PROVE ~AckIn(s)
        OBVIOUS
      <3>1. inbox[s] = <<>> /\ down[s] = <<>>
        BY <1>2 DEF Stalled, LearnerCanStep, Listening, Ended
      <3> QED
        BY <3>1, NoFrames DEF AckIn
    <2> QED
      BY <1>2, <1>3, <1>4, <1>5, <2>1, <2>2, NoFrames DEF AgreeAt, Ended
  <1>6. CASE tpc[s] # "waitComplete"
    BY <1>2, <1>3, <1>6, TeacherBusy DEF Ended
  <1> QED
    BY <1>5, <1>6

LEMMA TeacherDiesAgrees ==
  ASSUME TypeOK, NEW s \in Sessions, AgreeAt(s), TeacherDies(s)
  PROVE  AgreeAt(s)'
  <1>1. "err" \in Ended
    BY DEF Ended
  <1>2. UNCHANGED <<lpc, inbox, up>> /\ upset'
    BY DEF TeacherDies
  <1>3. Frames(down'[s]) \subseteq Frames(down[s])
    BY <1>1, StopTeacherEffect DEF TeacherDies
  <1>4. AckIn(s)' => AckIn(s)
    BY <1>2, <1>3 DEF AckIn
  <1> QED
    BY <1>2, <1>4 DEF AgreeAt

(* Before the learner has sent Applied nothing is acknowledged, so where   *)
(* it goes, short of success, is its own affair.                           *)
LEMMA LearnerBusy ==
  ASSUME NEW s \in Sessions, AgreeAt(s), UNCHANGED <<tpc, down>>, upset => upset',
         lpc[s] \notin Ended \union {"waitAck", "waitClosed"},
         lpc'[s] \notin {"ok", "waitClosed"},
         Frames(inbox'[s]) \subseteq Frames(inbox[s]),
         \A f \in Frames(up'[s]) :
           \/ f \in Frames(up[s]) \/ f \in {"Hello", "Ready"}
           \/ f = "Failed" /\ lpc'[s] = "err"
           \/ f = "Applied" /\ lpc'[s] \in {"waitAck", "err"}
  PROVE  AgreeAt(s)'
  <1>1. AckIn(s)' => AckIn(s)
    BY DEF AckIn
  <1>2. ~AckIn(s) /\ "Failed" \notin Frames(up[s]) /\ "Applied" \notin Frames(up[s])
    BY DEF AgreeAt, Ended
  <1>3. ~upset => "Complete" \notin Frames(up[s]) /\ tpc[s] # "ok"
    BY DEF AgreeAt, Ended
  <1> QED
    BY <1>1, <1>2, <1>3 DEF AgreeAt, Ended

(* The steps that leave the wire alone, and those that take the hello.     *)
LEMMA LearnerEarlyAgrees ==
  ASSUME TypeOK, NEW s \in Sessions, AgreeAt(s),
         \/ LearnerAccept(s) \/ LearnerAnswer(s) \/ LearnerArm(s)
         \/ LearnerOpen(s) \/ LearnerHello(s)
  PROVE  AgreeAt(s)'
  <1>1. /\ lpc \in [Sessions -> LearnerPC] /\ up \in [Sessions -> Seq(UpFrames)]
        /\ inbox \in [Sessions -> Seq(DownControl)] /\ "err" \in Ended
        /\ up[s] \in Seq(UpFrames) /\ inbox[s] \in Seq(DownControl)
    BY DEF TypeOK, Ended
  <1>2. UNCHANGED <<tpc, down, upset>>
    BY DEF LearnerAccept, LearnerAnswer, LearnerArm, LearnerOpen, LearnerHello, wire, world
  <1>3. lpc[s] \notin Ended \union {"waitAck", "waitClosed"}
    BY DEF LearnerAccept, LearnerAnswer, LearnerArm, LearnerOpen, LearnerHello, Ended
  <1>4. Frames(inbox'[s]) \subseteq Frames(inbox[s])
    <2>1. inbox' = inbox \/ (inbox[s] # <<>> /\ inbox' = [inbox EXCEPT ![s] = Tail(@)])
      BY DEF LearnerAccept, LearnerAnswer, LearnerArm, LearnerOpen, LearnerHello, wire
    <2>2. CASE inbox' = inbox
      BY <2>2
    <2>3. CASE inbox[s] # <<>> /\ inbox' = [inbox EXCEPT ![s] = Tail(@)]
      <3>1. inbox'[s] = Tail(inbox[s])
        BY <1>1, <2>3
      <3> QED
        BY <1>1, <2>3, <3>1, TailFrames
    <2> QED
      BY <2>1, <2>2, <2>3
  <1>5. /\ lpc'[s] \notin {"ok", "waitClosed"}
        /\ \A f \in Frames(up'[s]) : f \in Frames(up[s]) \/ f = "Hello"
                                      \/ (f = "Failed" /\ lpc'[s] = "err")
    <2>1. CASE LearnerAccept(s) \/ LearnerAnswer(s) \/ LearnerArm(s)
      <3>1. up' = up /\ \E n \in {"waitOffer", "open", "ready"} : lpc' = [lpc EXCEPT ![s] = n]
        BY <2>1 DEF LearnerAccept, LearnerAnswer, LearnerArm, wire
      <3> QED
        BY <1>1, <3>1
    <2>2. CASE LearnerOpen(s)
      <3>1. lpc'[s] = "waitHello" /\ up'[s] = Append(up[s], "Hello")
        BY <1>1, <2>2 DEF LearnerOpen
      <3>2. Frames(Append(up[s], "Hello")) = Frames(up[s]) \union {"Hello"}
        BY <1>1, AppendFrames DEF UpFrames
      <3> QED
        BY <3>1, <3>2
    <2>3. CASE LearnerHello(s) /\ up' = up /\ lpc' = [lpc EXCEPT ![s] = "arm"]
      BY <1>1, <2>3
    <2>4. CASE StopLearner(s, "err", Append(up[s], "Failed"))
      <3>1. /\ Append(up[s], "Failed") \in Seq(UpFrames)
            /\ Frames(Append(up[s], "Failed")) = Frames(up[s]) \union {"Failed"}
        BY <1>1, AppendFrames DEF UpFrames
      <3>2. /\ lpc' = [lpc EXCEPT ![s] = "err"]
            /\ Frames(up'[s]) \subseteq Frames(Append(up[s], "Failed"))
        BY <1>1, <2>4, <3>1, StopLearnerEffect
      <3> QED
        BY <1>1, <3>1, <3>2
    <2> QED
      BY <2>1, <2>2, <2>3, <2>4 DEF LearnerHello
  <1> QED
    BY <1>2, <1>3, <1>4, <1>5, LearnerBusy

(* Ready, and the poll that reports how the apply went.                    *)
LEMMA LearnerPollAgrees ==
  ASSUME TypeOK, NEW s \in Sessions, AgreeAt(s), LearnerReady(s) \/ LearnerPoll(s)
  PROVE  AgreeAt(s)'
  <1>1. /\ lpc \in [Sessions -> LearnerPC] /\ up[s] \in Seq(UpFrames)
        /\ "err" \in Ended /\ "Failed" \in UpFrames
    BY DEF TypeOK, Ended, UpFrames
  <1>2. UNCHANGED <<tpc, down, inbox, upset>> /\ lpc[s] \in {"ready", "poll"}
    BY DEF LearnerReady, LearnerPoll, world
  <1>3. CASE SendUp(s, "Ready", "poll")
    <2>1. /\ \E r \in {"poll", "err"} : lpc' = [lpc EXCEPT ![s] = r]
          /\ Frames(up'[s]) \subseteq Frames(up[s]) \union {"Ready"}
      <3>1. "Ready" \in UpFrames /\ "poll" \in LearnerPC
        BY DEF UpFrames, LearnerPC
      <3>2. /\ lpc' \in [Sessions -> LearnerPC]
            /\ \E r \in {"poll", "err"} : lpc' = [lpc EXCEPT ![s] = r]
            /\ step' \in [Sessions -> Applying \union {"idle"}]
            /\ \A t \in Sessions : step'[t] \in {step[t], "idle"}
            /\ up' \in [Sessions -> Seq(UpFrames)]
            /\ Frames(up'[s]) \subseteq Frames(up[s]) \union {"Ready"}
            /\ \A t \in Sessions \ {s} : up'[t] = up[t]
        BY <1>3, <3>1, SendUpEffect
      <3> QED
        BY <3>2
    <2>2. lpc'[s] \in {"poll", "err"}
      BY <1>1, <2>1
    <2> QED
      BY <1>2, <2>1, <2>2, LearnerBusy DEF Ended
  <1>4. CASE SendUp(s, "Applied", "waitAck")
    <2>1. /\ \E r \in {"waitAck", "err"} : lpc' = [lpc EXCEPT ![s] = r]
          /\ Frames(up'[s]) \subseteq Frames(up[s]) \union {"Applied"}
      <3>1. "Applied" \in UpFrames /\ "waitAck" \in LearnerPC
        BY DEF UpFrames, LearnerPC
      <3>2. /\ lpc' \in [Sessions -> LearnerPC]
            /\ \E r \in {"waitAck", "err"} : lpc' = [lpc EXCEPT ![s] = r]
            /\ step' \in [Sessions -> Applying \union {"idle"}]
            /\ \A t \in Sessions : step'[t] \in {step[t], "idle"}
            /\ up' \in [Sessions -> Seq(UpFrames)]
            /\ Frames(up'[s]) \subseteq Frames(up[s]) \union {"Applied"}
            /\ \A t \in Sessions \ {s} : up'[t] = up[t]
        BY <1>4, <3>1, SendUpEffect
      <3> QED
        BY <3>2
    <2>2. lpc'[s] \in {"waitAck", "err"}
      BY <1>1, <2>1
    <2> QED
      BY <1>2, <2>1, <2>2, LearnerBusy DEF Ended
  <1>5. CASE StopLearner(s, "err", Append(up[s], "Failed"))
    <2>1. /\ Append(up[s], "Failed") \in Seq(UpFrames)
          /\ Frames(Append(up[s], "Failed")) = Frames(up[s]) \union {"Failed"}
      BY <1>1, AppendFrames
    <2>2. /\ lpc' = [lpc EXCEPT ![s] = "err"]
          /\ Frames(up'[s]) \subseteq Frames(Append(up[s], "Failed"))
      BY <1>1, <1>5, <2>1, StopLearnerEffect
    <2>3. lpc'[s] = "err"
      BY <1>1, <2>2
    <2> QED
      BY <1>2, <2>1, <2>2, <2>3, LearnerBusy DEF Ended
  <1> QED
    BY <1>3, <1>4, <1>5 DEF LearnerReady, LearnerPoll

(* The acknowledgement reaches a learner whose teacher waits for Complete, *)
(* so the Complete it sends is on the way.                                 *)
LEMMA LearnerAckAgrees ==
  ASSUME TypeOK, NEW s \in Sessions, AgreeAt(s), LearnerAck(s)
  PROVE  AgreeAt(s)'
  <1>1. /\ lpc \in [Sessions -> LearnerPC] /\ up \in [Sessions -> Seq(UpFrames)]
        /\ inbox \in [Sessions -> Seq(DownControl)]
        /\ up[s] \in Seq(UpFrames) /\ inbox[s] \in Seq(DownControl)
        /\ "waitClosed" \in LearnerPC /\ "Complete" \in UpFrames
    BY DEF TypeOK, Ended, LearnerPC, UpFrames
  <1>2. /\ UNCHANGED <<tpc, down, upset>> /\ lpc[s] = "waitAck" /\ inbox[s] # <<>>
        /\ Head(inbox[s]) = "AppliedAck" /\ SendUp(s, "Complete", "waitClosed")
    BY DEF LearnerAck, world
  <1>3. AckIn(s)
    BY <1>1, <1>2, TailFrames DEF AckIn
  <1>4. /\ \E r \in {"waitClosed", "err"} : lpc' = [lpc EXCEPT ![s] = r]
        /\ Frames(up'[s]) \subseteq Frames(up[s]) \union {"Complete"}
    BY <1>1, <1>2, SendUpEffect
  <1>5. lpc'[s] \in {"waitClosed", "err"}
    BY <1>1, <1>4
  <1>6. CASE upset
    BY <1>2, <1>4, <1>5, <1>6 DEF AgreeAt, Ended
  <1>7. CASE ~upset
    <2>1. tpc[s] = "waitComplete"
      BY <1>2, <1>3, <1>7 DEF AgreeAt
    <2>2. lpc'[s] = "waitClosed" /\ up'[s] = Append(up[s], "Complete")
      BY <1>1, <1>2, <2>1 DEF SendUp, Ended
    <2>3. "Complete" \in Frames(up'[s])
      BY <1>1, <2>2, AppendFrames
    <2> QED
      BY <1>2, <1>4, <2>1, <2>2, <2>3 DEF AgreeAt, Ended
  <1> QED
    BY <1>6, <1>7

(* The learner returns Ok only once its teacher has.                       *)
LEMMA LearnerClosedAgrees ==
  ASSUME TypeOK, NEW s \in Sessions, AgreeAt(s), LearnerClosed(s)
  PROVE  AgreeAt(s)'
  <1>1. lpc \in [Sessions -> LearnerPC] /\ up[s] \in Seq(UpFrames) /\ "ok" \in Ended
    BY DEF TypeOK, Ended
  <1>2. /\ UNCHANGED <<tpc, down, inbox, upset>> /\ lpc[s] = "waitClosed" /\ tpc[s] \in Ended
    BY DEF LearnerClosed, world
  <1>3. lpc' = [lpc EXCEPT ![s] = "ok"] /\ Frames(up'[s]) \subseteq Frames(up[s])
    BY <1>1, StopLearnerEffect DEF LearnerClosed
  <1>4. lpc'[s] = "ok"
    BY <1>1, <1>3
  <1>5. AckIn(s)' => AckIn(s)
    BY <1>2 DEF AckIn
  <1> QED
    BY <1>2, <1>3, <1>4, <1>5 DEF AgreeAt, Ended

(* A learner that waits for the close has a teacher about to close, or     *)
(* closed: its deadline does not pass for certain.                         *)
LEMMA LearnerTimeoutAgrees ==
  ASSUME TypeOK, NEW s \in Sessions, AgreeAt(s), LearnerTimeout(s) \/ LearnerDies(s)
  PROVE  AgreeAt(s)'
  <1>1. lpc \in [Sessions -> LearnerPC] /\ up[s] \in Seq(UpFrames) /\ "err" \in Ended
    BY DEF TypeOK, Ended
  <1>2. /\ UNCHANGED <<tpc, down, inbox>> /\ lpc[s] \notin Ended
        /\ upset' \/ (UNCHANGED upset /\ Stalled(s))
    BY DEF LearnerTimeout, LearnerDies, world
  <1>3. lpc' = [lpc EXCEPT ![s] = "err"] /\ Frames(up'[s]) \subseteq Frames(up[s])
    BY <1>1, StopLearnerEffect DEF LearnerTimeout, LearnerDies
  <1>4. lpc'[s] = "err"
    BY <1>1, <1>3
  <1>5. AckIn(s)' => AckIn(s)
    BY <1>2 DEF AckIn
  <1>6. CASE upset'
    BY <1>3, <1>4, <1>5, <1>6 DEF AgreeAt, Ended
  <1>7. CASE ~upset /\ UNCHANGED upset /\ Stalled(s)
    <2>1. lpc[s] # "waitClosed"
      <3> SUFFICES ASSUME lpc[s] = "waitClosed" PROVE FALSE
        OBVIOUS
      <3>1. tpc[s] \notin Ended /\ ~(tpc[s] \in TeacherWaits /\ up[s] # <<>>)
        BY <1>7 DEF Stalled, LearnerCanStep, TeacherCanStep
      <3>2. tpc[s] = "waitComplete" /\ "Complete" \in Frames(up[s])
        BY <1>7, <3>1 DEF AgreeAt, Ended
      <3> QED
        BY <3>1, <3>2, NoFrames DEF TeacherWaits
    <2> QED
      BY <1>2, <1>3, <1>4, <1>7, <2>1 DEF AgreeAt, Ended
  <1> QED
    BY <1>2, <1>6, <1>7

(* AgreeInv is kept by every step, given the types.                        *)
LEMMA AgreeStep ==
  ASSUME TypeOK, AgreeInv, [Next]_vars
  PROVE  AgreeInv'
  <1>1. ASSUME NEW s \in Sessions, TeacherStep(s) \/ TeacherDies(s)
        PROVE  AgreeInv'
    <2>1. AgreeAt(s)'
      BY <1>1, TeacherEarlyAgrees, TeacherAppliedAgrees, TeacherCompleteAgrees,
         TeacherOtherFrameAgrees, TeacherTimeoutAgrees, TeacherDiesAgrees
         DEF TeacherStep, AgreeInv
    <2>2. upset => upset'
      BY <1>1 DEF TeacherStep, TeacherOffer, TeacherGiveUp, TeacherOpen, TeacherOtherFrame,
           TeacherHello, TeacherReady, TeacherSeal, TeacherSend, TeacherApplied, TeacherComplete,
           TeacherTimeout, TeacherDies, world
    <2>3. \A t \in Sessions \ {s} : AgreeAt(t)'
      BY <1>1, <2>2, TeacherSame, SameAgrees DEF AgreeInv
    <2> QED
      BY <2>1, <2>3 DEF AgreeInv
  <1>2. ASSUME NEW s \in Sessions, LearnerStep(s) \/ LearnerAccept(s) \/ LearnerDies(s)
        PROVE  AgreeInv'
    <2>1. AgreeAt(s)'
      BY <1>2, LearnerEarlyAgrees, LearnerPollAgrees, LearnerAckAgrees, LearnerClosedAgrees,
         LearnerTimeoutAgrees DEF LearnerStep, AgreeInv
    <2>2. upset => upset'
      BY <1>2 DEF LearnerStep, LearnerAnswer, LearnerOpen, LearnerHello, LearnerArm, LearnerReady,
           LearnerPoll, LearnerAck, LearnerClosed, LearnerTimeout, LearnerAccept, LearnerDies, world
    <2>3. \A t \in Sessions \ {s} : AgreeAt(t)'
      BY <1>2, <2>2, LearnerSame, SameAgrees DEF AgreeInv
    <2> QED
      BY <2>1, <2>3 DEF AgreeInv
  <1>3. ASSUME NEW s \in Sessions, Receive(s)
        PROVE  AgreeInv'
    BY <1>3, ReceiveAgrees
  <1>4. ASSUME NEW s \in Sessions,
               \/ ApplyCheck(s) \/ ApplyStage(s) \/ ApplyRename(s) \/ ApplyRead(s)
               \/ ApplyWrite(s) \/ ApplyFails(s)
        PROVE  AgreeInv'
    <2>1. UNCHANGED <<tpc, lpc, up, down, inbox, upset>>
      BY <1>4 DEF ApplyCheck, ApplyStage, ApplyRename, ApplyRead, ApplyWrite, ApplyFails,
                  drivers, wire, world
    <2> QED
      BY <2>1, SameAgrees DEF AgreeInv, Same
  <1>5. CASE UNCHANGED vars
    <2>1. UNCHANGED <<tpc, lpc, up, down, inbox, upset>>
      BY <1>5 DEF vars, drivers, wire, world
    <2> QED
      BY <2>1, SameAgrees DEF AgreeInv, Same
  <1> QED
    BY <1>1, <1>2, <1>3, <1>4, <1>5 DEF Next, Step, HandlerStep, Faulty

(* No side of a transfer succeeds alone, for every number of sessions, as  *)
(* long as none died or timed out early: wait_channel_closed keeps the     *)
(* channel open until the teacher has the receipt.                         *)
THEOREM SameOutcome == Spec => []OutcomesAgree
  <1>1. Init => AgreeInv
    BY NoFrames DEF Init, AgreeInv, AgreeAt, AckIn, Ended
  <1>2. TypeOK /\ AgreeInv /\ [Next]_vars => AgreeInv'
    BY AgreeStep
  <1>3. AgreeInv => OutcomesAgree
    BY DEF AgreeInv, AgreeAt, OutcomesAgree, Ended
  <1> QED
    BY <1>1, <1>2, <1>3, TypeCorrect, PTL DEF Spec

=============================================================================
