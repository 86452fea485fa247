------------------------------ MODULE LeasedJob ------------------------------
(* What the consolidation queue promises of a job, without clocks, workers or
   statements: it is opened once, granted to one holder after another, each
   grant under the next epoch, and closed once, by the holder of that moment. *)
EXTENDS Naturals

CONSTANTS Jobs, Holders, NoHolder

VARIABLE job

Fresh == [phase |-> "none", holder |-> NoHolder, epoch |-> 0, closer |-> NoHolder]

Init == job = [j \in Jobs |-> Fresh]

(* Only job j moves. *)
Only(j) == job' = [job EXCEPT ![j] = job'[j]]

(* The first write of a session. *)
Open(j) ==
    /\ job[j] = Fresh
    /\ job'[j] = [Fresh EXCEPT !.phase = "open"]
    /\ Only(j)

(* A claim of an open job, or the takeover of one whose lease ran out. *)
Grant(j) ==
    /\ job[j].phase \in {"open", "held"}
    /\ \E h \in {job'[j].holder} :
          /\ h \in Holders
          /\ job'[j] = [phase |-> "held", holder |-> h, epoch |-> job[j].epoch + 1,
                        closer |-> NoHolder]
    /\ Only(j)

(* The holder reports its result, and gives the job up for good. *)
Close(j) ==
    /\ job[j].phase = "held"
    /\ job'[j] = [phase |-> "closed", holder |-> NoHolder, epoch |-> job[j].epoch,
                  closer |-> job[j].holder]
    /\ Only(j)

Next == \E j \in Jobs : Open(j) \/ Grant(j) \/ Close(j)

Spec == Init /\ [][Next]_job
=============================================================================
