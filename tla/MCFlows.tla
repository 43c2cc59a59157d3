------------------------------- MODULE MCFlows -------------------------------
(* A finite instance of what people outside the room set going: the host's   *)
(* flow with the controls it is offered, guests that join and answers that   *)
(* are committed through one process, a learner's practice, or operators     *)
(* that deploy.                                                              *)
EXTENDS HostPhase, JoinBatches, CommitSlots, PracticeAttempts, SingleVmDeploy, TLC

VARIABLE subject

Question(delivery, scored, limit, hasCard) ==
    [delivery |-> delivery, scored |-> scored, basePoints |-> 10, timeLimit |-> limit,
     hasCard |-> hasCard]

\* The recheck of the first checkpoint stands after the second, and one more main follows.
FlowQuiz == << Question("main", TRUE, 1, TRUE), Question("main", TRUE, 1, FALSE),
               Question("recheck", TRUE, 1, TRUE), Question("main", TRUE, 1, FALSE) >>

FlowLinks == << 3, NoRound, NoRound, NoRound >>

\* Nothing but their own state tells deployments, checkouts or tabs apart.
Interchangeable ==
    Permutations(Deployments) \cup Permutations(Checkouts) \cup Permutations(Tabs)

\* Two deployments and a mishap, or one and a service action.
ServiceDuringOne ==
    services' # 0 =>
        /\ mishaps' = 0
        /\ \A d, e \in Deployments : op'[d].at # "idle" /\ op'[e].at # "idle" => d = e

MCInit ==
    /\ Init /\ JoinsInit /\ SlotsInit /\ PracticeInit /\ DeployInit
    /\ subject \in {"host", "joins", "slots", "practice", "deployment"}
    /\ (subject # "deployment" => link = 1 /\ clobbered = {})

MCNext ==
    /\ UNCHANGED subject
    /\ \/ /\ subject = "host" /\ Next
          /\ UNCHANGED << joinVars, slotVars, practiceVars, deployVars >>
       \/ /\ subject = "joins" /\ JoinsNext
          /\ UNCHANGED << vars, slotVars, practiceVars, deployVars >>
       \/ /\ subject = "slots" /\ SlotsNext
          /\ UNCHANGED << vars, joinVars, practiceVars, deployVars >>
       \/ /\ subject = "practice" /\ PracticeNext
          /\ UNCHANGED << vars, joinVars, slotVars, deployVars >>
       \/ /\ subject = "deployment" /\ DeployNext /\ ServiceDuringOne
          /\ UNCHANGED << vars, joinVars, slotVars, practiceVars >>

MCSpec ==
    MCInit /\ [][MCNext]_<< vars, joinVars, slotVars, practiceVars, deployVars, subject >>

\* No guest and no commit is lost or let in twice on the way to the database: JoinsInv and
\* SlotsInv.
IntakeInv == JoinsInv /\ SlotsInv
===============================================================================
