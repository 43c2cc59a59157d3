---------------------------- MODULE RoundLifecycle ----------------------------
(***************************************************************************)
(* What the host flow of a live Round promises, independent of rounds,     *)
(* clocks and answers: the main checkpoints are visited in order, each     *)
(* collects answers, is closed and revealed, may be followed by one        *)
(* recovery branch that is itself closed and revealed, and standings or    *)
(* the next checkpoint come after that.  docs/architecture.md draws the    *)
(* main path of this machine; the intervention and recheck edges are those *)
(* of its game invariants.  GameEngine implements it.                      *)
(***************************************************************************)
EXTENDS Integers

CONSTANT Checkpoints            \* the positions of the main checkpoints

VARIABLES stage, checkpoint, recovering, returnTo

lifecycleVars == <<stage, checkpoint, recovering, returnTo>>

Following(c) == c \in Checkpoints /\ c > checkpoint
                /\ \A d \in Checkpoints : d > checkpoint => c <= d
NoneLeft == \A c \in Checkpoints : c <= checkpoint

LifecycleInit ==
    /\ stage = "lobby"
    /\ checkpoint = 0
    /\ recovering = FALSE
    /\ returnTo = "none"

OpenCheckpoint ==
    /\ stage \in {"lobby", "question_reveal", "leaderboard"}
    /\ Following(checkpoint')
    /\ stage' = "question_open"
    /\ recovering' = FALSE
    /\ returnTo' = "none"

\* One recovery branch per checkpoint, once its answers are closed.
OpenRecovery ==
    /\ stage \in {"question_locked", "question_reveal"}
    /\ ~recovering
    /\ stage' = "question_open"
    /\ recovering' = TRUE
    /\ UNCHANGED <<checkpoint, returnTo>>

\* The edges between the stages of one collection of answers.
StageEdges == {<<"question_open", "paused">>, <<"paused", "question_open">>,
               <<"question_open", "question_locked">>, <<"paused", "question_locked">>,
               <<"question_locked", "question_reveal">>, <<"question_reveal", "leaderboard">>}

MoveStage ==
    /\ <<stage, stage'>> \in StageEdges
    /\ UNCHANGED <<checkpoint, recovering, returnTo>>

Intervene ==
    /\ stage \in {"question_locked", "question_reveal"}
    /\ stage' = "intervention"
    /\ returnTo' = stage
    /\ UNCHANGED <<checkpoint, recovering>>

EndIntervention ==
    /\ stage = "intervention"
    /\ stage' = returnTo
    /\ returnTo' = "none"
    /\ UNCHANGED <<checkpoint, recovering>>

\* The last standings or reveal finishes the session.
Complete ==
    /\ stage \in {"question_reveal", "leaderboard"}
    /\ NoneLeft
    /\ stage' = "finished"
    /\ UNCHANGED <<checkpoint, recovering, returnTo>>

Abandon ==
    /\ stage # "finished"
    /\ stage' = "finished"
    /\ UNCHANGED <<checkpoint, recovering, returnTo>>

LifecycleNext ==
    \/ OpenCheckpoint \/ OpenRecovery \/ MoveStage
    \/ Intervene \/ EndIntervention
    \/ Complete \/ Abandon

LifecycleSpec == LifecycleInit /\ [][LifecycleNext]_lifecycleVars
===============================================================================
