-------------------------------- MODULE MCRoom --------------------------------
(* A finite instance of the engine, with its snapshots, for TLC. *)
EXTENDS SnapshotProjection, TLC

Question(scored, limit) ==
    [delivery |-> "main", scored |-> scored, basePoints |-> 10, timeLimit |-> limit,
     hasCard |-> TRUE]

TwoQuestions == << Question(TRUE, 2), Question(FALSE, 1) >>

Interchangeable == Permutations(Keys)
===============================================================================
