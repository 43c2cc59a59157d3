--------------------------- MODULE MCAnswerIngress ---------------------------
(***************************************************************************)
(* Instances of AnswerIngress for TLC.                                     *)
(***************************************************************************)
EXTENDS AnswerIngress, TLC

\* Answers and host commands are told apart by nothing but their own state.
Symmetry == Permutations(Participants) \cup Permutations(HostCommands)
=============================================================================
