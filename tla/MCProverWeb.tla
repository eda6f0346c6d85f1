---------------------------- MODULE MCProverWeb -----------------------------
(***************************************************************************)
(* Small instances of ProverWeb: each challenge has one possible answer.   *)
(***************************************************************************)
EXTENDS ProverWeb, TLC

MCAnswersTo == [c \in Challenges |-> {"answer"}]

Symmetry == Permutations(JobIds) \cup Permutations(Challenges)

=============================================================================
