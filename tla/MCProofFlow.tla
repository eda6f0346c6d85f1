---------------------------- MODULE MCProofFlow -----------------------------
(***************************************************************************)
(* Small instances of ProofFlow.  A prover finishes with the honest answer *)
(* to its challenge, or with one the service refuses (the owner signed     *)
(* with another key).                                                      *)
(***************************************************************************)
EXTENDS ProofFlow, TLC

Owner == INSTANCE HonestAnswers

MCNonce == [c \in Challenges |-> [rand32 |-> c]]
MCDraws == {Owner!FirstDraw}
MCHeads == {7}

Answer(c) == Owner!HonestAnswer(MCNonce[c], Owner!FirstDraw)
BadAnswer(c) == [Answer(c) EXCEPT !.ownerSig.signer = "stranger"]

MCAnswersTo == [c \in Challenges |-> {Answer(c), BadAnswer(c)}]
MCResponses == UNION {{Answer(c), BadAnswer(c)} : c \in Challenges}

Symmetry == Permutations(JobIds) \cup Permutations(Challenges) \cup Permutations(Requests)

=============================================================================
