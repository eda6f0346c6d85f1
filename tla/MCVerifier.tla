----------------------------- MODULE MCVerifier -----------------------------
(***************************************************************************)
(* Small instances of Verifier.  Two challenges on the same agent, chain   *)
(* and threshold, whose block sets may overlap; two requests in flight;    *)
(* honest answers, answers with one thing wrong, and answers that carry    *)
(* the proofs made for the other challenge.                                *)
(*                                                                         *)
(* A window of 6 blocks (1 day of 14400-second slots, the code's own test  *)
(* knob) has thirds of 2 blocks; head 7 gives blocks out of 1..6, head 6   *)
(* is the one select_blocks refuses.                                       *)
(***************************************************************************)
EXTENDS Verifier, HonestAnswers, TLC

MCNonce == [c \in Challenges |-> [rand32 |-> c]]
MCDraws == {<<0, 0, 0>>, <<5, 2, 7>>}
MCOneDraw == {<<0, 0, 0>>}
MCHeads == {6, 7}

Honest(c, draw) == HonestAnswer(MCNonce[c], draw)

(***************************************************************************)
(* Answers with one thing wrong, in the second bundle or in the signature. *)
(***************************************************************************)
FaultySecond(b) ==
  { [b EXCEPT !.genuine = FALSE],
    [b EXCEPT !.journal.chainId = 1],
    [b EXCEPT !.journal.agentId = Keccak("other agent")],
    [b EXCEPT !.journal.threshold = TheThreshold - 1],
    [b EXCEPT !.journal.debug = TRUE],
    [b EXCEPT !.presentation = NoPresentation],
    [b EXCEPT !.presentation.authentic = FALSE],
    [b EXCEPT !.presentation.server = "localhost"],
    [b EXCEPT !.presentation.header.fork = TRUE],
    [b EXCEPT !.presentation.header.number = 9, !.journal.blockNumber = 9,
              !.journal.blockHash = Keccak(Header(9))] }

FaultyBundles(c) ==
  LET good == HonestBundles(MCNonce[c], FirstDraw)
  IN {[good EXCEPT ![2] = b] : b \in FaultySecond(good[2]) \cup {good[1]}}

FaultySigs(c) ==
  {[HonestSig(MCNonce[c], FirstDraw) EXCEPT !.signer = "stranger"], BadSignature}

Faulty(c) ==
  {[bundles |-> bs, ownerSig |-> HonestSig(MCNonce[c], FirstDraw)] : bs \in FaultyBundles(c)}
    \cup {[bundles |-> HonestBundles(MCNonce[c], FirstDraw), ownerSig |-> s] : s \in FaultySigs(c)}

(***************************************************************************)
(* The proofs made for challenge d, presented for challenge c.             *)
(***************************************************************************)
Replayed(c, d) ==
  {[bundles |-> HonestBundles(MCNonce[d], draw), ownerSig |-> HonestSig(MCNonce[c], draw)] :
     draw \in Draws}

MCResponses ==
  {Honest(c, draw) : c \in Challenges, draw \in Draws}
    \cup UNION {Replayed(c, d) : c, d \in Challenges}
    \cup UNION {Faulty(c) : c \in Challenges}

(***************************************************************************)
(* Challenge ids and request slots are interchangeable.                    *)
(***************************************************************************)
Symmetry == Permutations(Challenges) \cup Permutations(Requests)

(***************************************************************************)
(* A smaller set for liveness: what matters there is only that an answer   *)
(* may be accepted and may be refused.                                     *)
(***************************************************************************)
MCFewResponses ==
  {Honest(c, FirstDraw) : c \in Challenges}

=============================================================================
