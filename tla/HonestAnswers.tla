--------------------------- MODULE HonestAnswers ----------------------------
(***************************************************************************)
(* The answer an honest prover gives, for the instances: one agent, owner, *)
(* chain and threshold, and a challenge drawn with `draw` at head 7, out   *)
(* of a window of 6 blocks.                                                *)
(***************************************************************************)
EXTENDS Submission

TheAgent == "agent"
TheOwner == "owner"
TheChain == 11155111
TheThreshold == 2
TheHost == "sepolia.drpc.org"

Header(n) == [number |-> n, fork |-> FALSE]

HonestBlocks(draw) == SelectBlocks(draw, 7, 6)

HonestBundle(nonce, n) ==
  [genuine |-> TRUE,
   journal |-> [nonce |-> nonce, agentId |-> Keccak(TheAgent),
                threshold |-> TheThreshold, chainId |-> TheChain, debug |-> FALSE,
                blockNumber |-> n, blockHash |-> Keccak(Header(n))],
   presentation |-> [authentic |-> TRUE, server |-> TheHost, header |-> Header(n)]]

HonestBundles(nonce, draw) ==
  [i \in 1..BLOCK_COUNT |-> HonestBundle(nonce, HonestBlocks(draw)[i])]

HonestSig(nonce, draw) ==
  [signer |-> TheOwner,
   digest |-> Keccak([nonce |-> nonce, agentId |-> Keccak(TheAgent),
                      threshold |-> TheThreshold, chainId |-> TheChain,
                      blocks |-> HonestBlocks(draw)])]

HonestAnswer(nonce, draw) ==
  [bundles |-> HonestBundles(nonce, draw), ownerSig |-> HonestSig(nonce, draw)]

FirstDraw == <<0, 0, 0>>

=============================================================================
