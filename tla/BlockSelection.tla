--------------------------- MODULE BlockSelection ---------------------------
(***************************************************************************)
(* How the verifier chooses the three blocks of a challenge                *)
(* (select_blocks and window_blocks of host/src/bin/verifier.rs).  The     *)
(* three keccak draws from the nonce are the function draw; everything     *)
(* after the draw is arithmetic and is kept as it is.                      *)
(***************************************************************************)
EXTENDS Integers, Chains

BLOCK_COUNT == 3

NoOverride == -1    \* POR_SLOT_SECONDS is unset

AtLeastOne(n) == IF n < 1 THEN 1 ELSE n

(***************************************************************************)
(* The challenge window of a chain in blocks.  A slot override of 0 counts *)
(* as 1, an unknown chain has 12-second blocks.                            *)
(***************************************************************************)
BlockTime(chainId, slotOverride) ==
  IF slotOverride # NoOverride THEN slotOverride
  ELSE IF IsSupported(chainId)
       THEN (CHOOSE c \in ChainSpec(chainId) : TRUE).blockTime
       ELSE 12

WindowBlocks(days, chainId, slotOverride) ==
  AtLeastOne((days * 86400) \div AtLeastOne(BlockTime(chainId, slotOverride)))

(***************************************************************************)
(* The window before the head is cut into thirds of Segment blocks, and    *)
(* one block is drawn from each.                                           *)
(***************************************************************************)
Segment(window) == window \div BLOCK_COUNT

CanSelect(head, window) == head > window /\ Segment(window) # 0

\* Seeded fault: the draw may land on the first block of the next third.
SelectBlocksInclusive(draw, head, window) ==
  [i \in 1..BLOCK_COUNT |->
     (head - window) + (i - 1) * Segment(window) + (draw[i] % (Segment(window) + 1))]

SelectBlocks(draw, head, window) ==
  [i \in 1..BLOCK_COUNT |->
     (head - window) + (i - 1) * Segment(window) + (draw[i] % Segment(window))]

(***************************************************************************)
(* What select_blocks checks last, before it returns: the blocks are       *)
(* strictly increasing and all before the head.                            *)
(***************************************************************************)
IncreasingBefore(blocks, head) ==
  blocks[1] < blocks[2] /\ blocks[2] < blocks[3] /\ blocks[3] < head

-----------------------------------------------------------------------------
(***************************************************************************)
(* "Partition [head-W, head] into thirds and draw one block per third":    *)
(* when select_blocks has passed its two early checks, each block lies in  *)
(* its own third, none before the window and none at the head or after it, *)
(* and the check it makes last cannot fail.                                *)
(***************************************************************************)
InThird(n, i, head, window) ==
  /\ n >= (head - window) + (i - 1) * Segment(window)
  /\ n < (head - window) + i * Segment(window)

SelectionSound(draw, head, window) ==
  CanSelect(head, window) =>
    LET blocks == SelectBlocks(draw, head, window) IN
      /\ \A i \in 1..BLOCK_COUNT :
           /\ InThird(blocks[i], i, head, window)
           /\ blocks[i] >= 0
      /\ IncreasingBefore(blocks, head)

(***************************************************************************)
(* The window in blocks is the longest that fits in the window in days,    *)
(* and never empty: a window shorter than one slot still has a block.      *)
(***************************************************************************)
WindowSound(days, chainId, slotOverride) ==
  LET w == WindowBlocks(days, chainId, slotOverride)
      slot == AtLeastOne(BlockTime(chainId, slotOverride))
  IN /\ w >= 1
     /\ w * slot <= days * 86400 \/ w = 1
     /\ (w + 1) * slot > days * 86400

=============================================================================
