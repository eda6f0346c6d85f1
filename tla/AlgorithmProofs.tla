-------------------------- MODULE AlgorithmProofs ---------------------------
(***************************************************************************)
(* The algorithms that Programs asks for one answer each, for every input: *)
(* the choice of blocks and of a chain, the byte layouts of a journal and  *)
(* of a signed challenge, and the readers of a block header.               *)
(***************************************************************************)
EXTENDS BlockSelection, Rlp, Journal, SumProofs, SequenceTheorems

-----------------------------------------------------------------------------
(* select_blocks and window_blocks, for every head, window and draw. *)

LEMMA DrawnInSegment ==
  ASSUME NEW d \in Nat, NEW seg \in Nat \ {0}
  PROVE  d % seg \in 0..(seg - 1)
OBVIOUS

LEMMA SegmentFits ==
  ASSUME NEW window \in Nat, Segment(window) # 0
  PROVE  /\ Segment(window) \in Nat \ {0}
         /\ 3 * Segment(window) <= window
BY DEF Segment, BLOCK_COUNT

(***************************************************************************)
(* select_blocks draws one block per third, in increasing order, within    *)
(* the window and before the head; its last check never fails.             *)
(***************************************************************************)
THEOREM OnePerThird ==
  ASSUME NEW head \in Nat, NEW window \in Nat, NEW draw \in [1..BLOCK_COUNT -> Nat]
  PROVE  SelectionSound(draw, head, window)
<1>. SUFFICES ASSUME CanSelect(head, window)
              PROVE  LET blocks == SelectBlocks(draw, head, window) IN
                       /\ \A i \in 1..BLOCK_COUNT :
                            /\ InThird(blocks[i], i, head, window)
                            /\ blocks[i] >= 0
                       /\ IncreasingBefore(blocks, head)
  BY DEF SelectionSound
<1>. DEFINE blocks == SelectBlocks(draw, head, window)
            seg == Segment(window)
            lo == head - window
<1>1. seg \in Nat \ {0} /\ 3 * seg <= window /\ lo \in Nat /\ lo + window = head
  BY SegmentFits DEF CanSelect
<1>. DEFINE r(i) == draw[i] % seg
<1>2. \A i \in 1..3 : r(i) \in 0..(seg - 1)
  <2>1. \A i \in 1..3 : draw[i] \in Nat
    BY DEF BLOCK_COUNT
  <2>. HIDE DEF seg
  <2>. QED
    BY <1>1, <2>1, DrawnInSegment
<1>3. \A i \in 1..3 : blocks[i] = lo + (i - 1) * seg + r(i)
  BY DEF SelectBlocks, BLOCK_COUNT
<1>4. /\ 1 \in 1..3 /\ 2 \in 1..3 /\ 3 \in 1..3
      /\ (1 - 1) * seg = 0 /\ (2 - 1) * seg = seg /\ (3 - 1) * seg = 2 * seg
  BY <1>1
<1>. HIDE DEF blocks, seg, lo, r
<1>5. /\ blocks[1] \in lo..(lo + seg - 1)
      /\ blocks[2] \in (lo + seg)..(lo + 2 * seg - 1)
      /\ blocks[3] \in (lo + 2 * seg)..(lo + 3 * seg - 1)
  <2>1. /\ r(1) \in 0..(seg - 1) /\ r(2) \in 0..(seg - 1) /\ r(3) \in 0..(seg - 1)
        /\ blocks[1] = lo + r(1)
        /\ blocks[2] = lo + seg + r(2)
        /\ blocks[3] = lo + 2 * seg + r(3)
    BY <1>1, <1>2, <1>3, <1>4
  <2>. QED
    BY <1>1, <2>1
<1>6. blocks[1] < blocks[2] /\ blocks[2] < blocks[3] /\ blocks[3] < head
  BY <1>1, <1>5
<1>7. ASSUME NEW i \in 1..3
      PROVE  /\ blocks[i] >= lo + (i - 1) * seg
             /\ blocks[i] < lo + i * seg
             /\ blocks[i] >= 0
  <2>1. i = 1 \/ i = 2 \/ i = 3
    OBVIOUS
  <2>2. CASE i = 1
    BY <1>1, <1>5, <2>2
  <2>3. CASE i = 2
    BY <1>1, <1>5, <2>3
  <2>4. CASE i = 3
    BY <1>1, <1>5, <2>4
  <2>. QED
    BY <2>1, <2>2, <2>3, <2>4
<1>. QED
  BY <1>6, <1>7 DEF InThird, IncreasingBefore, BLOCK_COUNT, blocks, seg, lo

LEMMA Floor ==
  ASSUME NEW n \in Nat, NEW slot \in Nat \ {0}
  PROVE  /\ n \div slot \in Nat
         /\ (n \div slot) * slot <= n
         /\ (n \div slot + 1) * slot > n
OBVIOUS

(***************************************************************************)
(* window_blocks: the block count of a window is the longest that fits,    *)
(* and at least one, for every chain and every slot override.              *)
(***************************************************************************)
THEOREM WindowIsSound ==
  ASSUME NEW days \in Nat, NEW chainId, NEW slotOverride \in Nat \cup {NoOverride}
  PROVE  WindowSound(days, chainId, slotOverride)
<1>. DEFINE slot == AtLeastOne(BlockTime(chainId, slotOverride))
            w == WindowBlocks(days, chainId, slotOverride)
            n == days * 86400
            whole == n \div slot
<1>1. slot \in Nat \ {0}
  <2>1. BlockTime(chainId, slotOverride) \in Int
    <3>1. ASSUME ChainSpec(chainId) # {}
          PROVE  (CHOOSE c \in ChainSpec(chainId) : TRUE).blockTime \in Int
      <4>1. \A c \in ChainSpec(chainId) : c.blockTime \in Int
        BY DEF ChainSpec, CHAINS, Mainnet, Testnet
      <4>. QED
        BY <3>1, <4>1
    <3>. QED
      BY <3>1 DEF BlockTime, IsSupported, NoOverride
  <2>. QED
    BY <2>1 DEF AtLeastOne
<1>2. n \in Nat
  OBVIOUS
<1>3. w = AtLeastOne(whole)
  BY DEF WindowBlocks
<1>. HIDE DEF slot, n
<1>4. whole \in Nat /\ whole * slot <= n /\ (whole + 1) * slot > n
  BY <1>1, <1>2, Floor
<1>. HIDE DEF w, whole
<1>5. w >= 1 /\ (w = whole \/ (w = 1 /\ whole = 0))
  BY <1>3, <1>4 DEF AtLeastOne
<1>6. w * slot <= n \/ w = 1
  BY <1>4, <1>5
<1>7. (w + 1) * slot > n
  <2>1. CASE w = whole
    BY <1>4, <2>1
  <2>2. CASE w = 1 /\ whole = 0
    <3>1. (w + 1) * slot = slot + slot /\ (whole + 1) * slot = slot
      BY <1>1, <2>2
    <3>. QED
      BY <1>1, <1>2, <1>4, <3>1
  <2>. QED
    BY <1>5, <2>1, <2>2
<1>. QED
  BY <1>5, <1>6, <1>7 DEF WindowSound, w, slot, n

(***************************************************************************)
(* resolve_chain, for every selector and flag: the rows of the table have  *)
(* ids and hosts of their own, and a mainnet's pair is a testnet.          *)
(***************************************************************************)
LEMMA TableFacts ==
  /\ \A c, d \in CHAINS : c.chainId = d.chainId => c = d
  /\ \A c, d \in CHAINS : c.host = d.host => c = d
  /\ \A c, d \in CHAINS : d.chainId = c.testnetId => d.testnet
  /\ \A c \in CHAINS : c.testnet \in BOOLEAN
  /\ \A c \in CHAINS : c.testnetId # NoChain => \E d \in CHAINS : d.chainId = c.testnetId
  /\ \A c \in CHAINS : c.chainId # NoChain
BY DEF CHAINS, Mainnet, Testnet, NoChain

THEOREM EverySelectorResolves ==
  \A selector, testnetMode : testnetMode \in BOOLEAN => ResolutionSound(selector, testnetMode)
<1>. SUFFICES ASSUME NEW selector, NEW testnetMode \in BOOLEAN
              PROVE  ResolutionSound(selector, testnetMode)
  OBVIOUS
<1>1. ASSUME NEW id, NEW c \in CHAINS, c.chainId = id PROVE ChainSpec(id) = {c}
  BY <1>1, TableFacts DEF ChainSpec
<1>2. ASSUME NEW id, ChainSpec(id) = {} PROVE ResolveChain(id, testnetMode) = {}
  BY <1>2 DEF ResolveChain
<1>3. ASSUME NEW id, NEW c \in CHAINS, c.chainId = id
      PROVE  ResolveChain(id, testnetMode) =
               IF testnetMode = c.testnet THEN {c}
               ELSE IF testnetMode THEN ChainSpec(c.testnetId) ELSE {}
  <2>1. ChainSpec(id) = {c}
    BY <1>1, <1>3
  <2>. QED
    BY <2>1, Zenon DEF ResolveChain
<1>4. ChainSpec(selector) = {} \/ \E c \in CHAINS : c.chainId = selector
  BY DEF ChainSpec
<1>5. ASSUME NEW c \in ResolveChain(selector, testnetMode)
      PROVE  /\ c \in CHAINS /\ c.testnet = testnetMode
             /\ ResolveChain(selector, testnetMode) = {c}
             /\ ResolveChain(c.chainId, testnetMode) = {c}
  <2>1. PICK r \in CHAINS : r.chainId = selector
    BY <1>2, <1>4
  <2>2. CASE testnetMode = r.testnet
    BY <1>3, <2>1, <2>2
  <2>3. CASE testnetMode # r.testnet
    <3>1. testnetMode /\ c \in ChainSpec(r.testnetId)
          /\ ResolveChain(selector, testnetMode) = ChainSpec(r.testnetId)
      BY <1>3, <2>1, <2>3
    <3>2. c \in CHAINS /\ c.chainId = r.testnetId
      BY <3>1 DEF ChainSpec
    <3>3. c.testnet /\ c.testnet \in BOOLEAN
      BY <3>2, TableFacts
    <3>4. ChainSpec(r.testnetId) = {c}
      BY <1>1, <3>2
    <3>5. ResolveChain(c.chainId, testnetMode) = {c}
      BY <1>3, <3>1, <3>2, <3>3
    <3>. QED
      BY <3>1, <3>2, <3>3, <3>4, <3>5
  <2>. QED
    BY <2>2, <2>3
<1>6. ASSUME NEW c \in CHAINS, NEW d \in CHAINS, c.host \in ExpectedHost(d.chainId)
      PROVE  d = c
  <2>1. ChainSpec(d.chainId) = {d}
    BY <1>1
  <2>2. c.host = d.host
    BY <1>6, <2>1 DEF ExpectedHost
  <2>. QED
    BY <2>2, TableFacts
<1>7. selector \in SelectableIds(testnetMode)
        <=> /\ ResolveChain(selector, testnetMode) # {}
            /\ \E c \in ChainSpec(selector) : ~c.testnet
  <2>1. CASE ChainSpec(selector) = {}
    <3>1. selector \notin SelectableIds(testnetMode)
      BY <2>1 DEF SelectableIds, ChainSpec
    <3>. QED
      BY <1>2, <2>1, <3>1
  <2>2. CASE \E c \in CHAINS : c.chainId = selector
    <3>1. PICK c \in CHAINS : c.chainId = selector
      BY <2>2
    <3>2. ChainSpec(selector) = {c}
      BY <1>1, <3>1
    <3>3. selector \in SelectableIds(testnetMode)
            <=> ~c.testnet /\ (testnetMode => c.testnetId # NoChain)
      BY <3>1, TableFacts DEF SelectableIds
    <3>4. ChainSpec(c.testnetId) # {} <=> c.testnetId # NoChain
      BY <3>1, TableFacts DEF ChainSpec
    <3>5. c.testnet \in BOOLEAN
      BY TableFacts
    <3>6. ASSUME ~c.testnet
          PROVE  ResolveChain(selector, testnetMode) # {}
                   <=> (testnetMode => c.testnetId # NoChain)
      BY <1>3, <3>1, <3>4, <3>5, <3>6
    <3>. QED
      BY <3>2, <3>3, <3>6
  <2>. QED
    BY <1>4, <2>1, <2>2
<1>. QED
  BY <1>5, <1>6, <1>7 DEF ResolutionSound

-----------------------------------------------------------------------------
(* The bytes of a journal and of a signed challenge. *)

(***************************************************************************)
(* FlattenSeq appends one sequence after the other.                        *)
(***************************************************************************)
LEMMA Flattened ==
  ASSUME NEW n \in Nat \ {0}, NEW seqs, Len(seqs) = n
  PROVE  \E f : /\ f[1] = seqs[1]
                /\ \A i \in 1..(n - 1) : f[i + 1] = f[i] \o seqs[i + 1]
                /\ FlattenSeq(seqs) = f[n]
<1>. DEFINE Step(f, i) == IF i = 1 THEN seqs[i] ELSE f[i - 1] \o seqs[i]
            Solves(f) == f = [i \in 1..Len(seqs) |-> Step(f, i)]
            flatten == CHOOSE f : Solves(f)
            A == {k \in Nat : \E f : DOMAIN f = 1..k /\ \A i \in 1..k : f[i] = Step(f, i)}
<1>1. FlattenSeq(seqs) = flatten[n]
  BY DEF FlattenSeq
<1>2. 0 \in A
  <2>. DEFINE f == [i \in 1..0 |-> seqs]
  <2>1. DOMAIN f = 1..0 /\ \A i \in 1..0 : f[i] = Step(f, i)
    OBVIOUS
  <2>. QED
    BY <2>1
<1>3. ASSUME NEW k \in Nat, k \in A PROVE k + 1 \in A
  <2>1. PICK f : DOMAIN f = 1..k /\ \A i \in 1..k : f[i] = Step(f, i)
    BY <1>3
  <2>. DEFINE g == [i \in 1..(k + 1) |-> IF i \in 1..k THEN f[i] ELSE Step(f, i)]
  <2>2. ASSUME NEW i \in 1..(k + 1) PROVE g[i] = Step(g, i)
    <3>1. i = 1 \/ i - 1 \in 1..k
      OBVIOUS
    <3>2. i - 1 \in 1..k => g[i - 1] = f[i - 1]
      OBVIOUS
    <3>3. g[i] = Step(f, i)
      BY <2>1
    <3>. HIDE DEF g
    <3>. QED
      BY <3>1, <3>2, <3>3
  <2>3. DOMAIN g = 1..(k + 1)
    OBVIOUS
  <2>. HIDE DEF g, Step
  <2>. QED
    BY <2>2, <2>3
<1>4. n \in A
  <2>. HIDE DEF A
  <2>. QED
    BY <1>2, <1>3, Induction
<1>5. PICK f : DOMAIN f = 1..n /\ \A i \in 1..n : f[i] = Step(f, i)
  BY <1>4
<1>6. Solves([i \in 1..n |-> f[i]])
  <2>. DEFINE g == [i \in 1..n |-> f[i]]
  <2>1. ASSUME NEW i \in 1..n PROVE g[i] = Step(g, i)
    <3>1. i = 1 \/ i - 1 \in 1..n
      OBVIOUS
    <3>2. i - 1 \in 1..n => g[i - 1] = f[i - 1]
      OBVIOUS
    <3>3. g[i] = Step(f, i)
      BY <1>5
    <3>. HIDE DEF g
    <3>. QED
      BY <3>1, <3>2, <3>3
  <2>2. g = [i \in 1..n |-> g[i]]
    OBVIOUS
  <2>. HIDE DEF g, Step
  <2>3. [i \in 1..n |-> g[i]] = [i \in 1..n |-> Step(g, i)]
    BY <2>1
  <2>4. Solves(g)
    BY <2>2, <2>3
  <2>. QED
    BY <2>4 DEF g
<1>7. Solves(flatten)
  <2>. HIDE DEF Solves
  <2>. QED
    BY <1>6
<1>8. \A i \in 1..n : flatten[i] = Step(flatten, i)
  <2>. HIDE DEF flatten, Step
  <2>. QED
    BY <1>7
<1>. HIDE DEF flatten
<1>9. ASSUME NEW i \in 1..(n - 1) PROVE flatten[i + 1] = flatten[i] \o seqs[i + 1]
  <2>1. i + 1 \in 1..n /\ i + 1 # 1 /\ (i + 1) - 1 = i
    OBVIOUS
  <2>. QED
    BY <1>8, <2>1
<1>10. flatten[1] = seqs[1]
  BY <1>8
<1>. QED
  BY <1>1, <1>9, <1>10

(***************************************************************************)
(* The part of a sequence behind an offset, and how it moves when more is  *)
(* put before or behind.                                                   *)
(***************************************************************************)
Holds(hay, offset, part) == \A k \in 1..Len(part) : hay[offset + k] = part[k]

LEMMA HoldsConcat ==
  ASSUME NEW S, NEW s \in Seq(S), NEW t \in Seq(S)
  PROVE  /\ s \o t \in Seq(S) /\ Len(s \o t) = Len(s) + Len(t)
         /\ Holds(s \o t, Len(s), t)
         /\ \A offset \in Nat, part \in Seq(S) :
              Holds(s, offset, part) /\ offset + Len(part) <= Len(s)
                => Holds(s \o t, offset, part)
<1>1. /\ s \o t \in Seq(S) /\ Len(s \o t) = Len(s) + Len(t)
      /\ \A i \in 1..Len(s) + Len(t) :
           (s \o t)[i] = IF i <= Len(s) THEN s[i] ELSE t[i - Len(s)]
  BY ConcatProperties
<1>. DEFINE c == s \o t
<1>. HIDE DEF c
<1>2. Len(s) \in Nat /\ Len(t) \in Nat
  OBVIOUS
<1>3. Holds(c, Len(s), t)
  <2>. SUFFICES ASSUME NEW k \in 1..Len(t) PROVE c[Len(s) + k] = t[k]
    BY DEF Holds
  <2>1. /\ Len(s) + k \in 1..Len(s) + Len(t) /\ ~(Len(s) + k <= Len(s))
        /\ (Len(s) + k) - Len(s) = k
    BY <1>2
  <2>. QED
    BY <1>1, <2>1 DEF c
<1>4. ASSUME NEW offset \in Nat, NEW part \in Seq(S),
             Holds(s, offset, part), offset + Len(part) <= Len(s)
      PROVE  Holds(c, offset, part)
  <2>. SUFFICES ASSUME NEW k \in 1..Len(part) PROVE c[offset + k] = part[k]
    BY DEF Holds
  <2>1. offset + k \in 1..Len(s) + Len(t) /\ offset + k <= Len(s)
    BY <1>2, <1>4
  <2>. QED
    BY <1>1, <1>4, <2>1 DEF c, Holds
<1>. QED
  BY <1>1, <1>3, <1>4 DEF c

LEMMA HoldsSub ==
  ASSUME NEW S, NEW hay \in Seq(S), NEW part \in Seq(S), NEW offset \in Nat,
         offset + Len(part) <= Len(hay)
  PROVE  Holds(hay, offset, part)
           <=> SubSeq(hay, offset + 1, offset + Len(part)) = part
<1>. DEFINE sub == SubSeq(hay, offset + 1, offset + Len(part))
            n == Len(part)
<1>1. n \in Nat /\ Len(hay) \in Nat
  OBVIOUS
<1>2. \A i \in (offset + 1)..(offset + n) : hay[i] \in S
  BY <1>1
<1>3. /\ sub \in Seq(S) /\ Len(sub) = n
      /\ \A k \in 1..n : sub[k] = hay[offset + k]
  <2>1. /\ sub \in Seq(S)
        /\ Len(sub) = IF offset + 1 <= offset + n THEN (offset + n) - (offset + 1) + 1 ELSE 0
        /\ \A k \in 1..(offset + n) - (offset + 1) + 1 : sub[k] = hay[(offset + 1) + k - 1]
    <3>1. offset + 1 \in Int /\ offset + n \in Int
      BY <1>1
    <3>. HIDE DEF n
    <3>. QED
      BY <1>2, <3>1, SubSeqProperties DEF n
  <2>2. (offset + n) - (offset + 1) + 1 = n /\ \A k \in Int : (offset + 1) + k - 1 = offset + k
    BY <1>1
  <2>. HIDE DEF sub, n
  <2>. QED
    BY <1>1, <2>1, <2>2
<1>. HIDE DEF sub
<1>4. Holds(hay, offset, part) => sub = part
  <2>. SUFFICES ASSUME Holds(hay, offset, part) PROVE sub = part
    OBVIOUS
  <2>1. \A k \in 1..Len(sub) : sub[k] = part[k]
    BY <1>3 DEF Holds
  <2>. QED
    BY <1>3, <2>1, SeqEqual
<1>5. sub = part => Holds(hay, offset, part)
  BY <1>3 DEF Holds
<1>. QED
  BY <1>4, <1>5 DEF sub

(***************************************************************************)
(* Where the parts of a concatenation are: each behind the ones before it. *)
(***************************************************************************)
Concatenates(S, n, parts, f, offset) ==
  /\ \A i \in 1..n : parts[i] \in Seq(S)
  /\ f[1] = parts[1]
  /\ \A i \in 1..(n - 1) : f[i + 1] = f[i] \o parts[i + 1]
  /\ offset[1] = 0
  /\ \A i \in 1..n : offset[i + 1] = offset[i] + Len(parts[i])

LEMMA PartsInPlace ==
  ASSUME NEW S, NEW n \in Nat \ {0}, NEW parts, NEW f, NEW offset,
         Concatenates(S, n, parts, f, offset)
  PROVE  /\ f[n] \in Seq(S) /\ Len(f[n]) = offset[n + 1]
         /\ \A i \in 1..n :
              /\ offset[i] \in Nat /\ offset[i + 1] <= Len(f[n])
              /\ Holds(f[n], offset[i], parts[i])
<1>. DEFINE Good(k) == /\ f[k] \in Seq(S) /\ Len(f[k]) = offset[k + 1]
                       /\ \A i \in 1..k :
                            /\ offset[i] \in Nat /\ offset[i + 1] <= Len(f[k])
                            /\ Holds(f[k], offset[i], parts[i])
            A == {k \in Nat : k \in 1..n => Good(k)}
<1>. USE DEF Concatenates
<1>1. 0 \in A
  OBVIOUS
<1>2. ASSUME NEW k \in Nat, k \in A PROVE k + 1 \in A
  <2>. SUFFICES ASSUME k + 1 \in 1..n PROVE Good(k + 1)
    OBVIOUS
  <2>1. CASE k = 0
    <3>1. parts[1] \in Seq(S) /\ offset[2] = Len(parts[1]) /\ f[1] = parts[1]
      <4>1. 1 \in 1..n /\ 1 + 1 = 2
        OBVIOUS
      <4>. QED
        BY <4>1
    <3>2. Holds(f[1], offset[1], parts[1])
      BY <3>1 DEF Holds
    <3>3. \A i \in 1..(k + 1) : i = 1
      BY <2>1
    <3>. QED
      BY <2>1, <3>1, <3>2, <3>3
  <2>2. CASE k # 0
    <3>. DEFINE s == f[k]
                t == parts[k + 1]
                c == f[k + 1]
    <3>1. k \in 1..n /\ k \in 1..(n - 1) /\ k + 1 \in 1..n
      BY <2>2
    <3>2. /\ s \in Seq(S) /\ Len(s) = offset[k + 1] /\ t \in Seq(S) /\ c = s \o t
          /\ offset[(k + 1) + 1] = offset[k + 1] + Len(t)
          /\ \A i \in 1..k : /\ offset[i] \in Nat /\ offset[i + 1] <= Len(s)
                             /\ Holds(s, offset[i], parts[i])
      BY <1>2, <3>1
    <3>. HIDE DEF s, t, c
    <3>3. /\ c \in Seq(S) /\ Len(c) = Len(s) + Len(t) /\ Holds(c, Len(s), t)
          /\ \A o \in Nat, part \in Seq(S) :
               Holds(s, o, part) /\ o + Len(part) <= Len(s) => Holds(c, o, part)
      <4>1. s \in Seq(S) /\ t \in Seq(S) /\ c = s \o t
        BY <3>2
      <4>. QED
        BY <4>1, HoldsConcat, Zenon
    <3>4. Len(s) \in Nat /\ Len(t) \in Nat
      BY <3>2
    <3>5. ASSUME NEW i \in 1..(k + 1)
          PROVE  /\ offset[i] \in Nat /\ offset[i + 1] <= Len(c)
                 /\ Holds(c, offset[i], parts[i])
      <4>1. CASE i = k + 1
        BY <3>2, <3>3, <3>4, <4>1 DEF t
      <4>2. CASE i # k + 1
        <5>1. i \in 1..k /\ i \in 1..n
          BY <4>2
        <5>2. /\ offset[i] \in Nat /\ offset[i + 1] <= Len(s) /\ Holds(s, offset[i], parts[i])
              /\ parts[i] \in Seq(S) /\ offset[i + 1] = offset[i] + Len(parts[i])
          BY <3>2, <5>1
        <5>3. offset[i + 1] \in Nat
          BY <5>2
        <5>4. Holds(c, offset[i], parts[i])
          BY <3>3, <5>2
        <5>5. offset[i + 1] <= Len(c)
          BY <3>3, <3>4, <5>2, <5>3
        <5>. QED
          BY <5>2, <5>4, <5>5
      <4>. QED
        BY <4>1, <4>2
    <3>6. Len(c) = offset[(k + 1) + 1]
      BY <3>2, <3>3
    <3>. QED
      BY <3>3, <3>5, <3>6 DEF c
  <2>. QED
    BY <2>1, <2>2
<1>3. n \in A
  <2>. HIDE DEF A
  <2>. QED
    BY <1>1, <1>2, Induction
<1>4. Good(n)
  BY <1>3
<1>. QED
  BY <1>4

(***************************************************************************)
(* The words of an array: byte i is the first of the four behind           *)
(* 4 * (i - 1).                                                            *)
(***************************************************************************)
LEMMA WordsInOrder ==
  ASSUME NEW n \in Nat \ {0}, NEW bytes \in Bytes(n)
  PROVE  /\ Expanded(bytes) \in Seq(Byte)
         /\ Len(Expanded(bytes)) = 4 * n
         /\ \A i \in 1..n : Expanded(bytes)[1 + 4 * (i - 1)] = bytes[i]
<1>. DEFINE words == [i \in DOMAIN bytes |-> Word(bytes[i])]
            offset == [i \in 1..(n + 1) |-> 4 * (i - 1)]
<1>1. Len(words) = n /\ \A i \in 1..n : words[i] = Word(bytes[i]) /\ bytes[i] \in Byte
  BY DEF Bytes, Byte
<1>2. /\ offset[1] = 0 /\ offset[n + 1] = 4 * n
      /\ \A i \in 1..n : offset[i] = 4 * (i - 1) /\ offset[i + 1] = offset[i] + 4
  OBVIOUS
<1>. HIDE DEF words, offset
<1>3. PICK f : /\ f[1] = words[1]
               /\ \A i \in 1..(n - 1) : f[i + 1] = f[i] \o words[i + 1]
               /\ FlattenSeq(words) = f[n]
  <2>1. n \in Nat \ {0} /\ Len(words) = n
    BY <1>1
  <2>. QED
    BY <2>1, Flattened, Zenon
<1>4. ASSUME NEW i \in 1..n
      PROVE  /\ words[i] \in Seq(Byte) /\ Len(words[i]) = 4
             /\ words[i][1] = bytes[i]
  <2>. DEFINE b == bytes[i]
  <2>1. b \in Byte /\ 0 \in Byte /\ words[i] = <<b, 0, 0, 0>>
    BY <1>1 DEF Word, Byte
  <2>. HIDE DEF b
  <2>. QED
    BY <2>1 DEF b
<1>5. /\ f[n] \in Seq(Byte) /\ Len(f[n]) = offset[n + 1]
      /\ \A i \in 1..n : Holds(f[n], offset[i], words[i])
  <2>1. Concatenates(Byte, n, words, f, offset)
    BY <1>2, <1>3, <1>4 DEF Concatenates
  <2>. QED
    BY <2>1, PartsInPlace
<1>6. ASSUME NEW i \in 1..n PROVE f[n][1 + 4 * (i - 1)] = bytes[i]
  <2>1. Holds(f[n], offset[i], words[i]) /\ 1 \in 1..Len(words[i])
    BY <1>4, <1>5
  <2>2. f[n][offset[i] + 1] = words[i][1]
    BY <2>1 DEF Holds
  <2>3. offset[i] + 1 = 1 + 4 * (i - 1)
    BY <1>2
  <2>. QED
    BY <1>4, <2>2, <2>3
<1>7. Expanded(bytes) = f[n]
  BY <1>3 DEF Expanded, words
<1>. QED
  BY <1>2, <1>5, <1>6, <1>7

LEMMA BytesAreSeqs ==
  ASSUME NEW n \in Nat, NEW b \in Bytes(n)
  PROVE  b \in Seq(Byte) /\ Len(b) = n /\ b = [i \in 1..n |-> b[i]]
BY DEF Bytes, Byte

(***************************************************************************)
(* The nine commits, each at its offset.                                   *)
(***************************************************************************)
JournalParts(j) ==
  <<Expanded(j.blockHash), j.threshold, j.chainId, Word(j.debug), Expanded(j.nonce),
    Expanded(j.agentId), j.blockNumber, j.agentTokenId, j.identity>>

JournalOffsets == <<0, 128, 144, 148, 152, 280, 408, 416, 424, 456>>

HasLength(s, n) == s \in Seq(Byte) /\ Len(s) = n

LEMMA FieldLengths ==
  ASSUME NEW j \in JournalBytes
  PROVE  /\ HasLength(Expanded(j.blockHash), 128) /\ HasLength(j.threshold, 16)
         /\ HasLength(j.chainId, 4) /\ HasLength(Word(j.debug), 4)
         /\ HasLength(Expanded(j.nonce), 128) /\ HasLength(Expanded(j.agentId), 128)
         /\ HasLength(j.blockNumber, 8) /\ HasLength(j.agentTokenId, 8)
         /\ HasLength(j.identity, 32)
<1>1. /\ j.blockHash \in Bytes(32) /\ j.threshold \in Bytes(16) /\ j.chainId \in Bytes(4)
      /\ j.debug \in 0..1 /\ j.nonce \in Bytes(32) /\ j.agentId \in Bytes(32)
      /\ j.blockNumber \in Bytes(8) /\ j.agentTokenId \in Bytes(8) /\ j.identity \in Bytes(32)
  BY DEF JournalBytes
<1>2. ASSUME NEW n \in Nat, NEW b \in Bytes(n) PROVE HasLength(b, n)
  BY BytesAreSeqs DEF HasLength
<1>3. ASSUME NEW n \in Nat \ {0}, n = 32, NEW b \in Bytes(n) PROVE HasLength(Expanded(b), 128)
  <2>1. Expanded(b) \in Seq(Byte) /\ Len(Expanded(b)) = 4 * n
    BY WordsInOrder
  <2>. QED
    BY <1>3, <2>1 DEF HasLength
<1>4. HasLength(Word(j.debug), 4)
  <2>. DEFINE b == j.debug
  <2>1. b \in Byte /\ 0 \in Byte /\ Word(j.debug) = <<b, 0, 0, 0>>
    BY <1>1 DEF Byte, Word
  <2>. HIDE DEF b
  <2>. QED
    BY <2>1 DEF HasLength
<1>5. 32 \in Nat \ {0} /\ 32 \in Nat /\ 16 \in Nat /\ 8 \in Nat /\ 4 \in Nat
  OBVIOUS
<1>. QED
  BY <1>1, <1>2, <1>3, <1>4, <1>5, Zenon

LEMMA JournalLayout ==
  ASSUME NEW j \in JournalBytes
  PROVE  /\ CommitBytes(j) \in Seq(Byte) /\ Len(CommitBytes(j)) = 456
         /\ \A i \in 1..9 : Holds(CommitBytes(j), JournalOffsets[i], JournalParts(j)[i])
<1>. DEFINE p == JournalParts(j)
            o == JournalOffsets
            f == <<p[1], p[1] \o p[2], p[1] \o p[2] \o p[3], p[1] \o p[2] \o p[3] \o p[4],
                   p[1] \o p[2] \o p[3] \o p[4] \o p[5],
                   p[1] \o p[2] \o p[3] \o p[4] \o p[5] \o p[6],
                   p[1] \o p[2] \o p[3] \o p[4] \o p[5] \o p[6] \o p[7],
                   p[1] \o p[2] \o p[3] \o p[4] \o p[5] \o p[6] \o p[7] \o p[8],
                   p[1] \o p[2] \o p[3] \o p[4] \o p[5] \o p[6] \o p[7] \o p[8] \o p[9]>>
<1>1. CommitBytes(j) = p[1] \o p[2] \o p[3] \o p[4] \o p[5] \o p[6] \o p[7] \o p[8] \o p[9]
  BY DEF CommitBytes, JournalParts
<1>2. /\ HasLength(p[1], 128) /\ HasLength(p[2], 16) /\ HasLength(p[3], 4)
      /\ HasLength(p[4], 4) /\ HasLength(p[5], 128) /\ HasLength(p[6], 128)
      /\ HasLength(p[7], 8) /\ HasLength(p[8], 8) /\ HasLength(p[9], 32)
  BY FieldLengths DEF JournalParts
<1>. HIDE DEF p
<1>3. /\ f[1] = p[1] /\ f[2] = f[1] \o p[2] /\ f[3] = f[2] \o p[3] /\ f[4] = f[3] \o p[4]
      /\ f[5] = f[4] \o p[5] /\ f[6] = f[5] \o p[6] /\ f[7] = f[6] \o p[7]
      /\ f[8] = f[7] \o p[8] /\ f[9] = f[8] \o p[9] /\ CommitBytes(j) = f[9]
  BY <1>1
<1>. HIDE DEF f
<1>4. /\ o[1] = 0 /\ o[2] = o[1] + 128 /\ o[3] = o[2] + 16 /\ o[4] = o[3] + 4
      /\ o[5] = o[4] + 4 /\ o[6] = o[5] + 128 /\ o[7] = o[6] + 128 /\ o[8] = o[7] + 8
      /\ o[9] = o[8] + 8 /\ o[10] = o[9] + 32 /\ o[10] = 456
  BY DEF JournalOffsets
<1>. HIDE DEF o
<1>5. ASSUME NEW i \in 1..9
      PROVE  \/ i = 1 /\ i + 1 = 2
             \/ i = 2 /\ i + 1 = 3
             \/ i = 3 /\ i + 1 = 4
             \/ i = 4 /\ i + 1 = 5
             \/ i = 5 /\ i + 1 = 6
             \/ i = 6 /\ i + 1 = 7
             \/ i = 7 /\ i + 1 = 8
             \/ i = 8 /\ i + 1 = 9
             \/ i = 9 /\ i + 1 = 10
  OBVIOUS
<1>6. ASSUME NEW i \in 1..(9 - 1) PROVE f[i + 1] = f[i] \o p[i + 1]
  <2>1. i \in 1..9 /\ i # 9
    OBVIOUS
  <2>. QED
    BY <1>3, <1>5, <2>1, Zenon
<1>7. ASSUME NEW i \in 1..9 PROVE p[i] \in Seq(Byte) /\ o[i + 1] = o[i] + Len(p[i])
  <2>1. p[i] \in Seq(Byte)
    BY <1>2, <1>5, Zenon DEF HasLength
  <2>2. /\ Len(p[1]) = 128 /\ Len(p[2]) = 16 /\ Len(p[3]) = 4
        /\ Len(p[4]) = 4 /\ Len(p[5]) = 128 /\ Len(p[6]) = 128
        /\ Len(p[7]) = 8 /\ Len(p[8]) = 8 /\ Len(p[9]) = 32
    BY <1>2, Zenon DEF HasLength
  <2>3. /\ o[2] = o[1] + Len(p[1]) /\ o[3] = o[2] + Len(p[2]) /\ o[4] = o[3] + Len(p[3])
        /\ o[5] = o[4] + Len(p[4]) /\ o[6] = o[5] + Len(p[5]) /\ o[7] = o[6] + Len(p[6])
        /\ o[8] = o[7] + Len(p[7]) /\ o[9] = o[8] + Len(p[8]) /\ o[10] = o[9] + Len(p[9])
    BY <1>4, <2>2, Zenon
  <2>4. o[i + 1] = o[i] + Len(p[i])
    BY <1>5, <2>3, Zenon
  <2>. QED
    BY <2>1, <2>4
<1>8. Concatenates(Byte, 9, p, f, o)
  BY <1>3, <1>4, <1>6, <1>7, Zenon DEF Concatenates
<1>9. /\ f[9] \in Seq(Byte) /\ Len(f[9]) = o[9 + 1]
      /\ \A i \in 1..9 : Holds(f[9], o[i], p[i])
  <2>1. 9 \in Nat \ {0}
    OBVIOUS
  <2>. QED
    BY <1>8, <2>1, PartsInPlace
<1>10. CommitBytes(j) \in Seq(Byte) /\ Len(CommitBytes(j)) = 456
  <2>1. CommitBytes(j) = f[9]
    BY <1>3, Zenon
  <2>2. o[9 + 1] = 456
    BY <1>4
  <2>. QED
    BY <1>9, <2>1, <2>2, Zenon
<1>11. \A i \in 1..9 : Holds(CommitBytes(j), o[i], p[i])
  BY <1>3, <1>9, Zenon
<1>. QED
  BY <1>10, <1>11 DEF p, o

(***************************************************************************)
(* Every journal that the guest commits is decoded to what it committed.   *)
(***************************************************************************)
LEMMA JournalFields ==
  ASSUME NEW j \in JournalBytes
  PROVE  LET c == CommitBytes(j) IN
           /\ Holds(c, 0, Expanded(j.blockHash)) /\ Holds(c, 128, j.threshold)
           /\ Holds(c, 144, j.chainId) /\ Holds(c, 148, Word(j.debug))
           /\ Holds(c, 152, Expanded(j.nonce)) /\ Holds(c, 280, Expanded(j.agentId))
           /\ Holds(c, 408, j.blockNumber) /\ Holds(c, 416, j.agentTokenId)
           /\ Holds(c, 424, j.identity)
<1>. DEFINE c == CommitBytes(j)
            p == JournalParts(j)
            o == JournalOffsets
<1>1. /\ p[1] = Expanded(j.blockHash) /\ p[2] = j.threshold /\ p[3] = j.chainId
      /\ p[4] = Word(j.debug) /\ p[5] = Expanded(j.nonce) /\ p[6] = Expanded(j.agentId)
      /\ p[7] = j.blockNumber /\ p[8] = j.agentTokenId /\ p[9] = j.identity
  BY DEF JournalParts
<1>2. /\ o[1] = 0 /\ o[2] = 128 /\ o[3] = 144 /\ o[4] = 148 /\ o[5] = 152 /\ o[6] = 280
      /\ o[7] = 408 /\ o[8] = 416 /\ o[9] = 424
  BY DEF JournalOffsets
<1>3. \A i \in 1..9 : Holds(c, o[i], p[i])
  BY JournalLayout
<1>4. /\ 1 \in 1..9 /\ 2 \in 1..9 /\ 3 \in 1..9 /\ 4 \in 1..9 /\ 5 \in 1..9 /\ 6 \in 1..9
      /\ 7 \in 1..9 /\ 8 \in 1..9 /\ 9 \in 1..9
  OBVIOUS
<1>. HIDE DEF c, p, o
<1>5. /\ Holds(c, o[1], p[1]) /\ Holds(c, o[2], p[2]) /\ Holds(c, o[3], p[3])
      /\ Holds(c, o[4], p[4]) /\ Holds(c, o[5], p[5]) /\ Holds(c, o[6], p[6])
      /\ Holds(c, o[7], p[7]) /\ Holds(c, o[8], p[8]) /\ Holds(c, o[9], p[9])
  BY <1>3, <1>4, Zenon
<1>6. /\ Holds(c, 0, Expanded(j.blockHash)) /\ Holds(c, 128, j.threshold)
      /\ Holds(c, 144, j.chainId)
  BY <1>1, <1>2, <1>5
<1>7. /\ Holds(c, 148, Word(j.debug)) /\ Holds(c, 152, Expanded(j.nonce))
      /\ Holds(c, 280, Expanded(j.agentId))
  BY <1>1, <1>2, <1>5
<1>8. /\ Holds(c, 408, j.blockNumber) /\ Holds(c, 416, j.agentTokenId)
      /\ Holds(c, 424, j.identity)
  BY <1>1, <1>2, <1>5
<1>. QED
  BY <1>6, <1>7, <1>8 DEF c

LEMMA SqueezedWords ==
  ASSUME NEW n \in Nat \ {0}, NEW b \in Bytes(n), NEW hay, NEW offset \in Nat,
         Holds(hay, offset, Expanded(b))
  PROVE  Squeezed(hay, offset + 1, n) = b
<1>1. /\ Len(Expanded(b)) = 4 * n
      /\ \A i \in 1..n : Expanded(b)[1 + 4 * (i - 1)] = b[i]
  BY WordsInOrder
<1>2. ASSUME NEW i \in 1..n PROVE hay[offset + 1 + 4 * (i - 1)] = b[i]
  <2>. DEFINE k == 1 + 4 * (i - 1)
  <2>1. k \in 1..(4 * n) /\ offset + 1 + 4 * (i - 1) = offset + k
    OBVIOUS
  <2>2. Expanded(b)[k] = b[i]
    BY <1>1
  <2>. HIDE DEF k
  <2>3. hay[offset + k] = Expanded(b)[k]
    BY <1>1, <2>1 DEF Holds
  <2>. QED
    BY <2>1, <2>2, <2>3
<1>3. b = [i \in 1..n |-> b[i]]
  BY BytesAreSeqs
<1>4. [i \in 1..n |-> hay[offset + 1 + 4 * (i - 1)]] = [i \in 1..n |-> b[i]]
  BY <1>2
<1>. QED
  BY <1>3, <1>4 DEF Squeezed

LEMMA HeldBytes ==
  ASSUME NEW n \in Nat, NEW b \in Bytes(n), NEW hay \in Seq(Byte), NEW offset \in Nat,
         Holds(hay, offset, b), offset + n <= Len(hay)
  PROVE  SubSeq(hay, offset + 1, offset + n) = b
<1>1. b \in Seq(Byte) /\ Len(b) = n
  BY BytesAreSeqs
<1>2. offset + Len(b) <= Len(hay)
  BY <1>1
<1>3. SubSeq(hay, offset + 1, offset + Len(b)) = b
  BY <1>1, <1>2, HoldsSub
<1>. QED
  BY <1>1, <1>3

(***************************************************************************)
(* For every journal: decode_journal inverts the guest's commits.          *)
(***************************************************************************)
THEOREM JournalsRoundTrip == \A j \in JournalBytes : JournalRoundTrips(j)
<1>. SUFFICES ASSUME NEW j \in JournalBytes PROVE DecodeJournal(CommitBytes(j)) = j
  BY DEF JournalRoundTrips
<1>. DEFINE c == CommitBytes(j)
            Cut(first, last) == SubSeq(c, first, last)
<1>1. /\ j.blockHash \in Bytes(32) /\ j.threshold \in Bytes(16) /\ j.chainId \in Bytes(4)
      /\ j.debug \in 0..1 /\ j.nonce \in Bytes(32) /\ j.agentId \in Bytes(32)
      /\ j.blockNumber \in Bytes(8) /\ j.agentTokenId \in Bytes(8) /\ j.identity \in Bytes(32)
  BY DEF JournalBytes
<1>2. c \in Seq(Byte) /\ Len(c) = 456
  BY JournalLayout
<1>3. /\ Holds(c, 0, Expanded(j.blockHash)) /\ Holds(c, 128, j.threshold)
      /\ Holds(c, 144, j.chainId) /\ Holds(c, 148, Word(j.debug))
      /\ Holds(c, 152, Expanded(j.nonce)) /\ Holds(c, 280, Expanded(j.agentId))
      /\ Holds(c, 408, j.blockNumber) /\ Holds(c, 416, j.agentTokenId)
      /\ Holds(c, 424, j.identity)
  BY JournalFields
<1>. HIDE DEF c
<1>4. ASSUME NEW n \in Nat \ {0}, NEW b \in Bytes(n),
             NEW offset \in Nat, Holds(c, offset, Expanded(b)), NEW first, first = offset + 1
      PROVE  Squeezed(c, first, n) = b
  BY <1>4, SqueezedWords
<1>5. ASSUME NEW n \in Nat, NEW b \in Bytes(n),
             NEW offset \in Nat, Holds(c, offset, b), NEW first, first = offset + 1,
             NEW last, last = offset + n, last <= 456
      PROVE  Cut(first, last) = b
  BY <1>2, <1>5, HeldBytes
<1>. HIDE DEF Cut
<1>6. /\ Squeezed(c, 1, 32) = j.blockHash /\ Squeezed(c, 153, 32) = j.nonce
      /\ Squeezed(c, 281, 32) = j.agentId
  <2>1. Squeezed(c, 1, 32) = j.blockHash
    BY <1>1, <1>3, <1>4
  <2>2. Squeezed(c, 153, 32) = j.nonce
    BY <1>1, <1>3, <1>4
  <2>3. Squeezed(c, 281, 32) = j.agentId
    BY <1>1, <1>3, <1>4
  <2>. QED
    BY <2>1, <2>2, <2>3
<1>7. /\ Cut(129, 144) = j.threshold /\ Cut(145, 148) = j.chainId
      /\ Cut(409, 416) = j.blockNumber /\ Cut(417, 424) = j.agentTokenId
      /\ Cut(425, 456) = j.identity
  <2>1. Cut(129, 144) = j.threshold
    BY <1>1, <1>3, <1>5
  <2>2. Cut(145, 148) = j.chainId
    BY <1>1, <1>3, <1>5
  <2>3. Cut(409, 416) = j.blockNumber
    BY <1>1, <1>3, <1>5
  <2>4. Cut(417, 424) = j.agentTokenId
    BY <1>1, <1>3, <1>5
  <2>5. Cut(425, 456) = j.identity
    BY <1>1, <1>3, <1>5
  <2>. QED
    BY <2>1, <2>2, <2>3, <2>4, <2>5
<1>8. c[149] = j.debug
  <2>1. Word(j.debug)[1] = j.debug /\ 1 \in 1..Len(Word(j.debug))
    BY DEF Word
  <2>2. c[148 + 1] = Word(j.debug)[1]
    BY <1>3, <2>1 DEF Holds
  <2>. QED
    BY <2>1, <2>2
<1>9. j = [blockHash |-> j.blockHash, threshold |-> j.threshold, chainId |-> j.chainId,
           debug |-> j.debug, nonce |-> j.nonce, agentId |-> j.agentId,
           blockNumber |-> j.blockNumber, agentTokenId |-> j.agentTokenId,
           identity |-> j.identity]
  BY DEF JournalBytes
<1>10. DecodeJournal(c) =
         [blockHash |-> j.blockHash, threshold |-> j.threshold, chainId |-> j.chainId,
           debug |-> j.debug, nonce |-> j.nonce, agentId |-> j.agentId,
           blockNumber |-> j.blockNumber, agentTokenId |-> j.agentTokenId,
           identity |-> j.identity]
  BY <1>6, <1>7, <1>8, Zenon DEF DecodeJournal, Cut
<1>. QED
  BY <1>9, <1>10 DEF c

(***************************************************************************)
(* A pattern that occurs once is found where it is.                        *)
(***************************************************************************)
LEMMA FoundWhereItIs ==
  ASSUME NEW n \in Nat, NEW b \in Bytes(n), NEW hay \in Seq(Byte), NEW offset \in Nat,
         Holds(hay, offset, b), offset + n <= Len(hay),
         \A o, p \in Occurrences(hay, b) : o = p
  PROVE  Find(hay, b) = {offset}
<1>1. b \in Seq(Byte) /\ Len(b) = n
  BY BytesAreSeqs
<1>2. OccursAt(hay, b, offset)
  <2>1. SubSeq(hay, offset + 1, offset + n) = b
    BY HeldBytes, Zenon
  <2>. QED
    BY <1>1, <2>1, Zenon DEF OccursAt
<1>3. offset \in 0..(Len(hay) - Len(b))
  BY <1>1
<1>4. offset \in Occurrences(hay, b)
  BY <1>2, <1>3 DEF Occurrences
<1>5. Occurrences(hay, b) = {offset}
  BY <1>4
<1>. QED
  BY <1>5 DEF Find

(***************************************************************************)
(* Whatever the helper measures the offsets on, as long as the two fields  *)
(* stand out in its journal: they are the gateway's offsets for every run. *)
(***************************************************************************)
THEOREM OffsetsAreStable ==
  ASSUME NEW own \in JournalBytes, NEW j \in JournalBytes, StandsOut(own)
  PROVE  OffsetsAreTheFields(own, j)
<1>. DEFINE hay == CommitBytes(own)
            c == CommitBytes(j)
            Extract(o, n) == ExtractField(c, o, n)
            Once(b) == \A o, p \in Occurrences(hay, b) : o = p
<1>1. /\ hay \in Seq(Byte) /\ Len(hay) = 456 /\ c \in Seq(Byte) /\ Len(c) = 456
      /\ Holds(hay, 416, own.agentTokenId) /\ Holds(hay, 424, own.identity)
      /\ Holds(c, 416, j.agentTokenId) /\ Holds(c, 424, j.identity)
  BY JournalLayout, JournalFields
<1>2. /\ own.agentTokenId \in Bytes(8) /\ own.identity \in Bytes(32)
      /\ j.agentTokenId \in Bytes(8) /\ j.identity \in Bytes(32)
  BY DEF JournalBytes
<1>3. Once(own.agentTokenId) /\ Once(own.identity)
  BY DEF StandsOut
<1>4. MeasuredOffsets(own) = [tokenId |-> Find(hay, own.agentTokenId),
                              identity |-> Find(hay, own.identity)]
  BY DEF MeasuredOffsets
<1>. HIDE DEF hay, c
<1>5. ASSUME NEW n \in Nat, NEW b \in Bytes(n), NEW offset \in Nat,
             Holds(hay, offset, b), offset + n <= 456, Once(b)
      PROVE  Find(hay, b) = {offset}
  <2>1. offset + n <= Len(hay) /\ hay \in Seq(Byte)
    BY <1>1, <1>5
  <2>. QED
    BY <1>5, <2>1, FoundWhereItIs, Zenon
<1>6. ASSUME NEW n \in Nat, NEW b \in Bytes(n), NEW offset \in Nat,
             Holds(c, offset, b), offset + n <= 456
      PROVE  Extract(offset, n) = b
  <2>1. offset + n <= Len(c) /\ c \in Seq(Byte)
    BY <1>1, <1>6
  <2>2. SubSeq(c, offset + 1, offset + n) = b
    BY <1>6, <2>1, HeldBytes, Zenon
  <2>. QED
    BY <2>2, Zenon DEF ExtractField
<1>. HIDE DEF Extract, Once
<1>7. Find(hay, own.agentTokenId) = {416} /\ Find(hay, own.identity) = {424}
  <2>1. Find(hay, own.agentTokenId) = {416}
    BY <1>1, <1>2, <1>3, <1>5
  <2>2. Find(hay, own.identity) = {424}
    BY <1>1, <1>2, <1>3, <1>5
  <2>. QED
    BY <2>1, <2>2
<1>8. Extract(416, 8) = j.agentTokenId
  BY <1>1, <1>2, <1>6
<1>9. Extract(424, 32) = j.identity
  BY <1>1, <1>2, <1>6
<1>10. /\ MeasuredOffsets(own).tokenId = {416}
       /\ MeasuredOffsets(own).identity = {424}
  BY <1>4, <1>7
<1>11. Reverse(Extract(424, 32)) = Commitment(j.identity)
  BY <1>9, Zenon DEF Commitment
<1>12. /\ \A o \in MeasuredOffsets(own).tokenId : Extract(o, 8) = j.agentTokenId
       /\ MeasuredOffsets(own).tokenId # {} /\ MeasuredOffsets(own).identity # {}
  BY <1>8, <1>10
<1>13. \A o \in MeasuredOffsets(own).identity : o = 424
  BY <1>10
<1>14. \A o \in MeasuredOffsets(own).identity :
         Reverse(Extract(o, 32)) = Commitment(j.identity)
  BY <1>11, <1>13, Zenon
<1>. QED
  BY <1>12, <1>14, Zenon DEF OffsetsAreTheFields, Extract, c

(***************************************************************************)
(* The bytes that are signed.                                              *)
(***************************************************************************)
ChallengeParts(c) ==
  <<CHALLENGE_DOMAIN, c.nonce, c.agentId, Reverse(c.threshold), Reverse(c.chainId),
    FlattenSeq([i \in 1..3 |-> Reverse(c.blocks[i])])>>

ChallengeOffsets == <<0, 1, 33, 65, 81, 85, 109>>

Signed == Byte \cup {"POR-CHALLENGE-v1"}

LEMMA ReversedBytes ==
  ASSUME NEW n \in Nat, NEW b \in Bytes(n)
  PROVE  /\ Reverse(b) \in Seq(Signed) /\ Len(Reverse(b)) = n
         /\ \A i \in 1..n : b[i] = Reverse(b)[n - i + 1]
<1>1. DOMAIN b = 1..n /\ \A i \in 1..n : b[i] \in Signed
  BY DEF Bytes, Signed, Byte
<1>2. Len(b) = n
  BY BytesAreSeqs
<1>3. Reverse(b) = [i \in 1..n |-> b[(n - i) + 1]]
  BY <1>2 DEF Reverse
<1>4. \A i \in 1..n : n - i + 1 \in 1..n /\ (n - (n - i + 1)) + 1 = i
  OBVIOUS
<1>. QED
  BY <1>1, <1>3, <1>4

(***************************************************************************)
(* The same parts are the same bytes.                                      *)
(***************************************************************************)
LEMMA HeldOnce ==
  ASSUME NEW S, NEW hay, NEW offset, NEW s \in Seq(S), NEW t \in Seq(S), Len(s) = Len(t),
         Holds(hay, offset, s), Holds(hay, offset, t)
  PROVE  s = t
<1>1. \A k \in 1..Len(s) : s[k] = t[k]
  BY DEF Holds
<1>. QED
  BY <1>1, SeqEqual

LEMMA ReversedOnce ==
  ASSUME NEW n \in Nat, NEW b \in Bytes(n), NEW c \in Bytes(n), Reverse(b) = Reverse(c)
  PROVE  b = c
<1>1. \A i \in 1..n : b[i] = c[i]
  BY ReversedBytes
<1>2. b = [i \in 1..n |-> b[i]] /\ c = [i \in 1..n |-> c[i]]
  BY BytesAreSeqs
<1>. QED
  BY <1>1, <1>2

(***************************************************************************)
(* The three blocks, eight bytes each.                                     *)
(***************************************************************************)
BlockBytes(blocks) == FlattenSeq([i \in 1..3 |-> Reverse(blocks[i])])

LEMMA BlocksInPlace ==
  ASSUME NEW blocks \in [1..3 -> Bytes(8)]
  PROVE  /\ BlockBytes(blocks) \in Seq(Signed) /\ Len(BlockBytes(blocks)) = 24
         /\ Holds(BlockBytes(blocks), 0, Reverse(blocks[1]))
         /\ Holds(BlockBytes(blocks), 8, Reverse(blocks[2]))
         /\ Holds(BlockBytes(blocks), 16, Reverse(blocks[3]))
<1>. DEFINE parts == [i \in 1..3 |-> Reverse(blocks[i])]
            offset == <<0, 8, 16, 24>>
<1>1. \A i \in 1..3 : parts[i] = Reverse(blocks[i]) /\ blocks[i] \in Bytes(8)
  OBVIOUS
<1>2. Len(parts) = 3
  OBVIOUS
<1>3. /\ offset[1] = 0 /\ offset[2] = 8 /\ offset[3] = 16 /\ offset[4] = 24
      /\ \A i \in 1..3 : offset[i + 1] = offset[i] + 8
  OBVIOUS
<1>. HIDE DEF parts, offset
<1>4. PICK f : /\ f[1] = parts[1]
               /\ \A i \in 1..(3 - 1) : f[i + 1] = f[i] \o parts[i + 1]
               /\ FlattenSeq(parts) = f[3]
  <2>1. 3 \in Nat \ {0} /\ Len(parts) = 3
    BY <1>2
  <2>. QED
    BY <2>1, Flattened, Zenon
<1>5. ASSUME NEW i \in 1..3 PROVE parts[i] \in Seq(Signed) /\ Len(parts[i]) = 8
  <2>1. 8 \in Nat /\ blocks[i] \in Bytes(8)
    OBVIOUS
  <2>2. \A n \in Nat : \A b \in Bytes(n) : Reverse(b) \in Seq(Signed) /\ Len(Reverse(b)) = n
    BY ReversedBytes
  <2>3. Reverse(blocks[i]) \in Seq(Signed) /\ Len(Reverse(blocks[i])) = 8
    BY <2>1, <2>2, Zenon
  <2>. QED
    BY <1>1, <2>3, Zenon
<1>6. Concatenates(Signed, 3, parts, f, offset)
  <2>1. \A i \in 1..3 : offset[i + 1] = offset[i] + Len(parts[i])
    BY <1>3, <1>5
  <2>. QED
    BY <1>3, <1>4, <1>5, <2>1 DEF Concatenates
<1>7. /\ f[3] \in Seq(Signed) /\ Len(f[3]) = offset[3 + 1]
      /\ \A i \in 1..3 : Holds(f[3], offset[i], parts[i])
  <2>1. 3 \in Nat \ {0}
    OBVIOUS
  <2>. QED
    BY <1>6, <2>1, PartsInPlace
<1>8. BlockBytes(blocks) = f[3]
  BY <1>4, Zenon DEF BlockBytes, parts
<1>9. /\ Holds(f[3], offset[1], parts[1]) /\ Holds(f[3], offset[2], parts[2])
      /\ Holds(f[3], offset[3], parts[3])
  BY <1>7
<1>10. 1 \in 1..3 /\ 2 \in 1..3 /\ 3 \in 1..3
  OBVIOUS
<1>11. /\ parts[1] = Reverse(blocks[1]) /\ parts[2] = Reverse(blocks[2])
       /\ parts[3] = Reverse(blocks[3])
  BY <1>1, <1>10, Zenon
<1>12. offset[3 + 1] = 24
  BY <1>3
<1>13. BlockBytes(blocks) \in Seq(Signed) /\ Len(BlockBytes(blocks)) = 24
  BY <1>7, <1>8, <1>12, Zenon
<1>. QED
  BY <1>3, <1>8, <1>9, <1>11, <1>13, Zenon

LEMMA BlocksOnce ==
  ASSUME NEW b \in [1..3 -> Bytes(8)], NEW c \in [1..3 -> Bytes(8)],
         BlockBytes(b) = BlockBytes(c)
  PROVE  b = c
<1>. DEFINE R(x) == Reverse(x)
<1>1. \A x \in Bytes(8) : R(x) \in Seq(Signed) /\ Len(R(x)) = 8
  <2>1. 8 \in Nat
    OBVIOUS
  <2>2. \A n \in Nat : \A x \in Bytes(n) : R(x) \in Seq(Signed) /\ Len(R(x)) = n
    BY ReversedBytes
  <2>. QED
    BY <2>1, <2>2, Zenon
<1>2. \A x, y \in Bytes(8) : R(x) = R(y) => x = y
  <2>1. 8 \in Nat
    OBVIOUS
  <2>2. \A n \in Nat : \A x, y \in Bytes(n) : R(x) = R(y) => x = y
    BY ReversedOnce
  <2>. QED
    BY <2>1, <2>2, Zenon
<1>. DEFINE h == BlockBytes(b)
<1>3. /\ Holds(h, 0, R(b[1])) /\ Holds(h, 8, R(b[2])) /\ Holds(h, 16, R(b[3]))
      /\ Holds(h, 0, R(c[1])) /\ Holds(h, 8, R(c[2])) /\ Holds(h, 16, R(c[3]))
  BY BlocksInPlace, Zenon
<1>. HIDE DEF h, R
<1>4. ASSUME NEW offset, NEW x \in Bytes(8), NEW y \in Bytes(8),
             Holds(h, offset, R(x)), Holds(h, offset, R(y))
      PROVE  x = y
  <2>1. R(x) = R(y)
    BY <1>1, <1>4, HeldOnce
  <2>. QED
    BY <1>2, <2>1
<1>5. /\ b[1] \in Bytes(8) /\ b[2] \in Bytes(8) /\ b[3] \in Bytes(8)
      /\ c[1] \in Bytes(8) /\ c[2] \in Bytes(8) /\ c[3] \in Bytes(8)
  OBVIOUS
<1>6. b[1] = c[1] /\ b[2] = c[2] /\ b[3] = c[3]
  BY <1>3, <1>4, <1>5, Zenon
<1>7. \A i \in 1..3 : i = 1 \/ i = 2 \/ i = 3
  OBVIOUS
<1>8. \A i \in 1..3 : b[i] = c[i]
  BY <1>6, <1>7, Zenon
<1>. QED
  BY <1>8

LEMMA ChallengeInPlace ==
  ASSUME NEW c \in ChallengeBytes
  PROVE  LET h == CanonicalBytes(c) IN
           /\ Holds(h, 1, c.nonce) /\ Holds(h, 33, c.agentId)
           /\ Holds(h, 65, Reverse(c.threshold)) /\ Holds(h, 81, Reverse(c.chainId))
           /\ Holds(h, 85, BlockBytes(c.blocks))
<1>. DEFINE p == ChallengeParts(c)
            o == ChallengeOffsets
            f == <<p[1], p[1] \o p[2], p[1] \o p[2] \o p[3], p[1] \o p[2] \o p[3] \o p[4],
                   p[1] \o p[2] \o p[3] \o p[4] \o p[5],
                   p[1] \o p[2] \o p[3] \o p[4] \o p[5] \o p[6]>>
            Has(s, n) == s \in Seq(Signed) /\ Len(s) = n
<1>1. /\ c.nonce \in Bytes(32) /\ c.agentId \in Bytes(32) /\ c.threshold \in Bytes(16)
      /\ c.chainId \in Bytes(4) /\ c.blocks \in [1..3 -> Bytes(8)]
  BY DEF ChallengeBytes
<1>2. /\ p[1] = CHALLENGE_DOMAIN /\ p[2] = c.nonce /\ p[3] = c.agentId
      /\ p[4] = Reverse(c.threshold) /\ p[5] = Reverse(c.chainId)
      /\ p[6] = BlockBytes(c.blocks)
  BY DEF ChallengeParts, BlockBytes
<1>3. CanonicalBytes(c) = p[1] \o p[2] \o p[3] \o p[4] \o p[5] \o p[6]
  BY DEF CanonicalBytes, ChallengeParts
<1>4. Has(CHALLENGE_DOMAIN, 1)
  BY DEF CHALLENGE_DOMAIN, Signed
<1>5. ASSUME NEW n \in Nat, NEW b \in Bytes(n) PROVE Has(b, n) /\ Has(Reverse(b), n)
  <2>1. b \in Seq(Signed) /\ Len(b) = n
    BY DEF Bytes, Signed, Byte
  <2>. QED
    BY <2>1, ReversedBytes
<1>6. Has(BlockBytes(c.blocks), 24)
  BY <1>1, BlocksInPlace
<1>. HIDE DEF p, Has
<1>7. /\ Has(p[1], 1) /\ Has(p[2], 32) /\ Has(p[3], 32) /\ Has(p[4], 16) /\ Has(p[5], 4)
      /\ Has(p[6], 24)
  <2>1. 32 \in Nat /\ 16 \in Nat /\ 4 \in Nat
    OBVIOUS
  <2>. QED
    BY <1>1, <1>2, <1>4, <1>5, <1>6, <2>1, Zenon
<1>8. /\ f[1] = p[1] /\ f[2] = f[1] \o p[2] /\ f[3] = f[2] \o p[3] /\ f[4] = f[3] \o p[4]
      /\ f[5] = f[4] \o p[5] /\ f[6] = f[5] \o p[6] /\ CanonicalBytes(c) = f[6]
  BY <1>3
<1>. HIDE DEF f
<1>9. /\ o[1] = 0 /\ o[2] = o[1] + 1 /\ o[3] = o[2] + 32 /\ o[4] = o[3] + 32
      /\ o[5] = o[4] + 16 /\ o[6] = o[5] + 4 /\ o[7] = o[6] + 24
      /\ o[2] = 1 /\ o[3] = 33 /\ o[4] = 65 /\ o[5] = 81 /\ o[6] = 85
  BY DEF ChallengeOffsets
<1>. HIDE DEF o
<1>10. ASSUME NEW i \in 1..6
       PROVE  \/ i = 1 /\ i + 1 = 2
              \/ i = 2 /\ i + 1 = 3
              \/ i = 3 /\ i + 1 = 4
              \/ i = 4 /\ i + 1 = 5
              \/ i = 5 /\ i + 1 = 6
              \/ i = 6 /\ i + 1 = 7
  OBVIOUS
<1>11. ASSUME NEW i \in 1..(6 - 1) PROVE f[i + 1] = f[i] \o p[i + 1]
  <2>1. i \in 1..6 /\ i # 6
    OBVIOUS
  <2>. QED
    BY <1>8, <1>10, <2>1, Zenon
<1>12. ASSUME NEW i \in 1..6 PROVE p[i] \in Seq(Signed) /\ o[i + 1] = o[i] + Len(p[i])
  <2>1. p[i] \in Seq(Signed)
    BY <1>7, <1>10, Zenon DEF Has
  <2>2. /\ Len(p[1]) = 1 /\ Len(p[2]) = 32 /\ Len(p[3]) = 32
        /\ Len(p[4]) = 16 /\ Len(p[5]) = 4 /\ Len(p[6]) = 24
    BY <1>7, Zenon DEF Has
  <2>3. /\ o[2] = o[1] + Len(p[1]) /\ o[3] = o[2] + Len(p[2]) /\ o[4] = o[3] + Len(p[3])
        /\ o[5] = o[4] + Len(p[4]) /\ o[6] = o[5] + Len(p[5]) /\ o[7] = o[6] + Len(p[6])
    BY <1>9, <2>2, Zenon
  <2>4. o[i + 1] = o[i] + Len(p[i])
    BY <1>10, <2>3, Zenon
  <2>. QED
    BY <2>1, <2>4
<1>13. Concatenates(Signed, 6, p, f, o)
  BY <1>8, <1>9, <1>11, <1>12, Zenon DEF Concatenates
<1>14. \A i \in 1..6 : Holds(f[6], o[i], p[i])
  <2>1. 6 \in Nat \ {0}
    OBVIOUS
  <2>. QED
    BY <1>13, <2>1, PartsInPlace
<1>15. /\ Holds(f[6], o[2], p[2]) /\ Holds(f[6], o[3], p[3]) /\ Holds(f[6], o[4], p[4])
       /\ Holds(f[6], o[5], p[5]) /\ Holds(f[6], o[6], p[6])
  BY <1>14
<1>. DEFINE h == CanonicalBytes(c)
            r == Reverse(c.threshold)
            q == Reverse(c.chainId)
<1>16. p[4] = r /\ p[5] = q /\ h = f[6]
  BY <1>2, <1>8, Zenon
<1>. HIDE DEF h, r, q
<1>17. /\ Holds(h, 1, c.nonce) /\ Holds(h, 33, c.agentId) /\ Holds(h, 65, r)
       /\ Holds(h, 81, q) /\ Holds(h, 85, BlockBytes(c.blocks))
  BY <1>2, <1>9, <1>15, <1>16
<1>. QED
  BY <1>17 DEF h, r, q

(***************************************************************************)
(* canonical_bytes is injective: no two challenges have the same bytes to  *)
(* sign.                                                                   *)
(***************************************************************************)
THEOREM SigningsBind == \A c, d \in ChallengeBytes : SigningBinds(c, d)
<1>. SUFFICES ASSUME NEW c \in ChallengeBytes, NEW d \in ChallengeBytes,
                     CanonicalBytes(c) = CanonicalBytes(d)
              PROVE  c = d
  BY DEF SigningBinds
<1>. DEFINE h == CanonicalBytes(c)
            R(x) == Reverse(x)
<1>1. /\ Holds(h, 1, c.nonce) /\ Holds(h, 33, c.agentId) /\ Holds(h, 65, R(c.threshold))
      /\ Holds(h, 81, R(c.chainId)) /\ Holds(h, 85, BlockBytes(c.blocks))
  BY ChallengeInPlace, Zenon
<1>2. /\ Holds(h, 1, d.nonce) /\ Holds(h, 33, d.agentId) /\ Holds(h, 65, R(d.threshold))
      /\ Holds(h, 81, R(d.chainId)) /\ Holds(h, 85, BlockBytes(d.blocks))
  BY ChallengeInPlace, Zenon
<1>3. /\ c.nonce \in Bytes(32) /\ c.agentId \in Bytes(32) /\ c.threshold \in Bytes(16)
      /\ c.chainId \in Bytes(4) /\ c.blocks \in [1..3 -> Bytes(8)]
      /\ d.nonce \in Bytes(32) /\ d.agentId \in Bytes(32) /\ d.threshold \in Bytes(16)
      /\ d.chainId \in Bytes(4) /\ d.blocks \in [1..3 -> Bytes(8)]
  BY DEF ChallengeBytes
<1>4. ASSUME NEW n \in Nat, NEW offset, NEW x \in Bytes(n), NEW y \in Bytes(n),
             Holds(h, offset, x), Holds(h, offset, y)
      PROVE  x = y
  <2>1. x \in Seq(Byte) /\ y \in Seq(Byte) /\ Len(x) = n /\ Len(y) = n
    BY BytesAreSeqs
  <2>. HIDE DEF h
  <2>. QED
    BY <1>4, <2>1, HeldOnce
<1>5. ASSUME NEW n \in Nat, NEW offset, NEW x \in Bytes(n), NEW y \in Bytes(n),
             Holds(h, offset, R(x)), Holds(h, offset, R(y))
      PROVE  x = y
  <2>1. /\ R(x) \in Seq(Signed) /\ R(y) \in Seq(Signed) /\ Len(R(x)) = n /\ Len(R(y)) = n
    BY ReversedBytes
  <2>2. R(x) = R(y)
    <3>. HIDE DEF h, R
    <3>. QED
      BY <1>5, <2>1, HeldOnce
  <2>. QED
    BY <2>2, ReversedOnce
<1>6. c.blocks = d.blocks
  <2>. DEFINE b == c.blocks
              e == d.blocks
  <2>1. /\ BlockBytes(b) \in Seq(Signed) /\ BlockBytes(e) \in Seq(Signed)
        /\ Len(BlockBytes(b)) = Len(BlockBytes(e))
    BY <1>3, BlocksInPlace
  <2>2. Holds(h, 85, BlockBytes(b)) /\ Holds(h, 85, BlockBytes(e))
    BY <1>1, <1>2
  <2>. HIDE DEF h
  <2>3. BlockBytes(b) = BlockBytes(e)
    BY <2>1, <2>2, HeldOnce
  <2>. QED
    BY <1>3, <2>3, BlocksOnce
<1>. HIDE DEF h, R
<1>8. c.nonce = d.nonce
  <2>. DEFINE x == c.nonce
              y == d.nonce
              n == 32
              o == 1
  <2>1. n \in Nat /\ x \in Bytes(n) /\ y \in Bytes(n) /\ Holds(h, o, x) /\ Holds(h, o, y)
    BY <1>1, <1>2, <1>3
  <2>. HIDE DEF x, y, n, o
  <2>2. x = y
    BY ONLY <2>1, <1>4, Zenon
  <2>. QED
    BY <2>2 DEF x, y
<1>9. c.agentId = d.agentId
  <2>. DEFINE x == c.agentId
              y == d.agentId
              n == 32
              o == 33
  <2>1. n \in Nat /\ x \in Bytes(n) /\ y \in Bytes(n) /\ Holds(h, o, x) /\ Holds(h, o, y)
    BY <1>1, <1>2, <1>3
  <2>. HIDE DEF x, y, n, o
  <2>2. x = y
    BY ONLY <2>1, <1>4, Zenon
  <2>. QED
    BY <2>2 DEF x, y
<1>10. c.threshold = d.threshold
  <2>. DEFINE x == c.threshold
              y == d.threshold
              n == 16
              o == 65
  <2>1. n \in Nat /\ x \in Bytes(n) /\ y \in Bytes(n) /\ Holds(h, o, R(x)) /\ Holds(h, o, R(y))
    BY <1>1, <1>2, <1>3
  <2>. HIDE DEF x, y, n, o
  <2>2. x = y
    BY ONLY <2>1, <1>5, Zenon
  <2>. QED
    BY <2>2 DEF x, y
<1>11. c.chainId = d.chainId
  <2>. DEFINE x == c.chainId
              y == d.chainId
              n == 4
              o == 81
  <2>1. n \in Nat /\ x \in Bytes(n) /\ y \in Bytes(n) /\ Holds(h, o, R(x)) /\ Holds(h, o, R(y))
    BY <1>1, <1>2, <1>3
  <2>. HIDE DEF x, y, n, o
  <2>2. x = y
    BY ONLY <2>1, <1>5, Zenon
  <2>. QED
    BY <2>2 DEF x, y
<1>. QED
  BY <1>6, <1>8, <1>9, <1>10, <1>11 DEF ChallengeBytes

-----------------------------------------------------------------------------
(***************************************************************************)
(* FoldLeft is a recursion over the sets 1..k, from the greatest element   *)
(* down.  It has a solution when the steps stay within some set of values. *)
(***************************************************************************)
FoldSteps(it, n, base, step) ==
  \A s \in SUBSET (1..n) :
    it[s] = IF s = {} THEN base ELSE step[Max(s)][it[s \ {Max(s)}]]

LEMMA FoldExists ==
  ASSUME NEW n \in Nat, NEW V, NEW base \in V, NEW step \in [1..n -> [V -> V]]
  PROVE  \E it \in [SUBSET (1..n) -> V] : FoldSteps(it, n, base, step)
<1>. DEFINE S == 1..n
            Value(it, s) == IF s = {} THEN base ELSE step[Max(s)][it[s \ {Max(s)}]]
            Up(it, k) == \A s \in SUBSET S : Cardinality(s) <= k => it[s] = Value(it, s)
            A == {k \in Nat : \E it \in [SUBSET S -> V] : Up(it, k)}
<1>0. ASSUME NEW s \in SUBSET S
      PROVE  /\ Cardinality(s) \in Nat
             /\ Cardinality(s) <= 0 => s = {}
             /\ s # {} => /\ Max(s) \in S /\ s \ {Max(s)} \in SUBSET S
                          /\ Cardinality(s \ {Max(s)}) = Cardinality(s) - 1
  BY FromTheEnd
<1>1. ASSUME NEW it \in [SUBSET S -> V], NEW s \in SUBSET S PROVE Value(it, s) \in V
  <2>1. CASE s = {}
    BY <2>1
  <2>2. CASE s # {}
    <3>1. Max(s) \in S /\ s \ {Max(s)} \in SUBSET S
      BY <1>0, <2>2
    <3>2. step[Max(s)] \in [V -> V] /\ it[s \ {Max(s)}] \in V
      BY <1>1, <3>1
    <3>3. step[Max(s)][it[s \ {Max(s)}]] \in V
      BY <3>2
    <3>. QED
      BY <2>2, <3>3
  <2>. QED
    BY <2>1, <2>2
<1>2. 0 \in A
  <2>. DEFINE it == [s \in SUBSET S |-> base]
  <2>1. it \in [SUBSET S -> V]
    OBVIOUS
  <2>2. Up(it, 0)
    BY <1>0
  <2>. HIDE DEF it, Value
  <2>. QED
    BY <2>1, <2>2
<1>3. ASSUME NEW k \in Nat, k \in A PROVE k + 1 \in A
  <2>1. PICK it \in [SUBSET S -> V] : Up(it, k)
    BY <1>3
  <2>. DEFINE jt == [s \in SUBSET S |-> IF Cardinality(s) <= k THEN it[s] ELSE Value(it, s)]
  <2>2. jt \in [SUBSET S -> V]
    <3>. HIDE DEF S, Value
    <3>. QED
      BY <1>1
  <2>3. ASSUME NEW s \in SUBSET S, Cardinality(s) <= k + 1 PROVE jt[s] = Value(jt, s)
    <3>1. jt[s] = Value(it, s)
      BY <2>1
    <3>2. CASE s = {}
      BY <3>1, <3>2
    <3>3. CASE s # {}
      <4>1. s \ {Max(s)} \in SUBSET S /\ Cardinality(s \ {Max(s)}) <= k
        BY <1>0, <2>3, <3>3
      <4>2. jt[s \ {Max(s)}] = it[s \ {Max(s)}]
        BY <4>1
      <4>. HIDE DEF jt
      <4>. QED
        BY <3>1, <3>3, <4>2
    <3>. QED
      BY <3>2, <3>3
  <2>. HIDE DEF jt, Value
  <2>4. Up(jt, k + 1)
    BY <2>3
  <2>. HIDE DEF Up
  <2>5. \E f \in [SUBSET S -> V] : Up(f, k + 1)
    BY <2>2, <2>4
  <2>. QED
    BY <2>5
<1>4. n \in A
  <2>. HIDE DEF A
  <2>. QED
    BY <1>2, <1>3, Induction
<1>5. PICK it \in [SUBSET S -> V] : Up(it, n)
  BY <1>4
<1>6. \A s \in SUBSET S : Cardinality(s) <= n
  <2>1. IsFiniteSet(S) /\ Cardinality(S) = n
    BY FS_Interval
  <2>. HIDE DEF S
  <2>. QED
    BY <2>1, SubsetFacts
<1>7. FoldSteps(it, n, base, step)
  BY <1>5, <1>6 DEF FoldSteps
<1>. QED
  BY <1>7

LEMMA UpTo ==
  ASSUME NEW n \in Nat, NEW k \in 0..(n - 1)
  PROVE  /\ 1..(k + 1) \in SUBSET (1..n) /\ 1..(k + 1) # {}
         /\ Max(1..(k + 1)) = k + 1
         /\ (1..(k + 1)) \ {k + 1} = 1..k
<1>. DEFINE s == 1..(k + 1)
<1>1. s \in SUBSET (1..n) /\ s # {} /\ k + 1 \in s /\ \A x \in s : x <= k + 1 /\ x \in Nat
  OBVIOUS
<1>2. IsFiniteSet(s) /\ s \in SUBSET Nat
  BY FS_Interval
<1>3. s \ {k + 1} = 1..k
  OBVIOUS
<1>. HIDE DEF s
<1>4. Max(s) \in s /\ Max(s) >= k + 1
  BY <1>1, <1>2, MaxFacts
<1>5. Max(s) = k + 1
  <2>. DEFINE m == Max(s)
  <2>1. m \in Nat /\ m <= k + 1 /\ m >= k + 1
    BY <1>1, <1>4
  <2>. HIDE DEF m
  <2>2. m = k + 1
    BY <2>1
  <2>. QED
    BY <2>2 DEF m
<1>. QED
  BY <1>1, <1>3, <1>5 DEF s

(***************************************************************************)
(* The number of a length: digit by digit.                                 *)
(***************************************************************************)
LEMMA BigEndianRun ==
  ASSUME NEW bytes \in Seq(Byte)
  PROVE  \E run : /\ run[0] = 0
                  /\ \A k \in 0..(Len(bytes) - 1) : run[k + 1] = run[k] * 256 + bytes[k + 1]
                  /\ BigEndian(bytes) = run[Len(bytes)]
<1>. DEFINE n == Len(bytes)
            S == DOMAIN bytes
            Value(it, s) == IF s = {} THEN 0 ELSE it[s \ {Max(s)}] * 256 + bytes[Max(s)]
            Solves(it) == it = [s \in SUBSET S |-> Value(it, s)]
            iter == CHOOSE it : Solves(it)
            step == [k \in 1..n |-> [v \in Nat |-> v * 256 + bytes[k]]]
<1>1. BigEndian(bytes) = iter[S]
  BY DEF BigEndian, FoldLeft, MapThenFoldSet
<1>2. n \in Nat /\ S = 1..n /\ 0 \in Nat /\ \A k \in 1..n : bytes[k] \in Nat
  <2>1. n \in Nat /\ S = 1..n
    OBVIOUS
  <2>2. ASSUME NEW k \in 1..n PROVE bytes[k] \in Nat
    <3>1. \A b \in Byte : b \in Nat
      BY DEF Byte
    <3>. QED
      BY <3>1
  <2>. QED
    BY <2>1, <2>2
<1>. HIDE DEF n, S
<1>3. step \in [1..n -> [Nat -> Nat]]
  BY <1>2
<1>4. \A k \in 1..n : \A v \in Nat : step[k][v] = v * 256 + bytes[k]
  OBVIOUS
<1>. HIDE DEF step
<1>5. PICK it \in [SUBSET (1..n) -> Nat] : FoldSteps(it, n, 0, step)
  BY <1>2, <1>3, FoldExists
<1>6. Solves(it)
  <2>1. ASSUME NEW s \in SUBSET S PROVE it[s] = Value(it, s)
    <3>1. s # {} => Max(s) \in 1..n /\ it[s \ {Max(s)}] \in Nat
      BY <1>2, FromTheEnd
    <3>. QED
      BY <1>2, <1>4, <1>5, <3>1 DEF FoldSteps
  <2>2. it = [s \in SUBSET S |-> it[s]]
    BY <1>2
  <2>. HIDE DEF Value
  <2>3. [s \in SUBSET S |-> it[s]] = [s \in SUBSET S |-> Value(it, s)]
    BY <2>1
  <2>. QED
    BY <2>2, <2>3
<1>7. Solves(iter)
  <2>. HIDE DEF Solves
  <2>. QED
    BY <1>6
<1>8. \A s \in SUBSET S : iter[s] = Value(iter, s)
  <2>. HIDE DEF iter, Value
  <2>. QED
    BY <1>7
<1>. HIDE DEF iter, Solves
<1>. DEFINE run == [k \in 0..n |-> iter[1..k]]
<1>9. run[0] = 0
  <2>1. 1..0 = {} /\ 0 \in 0..n
    BY <1>2
  <2>. QED
    BY <1>8, <2>1
<1>10. ASSUME NEW k \in 0..(n - 1) PROVE run[k + 1] = run[k] * 256 + bytes[k + 1]
  <2>1. run[k] = iter[1..k] /\ run[k + 1] = iter[1..(k + 1)]
    BY <1>2
  <2>2. /\ 1..(k + 1) \in SUBSET (1..n) /\ 1..(k + 1) # {} /\ Max(1..(k + 1)) = k + 1
        /\ (1..(k + 1)) \ {k + 1} = 1..k
    BY <1>2, UpTo
  <2>. DEFINE s == 1..(k + 1)
              t == 1..k
  <2>. HIDE DEF s, t
  <2>3. s \in SUBSET S /\ s # {} /\ Max(s) = k + 1 /\ s \ {k + 1} = t
    BY <1>2, <2>2 DEF s, t
  <2>4. iter[s] = iter[t] * 256 + bytes[k + 1]
    BY <1>8, <2>3
  <2>. HIDE DEF run
  <2>. QED
    BY <2>1, <2>4 DEF s, t
<1>11. BigEndian(bytes) = run[n]
  BY <1>1, <1>2
<1>. HIDE DEF run
<1>. QED
  BY <1>9, <1>10, <1>11 DEF n

LEMMA BigEndianSmall ==
  /\ \A bytes \in Seq(Byte) : BigEndian(bytes) \in Nat
  /\ \A a \in Byte : BigEndian(<<a>>) = a
  /\ \A a, b \in Byte : BigEndian(<<a, b>>) = a * 256 + b
<1>0. \A b \in Byte : b \in Nat
  BY DEF Byte
<1>1. ASSUME NEW bytes \in Seq(Byte) PROVE BigEndian(bytes) \in Nat
  <2>. DEFINE n == Len(bytes)
  <2>1. PICK run : /\ run[0] = 0
                   /\ \A k \in 0..(n - 1) : run[k + 1] = run[k] * 256 + bytes[k + 1]
                   /\ BigEndian(bytes) = run[n]
    BY BigEndianRun
  <2>2. n \in Nat /\ \A k \in 0..(n - 1) : bytes[k + 1] \in Nat
    BY <1>0
  <2>. DEFINE A == {k \in Nat : k <= n => run[k] \in Nat}
  <2>. HIDE DEF n
  <2>3. 0 \in A
    BY <2>1
  <2>4. ASSUME NEW k \in Nat, k \in A PROVE k + 1 \in A
    <3>. SUFFICES ASSUME k + 1 <= n PROVE run[k + 1] \in Nat
      OBVIOUS
    <3>1. k \in 0..(n - 1) /\ run[k] \in Nat
      BY <2>2, <2>4
    <3>. QED
      BY <2>1, <2>2, <3>1
  <2>5. n \in A
    <3>. HIDE DEF A
    <3>. QED
      BY <2>2, <2>3, <2>4, Induction
  <2>. QED
    BY <2>1, <2>5
<1>2. ASSUME NEW a \in Byte PROVE BigEndian(<<a>>) = a
  <2>. DEFINE bytes == <<a>>
  <2>0. bytes \in Seq(Byte) /\ Len(bytes) = 1 /\ bytes[1] = a /\ a \in Nat
    BY <1>0
  <2>. HIDE DEF bytes
  <2>1. PICK run : /\ run[0] = 0
                   /\ \A k \in 0..(Len(bytes) - 1) : run[k + 1] = run[k] * 256 + bytes[k + 1]
                   /\ BigEndian(bytes) = run[Len(bytes)]
    BY <2>0, BigEndianRun
  <2>2. run[0 + 1] = 0 * 256 + a
    BY <2>0, <2>1
  <2>. QED
    BY <2>0, <2>1, <2>2 DEF bytes
<1>3. ASSUME NEW a \in Byte, NEW b \in Byte PROVE BigEndian(<<a, b>>) = a * 256 + b
  <2>. DEFINE bytes == <<a, b>>
  <2>0. /\ bytes \in Seq(Byte) /\ Len(bytes) = 2 /\ bytes[1] = a /\ bytes[2] = b
        /\ a \in Nat /\ b \in Nat
    BY <1>0
  <2>. HIDE DEF bytes
  <2>1. PICK run : /\ run[0] = 0
                   /\ \A k \in 0..(Len(bytes) - 1) : run[k + 1] = run[k] * 256 + bytes[k + 1]
                   /\ BigEndian(bytes) = run[Len(bytes)]
    BY <2>0, BigEndianRun
  <2>2. run[0 + 1] = 0 * 256 + a
    BY <2>0, <2>1
  <2>3. run[1 + 1] = run[1] * 256 + b
    BY <2>0, <2>1
  <2>. QED
    BY <2>0, <2>1, <2>2, <2>3 DEF bytes
<1>. QED
  BY <1>1, <1>2, <1>3

(***************************************************************************)
(* The five classes of lead bytes.                                         *)
(***************************************************************************)
LEMMA LeadFacts ==
  ASSUME NEW b \in Byte
  PROVE  /\ Lead(b).list \in BOOLEAN /\ Lead(b).long \in BOOLEAN
         /\ Lead(b).head \in 0..1 /\ Lead(b).len \in 0..55
         /\ Lead(b).long => Lead(b).head = 1 /\ Lead(b).len >= 1
         /\ Lead(b).head = 0 => ~Lead(b).long /\ Lead(b).len = 1
<1>1. b \in Nat /\ b <= 255
  BY DEF Byte
<1>2. CASE b <= 127
  BY <1>1, <1>2 DEF Lead
<1>3. CASE b \in 128..183
  BY <1>1, <1>3 DEF Lead
<1>4. CASE b \in 184..191
  BY <1>1, <1>4 DEF Lead
<1>5. CASE b \in 192..247
  BY <1>1, <1>5 DEF Lead
<1>6. CASE b >= 248
  BY <1>1, <1>6 DEF Lead
<1>. QED
  BY <1>1, <1>2, <1>3, <1>4, <1>5, <1>6

(***************************************************************************)
(* What is read at a position is one item, further on and within the body. *)
(***************************************************************************)
AtMostOne(S) == \A x, y \in S : x = y

LEMMA SliceFacts ==
  ASSUME NEW hay \in Seq(Byte), NEW first \in Nat \ {0}, NEW count \in Nat,
         first + count - 1 <= Len(hay)
  PROVE  /\ Slice(hay, first, count) \in Seq(Byte)
         /\ Len(Slice(hay, first, count)) = count
         /\ \A k \in 1..count : Slice(hay, first, count)[k] = hay[first + k - 1]
<1>. DEFINE last == first + count - 1
<1>1. /\ first \in Int /\ last \in Int /\ last - first + 1 = count
      /\ first <= last <=> count # 0
  OBVIOUS
<1>2. \A i \in first..last : hay[i] \in Byte
  <2>1. \A i \in first..last : i \in 1..Len(hay)
    OBVIOUS
  <2>. HIDE DEF last
  <2>. QED
    BY <2>1
<1>. HIDE DEF last
<1>3. /\ SubSeq(hay, first, last) \in Seq(Byte)
      /\ Len(SubSeq(hay, first, last)) = IF first <= last THEN last - first + 1 ELSE 0
      /\ \A i \in 1..last - first + 1 : SubSeq(hay, first, last)[i] = hay[first + i - 1]
  BY <1>1, <1>2, SubSeqProperties
<1>4. Slice(hay, first, count) = SubSeq(hay, first, last)
  BY DEF Slice, last
<1>. HIDE DEF Slice
<1>. QED
  BY <1>1, <1>3, <1>4

LEMMA ReadItemFacts ==
  ASSUME NEW hay \in Seq(Byte), NEW pos \in Nat \ {0}
  PROVE  /\ AtMostOne(ReadItem(hay, pos))
         /\ \A i \in ReadItem(hay, pos) :
              /\ pos \in 1..Len(hay) /\ i \in [list : BOOLEAN, start : Nat, size : Nat]
              /\ i.start >= pos /\ After(i) \in (pos + 1)..(Len(hay) + 1)
              /\ Payload(hay, i) \in Seq(Byte) /\ Len(Payload(hay, i)) = i.size
              /\ \A k \in 1..i.size : Payload(hay, i)[k] = hay[i.start + k - 1]
<1>. DEFINE lead  == Lead(hay[pos])
            start == pos + lead.head + (IF lead.long THEN lead.len ELSE 0)
            size  == IF lead.long THEN BigEndian(Slice(hay, pos + 1, lead.len))
                     ELSE lead.len
            item  == [list |-> lead.list, start |-> start, size |-> size]
<1>1. \A i \in ReadItem(hay, pos) :
        i = item /\ ~(pos > Len(hay)) /\ ~(start - 1 > Len(hay)) /\ ~(start + size - 1 > Len(hay))
  <2>. HIDE DEF start, size, lead
  <2>. QED
    BY DEF ReadItem, start, size, lead
<1>2. SUFFICES ASSUME NEW i \in ReadItem(hay, pos)
               PROVE  /\ pos \in 1..Len(hay) /\ item \in [list : BOOLEAN, start : Nat, size : Nat]
                      /\ item.start >= pos /\ After(item) \in (pos + 1)..(Len(hay) + 1)
                      /\ Payload(hay, item) \in Seq(Byte) /\ Len(Payload(hay, item)) = item.size
                      /\ \A k \in 1..item.size : Payload(hay, item)[k] = hay[item.start + k - 1]
  <2>. HIDE DEF item
  <2>. QED
    BY <1>1, Zenon DEF AtMostOne
<1>3. pos \in 1..Len(hay) /\ Len(hay) \in Nat /\ hay[pos] \in Byte
  BY <1>1
<1>4. /\ lead.list \in BOOLEAN /\ lead.long \in BOOLEAN
      /\ lead.head \in 0..1 /\ lead.len \in 0..55
      /\ lead.long => lead.head = 1 /\ lead.len >= 1
      /\ lead.head = 0 => ~lead.long /\ lead.len = 1
  BY <1>3, LeadFacts
<1>. DEFINE head == lead.head
            len == lead.len
<1>13. /\ lead.long => start = pos + head + len /\ size = BigEndian(Slice(hay, pos + 1, len))
       /\ ~lead.long => start = pos + head + 0 /\ size = len
  <2>. HIDE DEF lead, head, len
  <2>. QED
    BY Zenon DEF head, len
<1>14. head \in 0..1 /\ len \in 0..55
  BY <1>4
<1>. HIDE DEF head, len
<1>5. start \in Nat /\ start >= pos /\ start - 1 <= Len(hay)
  <2>1. ~(start - 1 > Len(hay))
    BY <1>1
  <2>2. start = pos + head + len \/ start = pos + head + 0
    BY <1>4, <1>13
  <2>. HIDE DEF start, lead
  <2>. QED
    BY <1>3, <1>14, <2>1, <2>2
<1>6. size \in Nat /\ start + size <= Len(hay) + 1
  <2>1. ~(start + size - 1 > Len(hay))
    BY <1>1
  <2>2. CASE lead.long
    <3>0. start = pos + head + len /\ head = 1 /\ size = BigEndian(Slice(hay, pos + 1, len))
      BY <1>4, <1>13, <2>2 DEF head
    <3>1. (pos + 1) + len - 1 <= Len(hay) /\ pos + 1 \in Nat \ {0} /\ len \in Nat
      <4>. HIDE DEF start, size, lead
      <4>. QED
        BY <1>3, <1>5, <1>14, <3>0
    <3>2. Slice(hay, pos + 1, len) \in Seq(Byte)
      BY <3>1, SliceFacts
    <3>3. size \in Nat
      <4>. HIDE DEF start, size, lead
      <4>. QED
        BY <3>0, <3>2, BigEndianSmall
    <3>. HIDE DEF start, size
    <3>. QED
      BY <1>3, <1>5, <2>1, <3>3
  <2>3. CASE ~lead.long
    <3>1. size \in Nat
      <4>. HIDE DEF start, size, lead
      <4>. QED
        BY <1>13, <1>14, <2>3
    <3>. HIDE DEF start, size
    <3>. QED
      BY <1>3, <1>5, <2>1, <3>1
  <2>. QED
    BY <1>4, <2>2, <2>3
<1>7. start + size >= pos + 1
  <2>1. CASE lead.head = 0
    <3>1. size = 1
      <4>. HIDE DEF start, size, lead
      <4>. QED
        BY <1>4, <1>13, <2>1 DEF len
    <3>. HIDE DEF start, size
    <3>. QED
      BY <1>3, <1>5, <3>1
  <2>2. CASE lead.head = 1
    <3>1. start >= pos + 1
      <4>1. start = pos + head + len \/ start = pos + head + 0
        BY <1>4, <1>13
      <4>2. head = 1
        BY <2>2 DEF head
      <4>. HIDE DEF start, lead
      <4>. QED
        BY <1>3, <1>14, <4>1, <4>2
    <3>. HIDE DEF start, size
    <3>. QED
      BY <1>3, <1>5, <1>6, <3>1
  <2>. QED
    BY <1>4, <2>1, <2>2
<1>8. item.list = lead.list /\ item.start = start /\ item.size = size
  <2>. HIDE DEF start, size, lead
  <2>. QED
    OBVIOUS
<1>9. start \in Nat \ {0} /\ size \in Nat /\ start + size - 1 <= Len(hay)
  <2>. HIDE DEF start, size, lead
  <2>. QED
    BY <1>3, <1>5, <1>6
<1>10. item \in [list : BOOLEAN, start : Nat, size : Nat]
  <2>. HIDE DEF start, size, lead
  <2>. QED
    BY <1>4, <1>9
<1>. HIDE DEF item, start, size, lead
<1>11. After(item) \in (pos + 1)..(Len(hay) + 1)
  BY <1>3, <1>5, <1>6, <1>7, <1>8 DEF After
<1>12. /\ Payload(hay, item) \in Seq(Byte) /\ Len(Payload(hay, item)) = item.size
       /\ \A k \in 1..item.size : Payload(hay, item)[k] = hay[item.start + k - 1]
  <2>1. Payload(hay, item) = Slice(hay, start, size)
    BY <1>8 DEF Payload
  <2>. QED
    BY <1>8, <1>9, <2>1, SliceFacts
<1>. QED
  BY <1>3, <1>5, <1>8, <1>10, <1>11, <1>12

(***************************************************************************)
(* The form of an item, by the class of its lead byte.                     *)
(***************************************************************************)
IsItem(hay, pos, i) ==
  /\ i = [list |-> Lead(hay[pos]).list, start |-> i.start, size |-> i.size]
  /\ Lead(hay[pos]).long =>
       /\ i.start = pos + Lead(hay[pos]).head + Lead(hay[pos]).len
       /\ i.size = BigEndian(Slice(hay, pos + 1, Lead(hay[pos]).len))
  /\ ~Lead(hay[pos]).long =>
       /\ i.start = pos + Lead(hay[pos]).head + 0
       /\ i.size = Lead(hay[pos]).len

LEMMA ItemForm ==
  ASSUME NEW hay, NEW pos, NEW i
  PROVE  i \in ReadItem(hay, pos) <=>
           /\ ~(pos > Len(hay)) /\ IsItem(hay, pos, i)
           /\ ~(i.start - 1 > Len(hay)) /\ ~(i.start + i.size - 1 > Len(hay))
<1>. DEFINE lead  == Lead(hay[pos])
            start == pos + lead.head + (IF lead.long THEN lead.len ELSE 0)
            size  == IF lead.long THEN BigEndian(Slice(hay, pos + 1, lead.len))
                     ELSE lead.len
            item  == [list |-> lead.list, start |-> start, size |-> size]
<1>1. i \in ReadItem(hay, pos) <=>
        /\ i = item /\ ~(pos > Len(hay)) /\ ~(start - 1 > Len(hay))
        /\ ~(start + size - 1 > Len(hay))
  <2>. HIDE DEF start, size, lead
  <2>. QED
    BY Zenon DEF ReadItem, start, size, lead
<1>2. /\ lead.long => start = pos + lead.head + lead.len
                      /\ size = BigEndian(Slice(hay, pos + 1, lead.len))
      /\ ~lead.long => start = pos + lead.head + 0 /\ size = lead.len
  <2>. HIDE DEF lead
  <2>. QED
    BY Zenon
<1>3. item.start = start /\ item.size = size
  <2>. HIDE DEF start, size, lead
  <2>. QED
    OBVIOUS
<1>4. IsItem(hay, pos, i) <=>
        /\ i = [list |-> lead.list, start |-> i.start, size |-> i.size]
        /\ lead.long => /\ i.start = pos + lead.head + lead.len
                        /\ i.size = BigEndian(Slice(hay, pos + 1, lead.len))
        /\ ~lead.long => i.start = pos + lead.head + 0 /\ i.size = lead.len
  BY Zenon DEF IsItem
<1>. HIDE DEF start, size, lead
<1>5. IsItem(hay, pos, i) <=> i = item
  <2>1. i = item => IsItem(hay, pos, i)
    <3>. SUFFICES ASSUME i = item PROVE IsItem(hay, pos, i)
      OBVIOUS
    <3>1. i.start = start /\ i.size = size
      BY <1>3
    <3>. QED
      BY <1>2, <1>4, <3>1, Zenon
  <2>2. IsItem(hay, pos, i) => i = item
    <3>. SUFFICES ASSUME IsItem(hay, pos, i) PROVE i = item
      OBVIOUS
    <3>1. i.start = start /\ i.size = size
      BY <1>2, <1>4, Zenon
    <3>2. i = [list |-> lead.list, start |-> i.start, size |-> i.size]
      BY <1>4
    <3>. QED
      BY <3>1, <3>2
  <2>. QED
    BY <2>1, <2>2
<1>. HIDE DEF item
<1>6. i = item => i.start = start /\ i.size = size
  BY <1>3
<1>. QED
  BY <1>1, <1>5, <1>6, Zenon

(***************************************************************************)
(* An item is the same wherever the bytes stand that it is read from.      *)
(***************************************************************************)
Moved(i, offset) == [list |-> i.list, start |-> i.start + offset, size |-> i.size]

Within(body, hay, offset) ==
  /\ body \in Seq(Byte) /\ hay \in Seq(Byte) /\ offset \in Nat
  /\ offset + Len(body) <= Len(hay)
  /\ Holds(hay, offset, body)

LEMMA SliceMoved ==
  ASSUME NEW body, NEW hay, NEW offset, Within(body, hay, offset),
         NEW first \in Nat \ {0}, NEW count \in Nat, first + count - 1 <= Len(body)
  PROVE  Slice(hay, offset + first, count) = Slice(body, first, count)
<1>1. body \in Seq(Byte) /\ hay \in Seq(Byte) /\ offset \in Nat /\ Len(body) \in Nat
      /\ Len(hay) \in Nat /\ offset + Len(body) <= Len(hay)
  BY DEF Within
<1>2. offset + first \in Nat \ {0} /\ (offset + first) + count - 1 <= Len(hay)
  BY <1>1
<1>. DEFINE s == Slice(hay, offset + first, count)
            t == Slice(body, first, count)
<1>3. s \in Seq(Byte) /\ Len(s) = count /\ \A k \in 1..count : s[k] = hay[(offset + first) + k - 1]
  BY <1>1, <1>2, SliceFacts
<1>4. t \in Seq(Byte) /\ Len(t) = count /\ \A k \in 1..count : t[k] = body[first + k - 1]
  BY <1>1, SliceFacts
<1>5. ASSUME NEW k \in 1..count PROVE s[k] = t[k]
  <2>1. first + k - 1 \in 1..Len(body) /\ (offset + first) + k - 1 = offset + (first + k - 1)
    BY <1>1
  <2>2. hay[offset + (first + k - 1)] = body[first + k - 1]
    BY <2>1 DEF Within, Holds
  <2>. HIDE DEF s, t
  <2>. QED
    BY <1>3, <1>4, <2>1, <2>2
<1>. HIDE DEF s, t
<1>6. s = t
  BY <1>3, <1>4, <1>5, SeqEqual
<1>. QED
  BY <1>6 DEF s, t

LEMMA ItemMoved ==
  ASSUME NEW body, NEW hay, NEW offset, Within(body, hay, offset),
         NEW pos \in Nat \ {0}, NEW i \in ReadItem(body, pos)
  PROVE  /\ ReadItem(hay, offset + pos) = {Moved(i, offset)}
         /\ Payload(hay, Moved(i, offset)) = Payload(body, i)
         /\ After(Moved(i, offset)) = offset + After(i)
         /\ Canonical(hay, offset + pos, Moved(i, offset)) <=> Canonical(body, pos, i)
<1>1. body \in Seq(Byte) /\ hay \in Seq(Byte) /\ offset \in Nat /\ Len(body) \in Nat
      /\ Len(hay) \in Nat /\ offset + Len(body) <= Len(hay)
  BY DEF Within
<1>2. /\ pos \in 1..Len(body) /\ i \in [list : BOOLEAN, start : Nat, size : Nat]
      /\ i.start >= pos /\ After(i) \in (pos + 1)..(Len(body) + 1)
  BY <1>1, ReadItemFacts
<1>3. IsItem(body, pos, i) /\ ~(i.start - 1 > Len(body)) /\ ~(i.start + i.size - 1 > Len(body))
  BY ItemForm
<1>4. \A k \in 1..Len(body) : hay[offset + k] = body[k]
  BY DEF Within, Holds
<1>. DEFINE m == Moved(i, offset)
            lead == Lead(body[pos])
<1>5. m.list = i.list /\ m.start = i.start + offset /\ m.size = i.size
      /\ m = [list |-> i.list, start |-> m.start, size |-> m.size]
  BY DEF Moved
<1>6. hay[offset + pos] = body[pos] /\ offset + pos \in Nat \ {0} /\ body[pos] \in Byte
  BY <1>1, <1>2, <1>4
<1>7. /\ lead.head \in 0..1 /\ lead.len \in 0..55
      /\ lead.long => lead.head = 1 /\ lead.len >= 1
  BY <1>6, LeadFacts
<1>. DEFINE head == lead.head
            len == lead.len
<1>8. /\ i = [list |-> lead.list, start |-> i.start, size |-> i.size]
      /\ lead.long => /\ i.start = pos + head + len
                      /\ i.size = BigEndian(Slice(body, pos + 1, len))
      /\ ~lead.long => i.start = pos + head + 0 /\ i.size = len
  BY <1>3, Zenon DEF IsItem
<1>9. head \in 0..1 /\ len \in 0..55
  BY <1>7
<1>10. i.list = lead.list
  BY <1>8
<1>. HIDE DEF m, lead, head, len
<1>11. lead.long => /\ Slice(hay, (offset + pos) + 1, len) = Slice(body, pos + 1, len)
                    /\ pos + 1 \in 1..Len(body)
  <2>. SUFFICES ASSUME lead.long
                PROVE  /\ Slice(hay, (offset + pos) + 1, len) = Slice(body, pos + 1, len)
                       /\ pos + 1 \in 1..Len(body)
    OBVIOUS
  <2>1. head = 1 /\ len >= 1 /\ i.start = pos + head + len
    BY <1>7, <1>8 DEF head, len
  <2>2. (pos + 1) + len - 1 <= Len(body) /\ pos + 1 \in Nat \ {0} /\ len \in Nat
        /\ offset + (pos + 1) = (offset + pos) + 1 /\ pos + 1 \in 1..Len(body)
    BY <1>1, <1>2, <1>3, <1>9, <2>1
  <2>3. Slice(hay, offset + (pos + 1), len) = Slice(body, pos + 1, len)
    BY <2>2, SliceMoved
  <2>. QED
    BY <2>2, <2>3
<1>12. IsItem(hay, offset + pos, m)
  <2>1. lead.long => /\ m.start = (offset + pos) + head + len
                     /\ m.size = BigEndian(Slice(hay, (offset + pos) + 1, len))
    <3>. SUFFICES ASSUME lead.long
                  PROVE  /\ m.start = (offset + pos) + head + len
                         /\ m.size = BigEndian(Slice(hay, (offset + pos) + 1, len))
      OBVIOUS
    <3>1. i.start + offset = (offset + pos) + head + len
      BY <1>1, <1>2, <1>8, <1>9
    <3>. QED
      BY <1>5, <1>8, <1>11, <3>1
  <2>2. ~lead.long => m.start = (offset + pos) + head + 0 /\ m.size = len
    <3>. SUFFICES ASSUME ~lead.long
                  PROVE  m.start = (offset + pos) + head + 0 /\ m.size = len
      OBVIOUS
    <3>1. i.start = pos + head + 0 /\ i.size = len
      BY <1>8
    <3>2. i.start + offset = (offset + pos) + head + 0
      BY <1>1, <1>2, <1>9, <3>1
    <3>. QED
      BY <1>5, <3>1, <3>2
  <2>3. m = [list |-> lead.list, start |-> m.start, size |-> m.size]
    BY <1>5, <1>10
  <2>4. Lead(hay[offset + pos]) = lead
    BY <1>6 DEF lead
  <2>. QED
    BY <2>1, <2>2, <2>3, <2>4, Zenon DEF IsItem, head, len
<1>13. /\ ~(offset + pos > Len(hay)) /\ ~(m.start - 1 > Len(hay))
       /\ ~(m.start + m.size - 1 > Len(hay))
       /\ i.start \in Nat \ {0} /\ i.size \in Nat /\ i.start + i.size - 1 <= Len(body)
  BY <1>1, <1>2, <1>3, <1>5
<1>14. ReadItem(hay, offset + pos) = {m}
  <2>1. m \in ReadItem(hay, offset + pos)
    BY <1>12, <1>13, ItemForm
  <2>2. AtMostOne(ReadItem(hay, offset + pos))
    BY <1>1, <1>6, ReadItemFacts
  <2>. QED
    BY <2>1, <2>2 DEF AtMostOne
<1>15. Payload(hay, m) = Payload(body, i)
  <2>1. offset + i.start = m.start
    BY <1>1, <1>5, <1>13
  <2>2. Slice(hay, offset + i.start, i.size) = Slice(body, i.start, i.size)
    BY <1>13, SliceMoved
  <2>. QED
    BY <1>5, <2>1, <2>2 DEF Payload
<1>16. After(m) = offset + After(i)
  BY <1>1, <1>5, <1>13 DEF After
<1>17. Canonical(hay, offset + pos, m) <=> Canonical(body, pos, i)
  <2>1. lead.long => hay[(offset + pos) + 1] = body[pos + 1]
    <3>1. (offset + pos) + 1 = offset + (pos + 1)
      BY <1>1
    <3>. QED
      BY <1>4, <1>11, <3>1
  <2>2. i.size = 1 => hay[m.start] = body[i.start]
    <3>1. m.start = offset + i.start
      BY <1>1, <1>5, <1>13
    <3>2. i.size = 1 => i.start \in 1..Len(body)
      BY <1>1, <1>13
    <3>. QED
      BY <1>4, <3>1, <3>2
  <2>3. Lead(hay[offset + pos]) = lead /\ Lead(body[pos]) = lead
    BY <1>6 DEF lead
  <2>. QED
    BY <1>5, <2>1, <2>2, <2>3, Zenon DEF Canonical
<1>. QED
  BY <1>14, <1>15, <1>16, <1>17 DEF m

(***************************************************************************)
(* A walk over items, item by item; and items one after the other.         *)
(***************************************************************************)
Hop(header, ps) == UNION {{After(i) : i \in AlloyHeader(header, p)} : p \in ps}

LEMMA HopWithin ==
  ASSUME NEW header \in Seq(Byte), NEW ps \in SUBSET (1..(Len(header) + 1))
  PROVE  /\ Hop(header, ps) \in SUBSET (1..(Len(header) + 1))
         /\ AtMostOne(ps) => AtMostOne(Hop(header, ps))
<1>1. ASSUME NEW p \in ps, NEW i \in AlloyHeader(header, p)
      PROVE  i \in ReadItem(header, p) /\ After(i) \in 1..(Len(header) + 1)
  <2>1. p \in Nat \ {0} /\ Len(header) \in Nat
    OBVIOUS
  <2>2. i \in ReadItem(header, p)
    BY DEF AlloyHeader
  <2>3. After(i) \in (p + 1)..(Len(header) + 1)
    BY <2>1, <2>2, ReadItemFacts
  <2>. QED
    BY <2>1, <2>2, <2>3
<1>2. \A p \in ps : AtMostOne(ReadItem(header, p))
  BY ReadItemFacts
<1>. QED
  BY <1>1, <1>2 DEF Hop, AtMostOne

LEMMA SkipRun ==
  ASSUME NEW header \in Seq(Byte), NEW from \in SUBSET (1..(Len(header) + 1)), NEW n \in Nat
  PROVE  \E run : /\ run[0] = from
                  /\ \A k \in 0..(n - 1) : run[k + 1] = Hop(header, run[k])
                  /\ Skip(header, from, n) = run[n]
<1>. DEFINE ks == [k \in 1..n |-> k]
            S == DOMAIN ks
            V == SUBSET (1..(Len(header) + 1))
            Value(it, s) == IF s = {} THEN from ELSE Hop(header, it[s \ {Max(s)}])
            Solves(it) == it = [s \in SUBSET S |-> Value(it, s)]
            iter == CHOOSE it : Solves(it)
            step == [k \in 1..n |-> [v \in V |-> Hop(header, v)]]
<1>1. Skip(header, from, n) = iter[S]
  BY DEF Skip, FoldLeft, MapThenFoldSet, Hop
<1>2. S = 1..n /\ from \in V
  OBVIOUS
<1>3. \A v \in V : Hop(header, v) \in V
  BY HopWithin
<1>. HIDE DEF ks, S, V
<1>4. step \in [1..n -> [V -> V]] /\ \A k \in 1..n : \A v \in V : step[k][v] = Hop(header, v)
  BY <1>3
<1>. HIDE DEF step
<1>5. PICK it \in [SUBSET (1..n) -> V] : FoldSteps(it, n, from, step)
  BY <1>2, <1>4, FoldExists
<1>6. Solves(it)
  <2>1. ASSUME NEW s \in SUBSET S PROVE it[s] = Value(it, s)
    <3>1. s # {} => Max(s) \in 1..n /\ it[s \ {Max(s)}] \in V
      BY <1>2, FromTheEnd
    <3>. QED
      BY <1>2, <1>4, <1>5, <3>1 DEF FoldSteps
  <2>2. it = [s \in SUBSET S |-> it[s]]
    BY <1>2
  <2>. HIDE DEF Value
  <2>3. [s \in SUBSET S |-> it[s]] = [s \in SUBSET S |-> Value(it, s)]
    BY <2>1
  <2>. QED
    BY <2>2, <2>3
<1>7. Solves(iter)
  <2>. HIDE DEF Solves
  <2>. QED
    BY <1>6
<1>8. \A s \in SUBSET S : iter[s] = Value(iter, s)
  <2>. HIDE DEF iter, Value
  <2>. QED
    BY <1>7
<1>. HIDE DEF iter, Solves
<1>. DEFINE run == [k \in 0..n |-> iter[1..k]]
<1>9. run[0] = from
  <2>1. 1..0 = {} /\ 0 \in 0..n
    OBVIOUS
  <2>. QED
    BY <1>8, <2>1
<1>10. ASSUME NEW k \in 0..(n - 1) PROVE run[k + 1] = Hop(header, run[k])
  <2>1. run[k] = iter[1..k] /\ run[k + 1] = iter[1..(k + 1)]
    OBVIOUS
  <2>2. /\ 1..(k + 1) \in SUBSET (1..n) /\ 1..(k + 1) # {} /\ Max(1..(k + 1)) = k + 1
        /\ (1..(k + 1)) \ {k + 1} = 1..k
    BY UpTo
  <2>. DEFINE s == 1..(k + 1)
              t == 1..k
  <2>. HIDE DEF s, t
  <2>3. s \in SUBSET S /\ s # {} /\ Max(s) = k + 1 /\ s \ {k + 1} = t
    BY <1>2, <2>2 DEF s, t
  <2>4. iter[s] = Hop(header, iter[t])
    BY <1>8, <2>3
  <2>. HIDE DEF run
  <2>. QED
    BY <2>1, <2>4 DEF s, t
<1>11. Skip(header, from, n) = run[n]
  BY <1>1, <1>2
<1>. HIDE DEF run
<1>. QED
  BY <1>9, <1>10, <1>11

LEMMA JoinedRun ==
  ASSUME NEW items \in Seq(RlpItem), NEW S, \A item \in RlpItem : EncodeItem(item) \in Seq(S)
  PROVE  \E run : /\ run[0] = <<>>
                  /\ \A k \in 0..(Len(items) - 1) : run[k + 1] = run[k] \o EncodeItem(items[k + 1])
                  /\ Joined(items) = run[Len(items)]
<1>. DEFINE n == Len(items)
            D == DOMAIN items
            V == Seq(S)
            And(v, k) == v \o EncodeItem(items[k])
            Value(it, s) == IF s = {} THEN <<>> ELSE And(it[s \ {Max(s)}], Max(s))
            Solves(it) == it = [s \in SUBSET D |-> Value(it, s)]
            iter == CHOOSE it : Solves(it)
            step == [k \in 1..n |-> [v \in V |-> And(v, k)]]
<1>1. Joined(items) = iter[D]
  BY Zenon DEF Joined, FoldLeft, MapThenFoldSet
<1>2. D = 1..n /\ <<>> \in V /\ n \in Nat
  OBVIOUS
<1>3. \A v \in V : \A k \in 1..n : And(v, k) \in V
  <2>1. \A k \in 1..n : items[k] \in RlpItem
    OBVIOUS
  <2>. QED
    BY <2>1, ConcatProperties
<1>. HIDE DEF n, D, V, And
<1>4. step \in [1..n -> [V -> V]] /\ \A k \in 1..n : \A v \in V : step[k][v] = And(v, k)
  BY <1>3
<1>. HIDE DEF step
<1>5. PICK it \in [SUBSET (1..n) -> V] : FoldSteps(it, n, <<>>, step)
  BY <1>2, <1>4, FoldExists
<1>6. Solves(it)
  <2>1. ASSUME NEW s \in SUBSET D PROVE it[s] = Value(it, s)
    <3>1. s # {} => Max(s) \in 1..n /\ it[s \ {Max(s)}] \in V
      BY <1>2, FromTheEnd
    <3>. QED
      BY <1>2, <1>4, <1>5, <3>1 DEF FoldSteps
  <2>2. it = [s \in SUBSET D |-> it[s]]
    BY <1>2
  <2>. HIDE DEF Value
  <2>3. [s \in SUBSET D |-> it[s]] = [s \in SUBSET D |-> Value(it, s)]
    BY <2>1
  <2>. QED
    BY <2>2, <2>3
<1>7. Solves(iter)
  <2>. HIDE DEF Solves
  <2>. QED
    BY <1>6
<1>8. \A s \in SUBSET D : iter[s] = Value(iter, s)
  <2>. HIDE DEF iter, Value
  <2>. QED
    BY <1>7
<1>. HIDE DEF iter, Solves
<1>. DEFINE run == [k \in 0..n |-> iter[1..k]]
<1>9. run[0] = <<>>
  <2>1. 1..0 = {} /\ 0 \in 0..n
    BY <1>2
  <2>. QED
    BY <1>8, <2>1
<1>10. ASSUME NEW k \in 0..(n - 1) PROVE run[k + 1] = And(run[k], k + 1)
  <2>1. run[k] = iter[1..k] /\ run[k + 1] = iter[1..(k + 1)]
    BY <1>2
  <2>2. /\ 1..(k + 1) \in SUBSET (1..n) /\ 1..(k + 1) # {} /\ Max(1..(k + 1)) = k + 1
        /\ (1..(k + 1)) \ {k + 1} = 1..k
    BY <1>2, UpTo
  <2>. DEFINE s == 1..(k + 1)
              t == 1..k
  <2>. HIDE DEF s, t
  <2>3. s \in SUBSET D /\ s # {} /\ Max(s) = k + 1 /\ s \ {k + 1} = t
    BY <1>2, <2>2 DEF s, t
  <2>4. iter[s] = And(iter[t], k + 1)
    BY <1>8, <2>3
  <2>. HIDE DEF run
  <2>. QED
    BY <2>1, <2>4 DEF s, t
<1>11. Joined(items) = run[n]
  BY <1>1, <1>2
<1>. HIDE DEF run
<1>12. \A k \in 0..(n - 1) : run[k + 1] = run[k] \o EncodeItem(items[k + 1])
  BY <1>10, Zenon DEF And
<1>. QED
  BY <1>9, <1>11, <1>12, Zenon DEF n

(***************************************************************************)
(* The items from a position on, as the witness builder's decoder finds    *)
(* them: a recursion towards the end of the body.                          *)
(***************************************************************************)
ItemAt(body, i) == [list |-> i.list, bytes |-> Payload(body, i)]

FromHere(body, from, pos) ==
  IF pos > Len(body) THEN {<<>>}
  ELSE UNION {{<<[list |-> i.list, bytes |-> Payload(body, i)]>> \o rest :
                 rest \in from[After(i)]} : i \in ReadItem(body, pos)}

ReadsOn(body, from) ==
  \A pos \in 1..(Len(body) + 1) : from[pos] = FromHere(body, from, pos)

LEMMA ItemsRun ==
  ASSUME NEW body \in Seq(Byte)
  PROVE  \E from : Items(body) = from[1] /\ ReadsOn(body, from)
<1>. DEFINE D == 1..(Len(body) + 1)
            end == Len(body) + 1
            Solves(f) == f = [pos \in D |-> FromHere(body, f, pos)]
            from == CHOOSE f : Solves(f)
            Near(f, k) == \A pos \in D : end - pos <= k => f[pos] = FromHere(body, f, pos)
            A == {k \in Nat : \E f : DOMAIN f = D /\ Near(f, k)}
<1>1. Items(body) = from[1]
  BY DEF Items, FromHere
<1>2. end \in Nat /\ D = 1..end /\ end = Len(body) + 1
  OBVIOUS
<1>3. ASSUME NEW pos \in D, NEW f, NEW g,
             \A p \in D : end - p < end - pos => f[p] = g[p]
      PROVE  FromHere(body, f, pos) = FromHere(body, g, pos)
  <2>1. \A i \in ReadItem(body, pos) : After(i) \in D /\ end - After(i) < end - pos
    <3>. SUFFICES ASSUME NEW i \in ReadItem(body, pos)
                  PROVE  After(i) \in D /\ end - After(i) < end - pos
      OBVIOUS
    <3>1. pos \in Nat \ {0}
      BY <1>2
    <3>2. After(i) \in (pos + 1)..end
      BY <3>1, ReadItemFacts
    <3>. QED
      BY <1>2, <3>1, <3>2
  <2>2. \A i \in ReadItem(body, pos) : f[After(i)] = g[After(i)]
    BY <1>3, <2>1
  <2>. DEFINE Then(i, rest) == <<[list |-> i.list, bytes |-> Payload(body, i)]>> \o rest
              T(h, i) == {Then(i, rest) : rest \in h[After(i)]}
  <2>3. \A h : FromHere(body, h, pos) = IF pos > Len(body) THEN {<<>>}
                                       ELSE UNION {T(h, i) : i \in ReadItem(body, pos)}
    BY Zenon DEF FromHere
  <2>4. \A i \in ReadItem(body, pos) : T(f, i) = T(g, i)
    <3>. HIDE DEF Then
    <3>. QED
      BY <2>2
  <2>. HIDE DEF T
  <2>5. UNION {T(f, i) : i \in ReadItem(body, pos)} = UNION {T(g, i) : i \in ReadItem(body, pos)}
    BY <2>4
  <2>. QED
    BY <2>3, <2>5, Zenon
<1>. HIDE DEF D, end
<1>4. 0 \in A
  <2>. DEFINE f == [pos \in D |-> {<<>>}]
  <2>1. DOMAIN f = D
    OBVIOUS
  <2>2. Near(f, 0)
    <3>. SUFFICES ASSUME NEW pos \in D, end - pos <= 0 PROVE f[pos] = FromHere(body, f, pos)
      OBVIOUS
    <3>1. pos > Len(body)
      BY <1>2
    <3>. QED
      BY <3>1 DEF FromHere
  <2>. HIDE DEF f, Near
  <2>3. \E g : DOMAIN g = D /\ Near(g, 0)
    BY <2>1, <2>2
  <2>. QED
    BY <2>3
<1>5. ASSUME NEW k \in Nat, k \in A PROVE k + 1 \in A
  <2>1. PICK f : DOMAIN f = D /\ Near(f, k)
    BY <1>5
  <2>. DEFINE g == [pos \in D |-> IF end - pos <= k THEN f[pos] ELSE FromHere(body, f, pos)]
  <2>2. DOMAIN g = D
    OBVIOUS
  <2>3. Near(g, k + 1)
    <3>. SUFFICES ASSUME NEW pos \in D, end - pos <= k + 1
                  PROVE  g[pos] = FromHere(body, g, pos)
      OBVIOUS
    <3>1. g[pos] = FromHere(body, f, pos)
      BY <2>1
    <3>2. \A p \in D : end - p < end - pos => f[p] = g[p]
      BY <1>2
    <3>. HIDE DEF g
    <3>. QED
      BY <1>3, <3>1, <3>2
  <2>. HIDE DEF g, Near
  <2>4. \E h : DOMAIN h = D /\ Near(h, k + 1)
    BY <2>2, <2>3
  <2>. QED
    BY <2>4
<1>6. end \in A
  <2>. HIDE DEF A
  <2>. QED
    BY <1>2, <1>4, <1>5, Induction
<1>7. PICK f : DOMAIN f = D /\ Near(f, end)
  BY <1>6
<1>. DEFINE g == [pos \in D |-> f[pos]]
<1>8. ASSUME NEW pos \in D PROVE g[pos] = FromHere(body, g, pos)
  <2>1. f[pos] = FromHere(body, f, pos)
    BY <1>2, <1>7
  <2>2. FromHere(body, f, pos) = FromHere(body, g, pos)
    BY <1>3
  <2>. QED
    BY <2>1, <2>2
<1>9. Solves(g)
  <2>. HIDE DEF g
  <2>1. [pos \in D |-> g[pos]] = [pos \in D |-> FromHere(body, g, pos)]
    BY <1>8
  <2>2. g = [pos \in D |-> g[pos]]
    BY DEF g
  <2>. QED
    BY <2>1, <2>2
<1>10. Solves(from)
  <2>. HIDE DEF Solves
  <2>. QED
    BY <1>9
<1>11. \A pos \in D : from[pos] = FromHere(body, from, pos)
  <2>. HIDE DEF from
  <2>. QED
    BY <1>10
<1>. HIDE DEF from, Solves
<1>. QED
  BY <1>1, <1>11 DEF ReadsOn, D

(***************************************************************************)
(* The lists of items are sequences, and each starts with the item read.   *)
(***************************************************************************)
LEMMA ListsFromHere ==
  ASSUME NEW body \in Seq(Byte), NEW from, ReadsOn(body, from)
  PROVE  /\ from[Len(body) + 1] = {<<>>}
         /\ \A pos \in 1..(Len(body) + 1) : from[pos] \subseteq Seq(RlpItem)
         /\ \A pos \in 1..Len(body) : \A s \in from[pos] :
              \E i \in ReadItem(body, pos) : \E rest \in from[After(i)] :
                 s = <<ItemAt(body, i)>> \o rest
         /\ \A i, rest : \A pos \in 1..Len(body) :
              ReadItem(body, pos) = {i} /\ from[After(i)] = {rest}
                => from[pos] = {<<ItemAt(body, i)>> \o rest}
<1>. DEFINE end == Len(body) + 1
<1>1. end \in Nat /\ Len(body) \in Nat
  OBVIOUS
<1>2. from[end] = {<<>>}
  <2>1. end \in 1..(Len(body) + 1) /\ end > Len(body)
    BY <1>1
  <2>2. from[end] = FromHere(body, from, end)
    BY <2>1 DEF ReadsOn
  <2>. HIDE DEF end
  <2>. QED
    BY <2>1, <2>2, Zenon DEF FromHere
<1>3. ASSUME NEW pos \in 1..Len(body)
      PROVE  from[pos] = UNION {{<<ItemAt(body, i)>> \o rest : rest \in from[After(i)]} :
                                  i \in ReadItem(body, pos)}
  <2>1. pos \in 1..(Len(body) + 1) /\ ~(pos > Len(body))
    BY <1>1
  <2>2. from[pos] = FromHere(body, from, pos)
    BY <2>1 DEF ReadsOn
  <2>. QED
    BY <2>1, <2>2, Zenon DEF FromHere, ItemAt
<1>4. \A pos \in 1..Len(body) : \A s \in from[pos] :
        \E i \in ReadItem(body, pos) : \E rest \in from[After(i)] : s = <<ItemAt(body, i)>> \o rest
  <2>. DEFINE Then(j, r) == <<ItemAt(body, j)>> \o r
  <2>1. \A pos \in 1..Len(body) :
          from[pos] = UNION {{Then(j, r) : r \in from[After(j)]} : j \in ReadItem(body, pos)}
    BY <1>3
  <2>. HIDE DEF Then
  <2>2. \A pos \in 1..Len(body) : \A s \in from[pos] :
          \E i \in ReadItem(body, pos) : \E rest \in from[After(i)] : s = Then(i, rest)
    BY <2>1
  <2>. QED
    BY <2>2 DEF Then
<1>. DEFINE A == {k \in Nat : \A pos \in 1..end : end - pos <= k => from[pos] \subseteq Seq(RlpItem)}
<1>5. 0 \in A
  <2>1. \A pos \in 1..end : end - pos <= 0 => pos = end
    BY <1>1
  <2>2. <<>> \in Seq(RlpItem)
    OBVIOUS
  <2>. HIDE DEF end
  <2>. QED
    BY <1>2, <2>1, <2>2
<1>6. ASSUME NEW k \in Nat, k \in A PROVE k + 1 \in A
  <2>. SUFFICES ASSUME NEW pos \in 1..end, end - pos <= k + 1, NEW s \in from[pos]
                PROVE  s \in Seq(RlpItem)
    OBVIOUS
  <2>1. CASE pos = end
    <3>1. <<>> \in Seq(RlpItem)
      OBVIOUS
    <3>. HIDE DEF end
    <3>. QED
      BY <1>2, <2>1, <3>1
  <2>2. CASE pos # end
    <3>1. pos \in 1..Len(body) /\ pos \in Nat \ {0}
      BY <1>1, <2>2
    <3>2. PICK i \in ReadItem(body, pos) :
                 \E rest \in from[After(i)] : s = <<ItemAt(body, i)>> \o rest
      BY <1>4, <3>1, Zenon
    <3>8. PICK rest \in from[After(i)] : s = <<ItemAt(body, i)>> \o rest
      BY <3>2
    <3>3. After(i) \in (pos + 1)..end /\ i.list \in BOOLEAN /\ Payload(body, i) \in Seq(Byte)
      BY <3>1, ReadItemFacts
    <3>4. After(i) \in 1..end /\ end - After(i) <= k
      BY <1>1, <3>1, <3>3
    <3>5. rest \in Seq(RlpItem)
      BY <1>6, <3>4
    <3>6. ItemAt(body, i) \in RlpItem
      BY <3>3 DEF ItemAt, RlpItem
    <3>7. <<ItemAt(body, i)>> \in Seq(RlpItem)
      BY <3>6
    <3>. QED
      BY <3>8, <3>5, <3>7, ConcatProperties
  <2>. QED
    BY <2>1, <2>2
<1>7. end \in A
  <2>. HIDE DEF A
  <2>. QED
    BY <1>1, <1>5, <1>6, Induction
<1>8. \A pos \in 1..end : end - pos <= end
  BY <1>1
<1>9. \A pos \in 1..end : from[pos] \subseteq Seq(RlpItem)
  BY <1>7, <1>8
<1>10. \A i, rest : \A pos \in 1..Len(body) :
         ReadItem(body, pos) = {i} /\ from[After(i)] = {rest}
           => from[pos] = {<<ItemAt(body, i)>> \o rest}
  <2>. DEFINE Then(j, r) == <<ItemAt(body, j)>> \o r
  <2>1. \A pos \in 1..Len(body) :
          from[pos] = UNION {{Then(j, r) : r \in from[After(j)]} : j \in ReadItem(body, pos)}
    BY <1>3
  <2>. HIDE DEF Then
  <2>2. ASSUME NEW i, NEW rest, NEW pos \in 1..Len(body),
               ReadItem(body, pos) = {i}, from[After(i)] = {rest}
        PROVE  from[pos] = {Then(i, rest)}
    BY <2>1, <2>2
  <2>3. \A i, rest : \A pos \in 1..Len(body) :
          ReadItem(body, pos) = {i} /\ from[After(i)] = {rest} => from[pos] = {Then(i, rest)}
    BY <2>2
  <2>. QED
    BY <2>3 DEF Then
<1>11. from[Len(body) + 1] = {<<>>} /\ \A pos \in 1..(Len(body) + 1) : from[pos] \subseteq Seq(RlpItem)
  BY <1>2, <1>9
<1>. QED
  BY <1>4, <1>10, <1>11, Zenon

(***************************************************************************)
(* The encoding of an item: its payload behind the prefix for its length.  *)
(***************************************************************************)
Short(list) == IF list THEN 192 ELSE 128
Long(list) == IF list THEN 247 ELSE 183

LeadIs(b, list, long, head, len) ==
  /\ Lead(b).list = list /\ Lead(b).long = long
  /\ Lead(b).head = head /\ Lead(b).len = len

LEMMA LeadOf ==
  /\ \A b \in 0..127 : LeadIs(b, FALSE, FALSE, 0, 1)
  /\ \A list \in BOOLEAN, n \in 0..55 : LeadIs(Short(list) + n, list, FALSE, 1, n)
  /\ \A list \in BOOLEAN, n \in 1..2 : LeadIs(Long(list) + n, list, TRUE, 1, n)
<1>1. ASSUME NEW b \in 0..127 PROVE LeadIs(b, FALSE, FALSE, 0, 1)
  BY DEF Lead, LeadIs
<1>2. ASSUME NEW b \in 128..183 PROVE LeadIs(b, FALSE, FALSE, 1, b - 128)
  BY DEF Lead, LeadIs
<1>3. ASSUME NEW b \in 184..191 PROVE LeadIs(b, FALSE, TRUE, 1, b - 183)
  BY DEF Lead, LeadIs
<1>4. ASSUME NEW b \in 192..247 PROVE LeadIs(b, TRUE, FALSE, 1, b - 192)
  BY DEF Lead, LeadIs
<1>5. ASSUME NEW b \in 248..255 PROVE LeadIs(b, TRUE, TRUE, 1, b - 247)
  BY DEF Lead, LeadIs
<1>6. Short(TRUE) = 192 /\ Short(FALSE) = 128 /\ Long(TRUE) = 247 /\ Long(FALSE) = 183
  BY DEF Short, Long
<1>7. ASSUME NEW list \in BOOLEAN, NEW n \in 0..55
      PROVE  LeadIs(Short(list) + n, list, FALSE, 1, n)
  <2>1. /\ 128 + n \in 128..183 /\ (128 + n) - 128 = n
        /\ 192 + n \in 192..247 /\ (192 + n) - 192 = n
    OBVIOUS
  <2>2. LeadIs(128 + n, FALSE, FALSE, 1, n) /\ LeadIs(192 + n, TRUE, FALSE, 1, n)
    <3>1. \A b \in 128..183 : LeadIs(b, FALSE, FALSE, 1, b - 128)
      BY <1>2
    <3>2. \A b \in 192..247 : LeadIs(b, TRUE, FALSE, 1, b - 192)
      BY <1>4
    <3>. DEFINE x == 128 + n
                y == 192 + n
    <3>3. x - 128 = n /\ y - 192 = n
      BY <2>1
    <3>4. x \in 128..183 /\ y \in 192..247
      BY <2>1
    <3>. HIDE DEF x, y
    <3>5. LeadIs(x, FALSE, FALSE, 1, x - 128) /\ LeadIs(y, TRUE, FALSE, 1, y - 192)
      BY <3>1, <3>2, <3>4
    <3>. QED
      BY <3>3, <3>5 DEF x, y
  <2>3. CASE list = TRUE
    BY <1>6, <2>2, <2>3, Zenon
  <2>4. CASE list = FALSE
    BY <1>6, <2>2, <2>4, Zenon
  <2>. QED
    BY <2>3, <2>4
<1>8. ASSUME NEW list \in BOOLEAN, NEW n \in 1..2
      PROVE  LeadIs(Long(list) + n, list, TRUE, 1, n)
  <2>1. /\ 183 + n \in 184..191 /\ (183 + n) - 183 = n
        /\ 247 + n \in 248..255 /\ (247 + n) - 247 = n
    OBVIOUS
  <2>2. LeadIs(183 + n, FALSE, TRUE, 1, n) /\ LeadIs(247 + n, TRUE, TRUE, 1, n)
    <3>1. \A b \in 184..191 : LeadIs(b, FALSE, TRUE, 1, b - 183)
      BY <1>3
    <3>2. \A b \in 248..255 : LeadIs(b, TRUE, TRUE, 1, b - 247)
      BY <1>5
    <3>. DEFINE x == 183 + n
                y == 247 + n
    <3>3. x - 183 = n /\ y - 247 = n
      BY <2>1
    <3>4. x \in 184..191 /\ y \in 248..255
      BY <2>1
    <3>. HIDE DEF x, y
    <3>5. LeadIs(x, FALSE, TRUE, 1, x - 183) /\ LeadIs(y, TRUE, TRUE, 1, y - 247)
      BY <3>1, <3>2, <3>4
    <3>. QED
      BY <3>3, <3>5 DEF x, y
  <2>3. CASE list = TRUE
    BY <1>6, <2>2, <2>3, Zenon
  <2>4. CASE list = FALSE
    BY <1>6, <2>2, <2>4, Zenon
  <2>. QED
    BY <2>3, <2>4
<1>. QED
  BY <1>1, <1>7, <1>8, Zenon

LEMMA PrefixFacts ==
  ASSUME NEW list \in BOOLEAN, NEW n \in Nat
  PROVE  LET pre == Prefix(n, Short(list), Long(list)) IN
           /\ pre \in Seq(Nat) /\ Len(pre) \in 1..3
           /\ n < 65536 => pre \in Seq(Byte)
           /\ n <= 55 => pre = <<Short(list) + n>>
           /\ n > 55 /\ n < 256 => pre = <<Long(list) + 1, n>>
           /\ n >= 256 => pre = <<Long(list) + 2, n \div 256, n % 256>>
<1>. DEFINE pre == Prefix(n, Short(list), Long(list))
<1>0. Short(list) \in Nat /\ Long(list) \in Nat /\ Short(list) <= 192 /\ Long(list) <= 247
  BY DEF Short, Long
<1>. DEFINE s == Short(list)
            l == Long(list)
<1>. HIDE DEF s, l
<1>1. CASE n <= 55
  <2>1. pre = <<s + n>>
    BY <1>1 DEF Prefix, s
  <2>2. s + n \in Nat /\ s + n \in Byte
    BY <1>0, <1>1 DEF Byte, s
  <2>3. n < 256 /\ ~(n > 55) /\ ~(n >= 256)
    BY <1>1
  <2>. HIDE DEF pre
  <2>. QED
    BY <2>1, <2>2, <2>3 DEF s, pre
<1>2. CASE n > 55 /\ n < 256
  <2>1. pre = <<l + 1, n>>
    BY <1>2 DEF Prefix, l
  <2>2. l + 1 \in Nat /\ l + 1 \in Byte /\ n \in Byte
    BY <1>0, <1>2 DEF Byte, l
  <2>3. ~(n <= 55) /\ ~(n >= 256)
    BY <1>2
  <2>. HIDE DEF pre
  <2>. QED
    BY <1>2, <2>1, <2>2, <2>3 DEF l, pre
<1>3. CASE n >= 256
  <2>1. pre = <<l + 2, n \div 256, n % 256>>
    BY <1>3 DEF Prefix, l
  <2>2. /\ l + 2 \in Nat /\ l + 2 \in Byte /\ n \div 256 \in Nat /\ n % 256 \in Nat
        /\ n % 256 \in Byte /\ (n < 65536 => n \div 256 \in Byte)
    BY <1>0, <1>3 DEF Byte, l
  <2>3. ~(n <= 55) /\ ~(n < 256)
    BY <1>3
  <2>. HIDE DEF pre
  <2>. QED
    BY <1>3, <2>1, <2>2, <2>3 DEF l, pre
<1>. QED
  BY <1>1, <1>2, <1>3

IsSingle(item) == ~item.list /\ Len(item.bytes) = 1 /\ item.bytes[1] <= 127

PrefixOf(item) == Prefix(Len(item.bytes), Short(item.list), Long(item.list))

LEMMA EncodeForm ==
  ASSUME NEW item \in RlpItem
  PROVE  EncodeItem(item) = IF IsSingle(item) THEN item.bytes ELSE PrefixOf(item) \o item.bytes
<1>1. CASE item.list
  BY <1>1, Zenon DEF EncodeItem, WrapList, IsSingle, PrefixOf, Short, Long
<1>2. CASE ~item.list
  BY <1>2, Zenon DEF EncodeItem, EncodeString, IsSingle, PrefixOf, Short, Long
<1>. QED
  BY <1>1, <1>2

LEMMA EncodeSize ==
  ASSUME NEW item \in RlpItem
  PROVE  /\ EncodeItem(item) \in Seq(Nat)
         /\ Len(item.bytes) <= Len(EncodeItem(item)) /\ Len(EncodeItem(item)) >= 1
         /\ Len(item.bytes) < 65536 => EncodeItem(item) \in Seq(Byte)
<1>. DEFINE b == item.bytes
            pre == PrefixOf(item)
<1>1. b \in Seq(Byte) /\ item.list \in BOOLEAN /\ Len(b) \in Nat
  BY DEF RlpItem
<1>2. b \in Seq(Nat)
  <2>1. Byte \subseteq Nat
    BY DEF Byte
  <2>. QED
    BY <1>1, <2>1, SeqMonotonic
<1>3. /\ pre \in Seq(Nat) /\ Len(pre) \in 1..3
      /\ Len(b) < 65536 => pre \in Seq(Byte)
  <2>. DEFINE list == item.list
              n == Len(b)
  <2>1. list \in BOOLEAN /\ n \in Nat
    BY <1>1
  <2>2. PrefixOf(item) = Prefix(n, Short(list), Long(list))
    BY DEF PrefixOf
  <2>. HIDE DEF b, n, list
  <2>3. LET p == Prefix(n, Short(list), Long(list)) IN
          p \in Seq(Nat) /\ Len(p) \in 1..3 /\ (n < 65536 => p \in Seq(Byte))
    BY <2>1, PrefixFacts
  <2>. QED
    BY <2>2, <2>3 DEF n
<1>. HIDE DEF b, pre
<1>4. /\ pre \o b \in Seq(Nat) /\ Len(pre \o b) = Len(pre) + Len(b)
      /\ Len(b) < 65536 => pre \o b \in Seq(Byte)
  BY <1>1, <1>2, <1>3, ConcatProperties
<1>. DEFINE e == EncodeItem(item)
            c == pre \o b
<1>5. (e = b /\ Len(b) = 1) \/ e = c
  BY EncodeForm, Zenon DEF b, pre, IsSingle
<1>. HIDE DEF e, c
<1>. DEFINE fits == Len(b) < 65536
<1>. HIDE DEF fits
<1>6. /\ c \in Seq(Nat) /\ Len(c) = Len(pre) + Len(b)
      /\ fits => c \in Seq(Byte)
  BY <1>4 DEF c, fits
<1>7. /\ e \in Seq(Nat) /\ Len(b) <= Len(e) /\ Len(e) >= 1
      /\ Len(b) < 65536 => e \in Seq(Byte)
  <2>1. CASE e = b /\ Len(b) = 1
    BY <1>1, <1>2, <2>1
  <2>2. CASE e = c
    <3>1. Len(e) = Len(pre) + Len(b)
      BY <1>6, <2>2, Zenon
    <3>2. Len(b) <= Len(e) /\ Len(e) >= 1
      <4>. DEFINE p == Len(pre)
                  n == Len(b)
                  m == Len(e)
      <4>1. m = p + n /\ p \in 1..3 /\ n \in Nat
        BY <1>1, <1>3, <3>1
      <4>. HIDE DEF p, n, m
      <4>2. n <= m /\ m >= 1
        BY <4>1
      <4>. QED
        BY <4>2 DEF n, m
    <3>3. e \in Seq(Nat) /\ (fits => e \in Seq(Byte))
      BY <1>6, <2>2, Zenon
    <3>. QED
      BY <3>2, <3>3 DEF fits
  <2>. QED
    BY <1>5, <2>1, <2>2
<1>. QED
  BY <1>7 DEF b, e

Split(e, pre, bytes) ==
  /\ e \in Seq(Byte) /\ Len(e) = Len(pre) + Len(bytes)
  /\ \A k \in 1..Len(pre) : e[k] = pre[k]
  /\ Slice(e, Len(pre) + 1, Len(bytes)) = bytes
  /\ \A k \in 1..Len(bytes) : e[Len(pre) + k] = bytes[k]

LEMMA PrefixParts ==
  ASSUME NEW pre \in Seq(Byte), NEW bytes \in Seq(Byte)
  PROVE  Split(pre \o bytes, pre, bytes)
<1>. DEFINE e == pre \o bytes
<1>. HIDE DEF e
<1>1. Len(pre) \in Nat /\ Len(bytes) \in Nat
  OBVIOUS
<1>2. /\ pre \o bytes \in Seq(Byte) /\ Len(pre \o bytes) = Len(pre) + Len(bytes)
      /\ \A i \in 1..Len(pre) + Len(bytes) :
           (pre \o bytes)[i] = IF i <= Len(pre) THEN pre[i] ELSE bytes[i - Len(pre)]
  BY ConcatProperties
<1>3. /\ e \in Seq(Byte) /\ Len(e) = Len(pre) + Len(bytes)
      /\ \A i \in 1..Len(pre) + Len(bytes) :
           e[i] = IF i <= Len(pre) THEN pre[i] ELSE bytes[i - Len(pre)]
  BY <1>2, Zenon DEF e
<1>4. \A k \in 1..Len(pre) : e[k] = pre[k]
  BY ONLY <1>1, <1>3
<1>5. ASSUME NEW k \in 1..Len(bytes) PROVE e[Len(pre) + k] = bytes[k]
  <2>1. /\ Len(pre) + k \in 1..Len(pre) + Len(bytes) /\ ~(Len(pre) + k <= Len(pre))
        /\ (Len(pre) + k) - Len(pre) = k
    BY ONLY <1>1, k \in 1..Len(bytes)
  <2>. QED
    BY ONLY <1>3, <2>1
<1>. DEFINE s == Slice(e, Len(pre) + 1, Len(bytes))
<1>6. /\ s \in Seq(Byte) /\ Len(s) = Len(bytes)
      /\ \A k \in 1..Len(bytes) : s[k] = e[(Len(pre) + 1) + k - 1]
  <2>1. /\ Len(pre) + 1 \in Nat \ {0} /\ (Len(pre) + 1) + Len(bytes) - 1 <= Len(e)
    BY ONLY <1>1, <1>3
  <2>. QED
    BY <1>1, <1>3, <2>1, SliceFacts
<1>7. \A k \in 1..Len(bytes) : s[k] = bytes[k]
  <2>. SUFFICES ASSUME NEW k \in 1..Len(bytes) PROVE s[k] = bytes[k]
    OBVIOUS
  <2>1. (Len(pre) + 1) + k - 1 = Len(pre) + k
    BY ONLY <1>1, k \in 1..Len(bytes)
  <2>. HIDE DEF s
  <2>. QED
    BY <1>5, <1>6, <2>1
<1>. HIDE DEF s
<1>8. s = bytes
  BY <1>6, <1>7, SeqEqual
<1>. QED
  BY <1>3, <1>4, <1>5, <1>8, Zenon DEF s, e, Split

(***************************************************************************)
(* The length of a payload, read back from its prefix.                     *)
(***************************************************************************)
Fits(n) == n < 65536

StartsWith(e, pre, list, n) ==
  /\ e \in Seq(Byte) /\ Len(e) = Len(pre) + n
  /\ pre = Prefix(n, Short(list), Long(list))
  /\ \A k \in 1..Len(pre) : e[k] = pre[k]

LEMMA PrefixRead ==
  ASSUME NEW list \in BOOLEAN, NEW n \in Nat, Fits(n),
         NEW e, NEW pre \in Seq(Byte), StartsWith(e, pre, list, n)
  PROVE  /\ IsItem(e, 1, [list |-> list, start |-> Len(pre) + 1, size |-> n])
         /\ Len(pre) >= 1
         /\ Lead(e[1]).list = list /\ Lead(e[1]).head = 1
         /\ Lead(e[1]).long => n > 55 /\ e[2] # 0
         /\ n = 1 => ~Lead(e[1]).long
<1>. DEFINE i == [list |-> list, start |-> Len(pre) + 1, size |-> n]
            lead == Lead(e[1])
<1>. USE DEF StartsWith
<1>0. i.list = list /\ i.start = Len(pre) + 1 /\ i.size = n
  OBVIOUS
<1>10. \A k \in 1..Len(pre) : e[k] = pre[k]
  OBVIOUS
<1>1. /\ n <= 55 => pre = <<Short(list) + n>>
      /\ n > 55 /\ n < 256 => pre = <<Long(list) + 1, n>>
      /\ n >= 256 => pre = <<Long(list) + 2, n \div 256, n % 256>>
  BY PrefixFacts
<1>2. ASSUME NEW long \in BOOLEAN, NEW len \in Nat, LeadIs(e[1], list, long, 1, len),
             long => /\ Len(pre) + 1 = 1 + 1 + len
                     /\ n = BigEndian(Slice(e, 1 + 1, len)),
             ~long => Len(pre) + 1 = 1 + 1 + 0 /\ n = len
      PROVE  IsItem(e, 1, i)
  <2>1. lead.list = list /\ lead.long = long /\ lead.head = 1 /\ lead.len = len
    BY <1>2 DEF LeadIs
  <2>2. i = [list |-> lead.list, start |-> i.start, size |-> i.size]
    BY <1>0, <2>1
  <2>3. lead.long =>
          /\ i.start = 1 + lead.head + lead.len
          /\ i.size = BigEndian(Slice(e, 1 + 1, lead.len))
    BY <1>0, <1>2, <2>1
  <2>4. ~lead.long => i.start = 1 + lead.head + 0 /\ i.size = lead.len
    BY <1>0, <1>2, <2>1
  <2>. HIDE DEF i, lead
  <2>. QED
    BY <2>2, <2>3, <2>4, Zenon DEF IsItem, lead
<1>6. LeadIs(e[1], list, FALSE, 1, n) /\ Len(pre) = 1 => IsItem(e, 1, i)
  <2>. SUFFICES ASSUME LeadIs(e[1], list, FALSE, 1, n), Len(pre) = 1 PROVE IsItem(e, 1, i)
    OBVIOUS
  <2>1. Len(pre) + 1 = 1 + 1 + 0
    OBVIOUS
  <2>2. FALSE \in BOOLEAN
    OBVIOUS
  <2>. HIDE DEF i
  <2>. QED
    BY <1>2, <2>1, <2>2, Zenon
<1>7. ASSUME NEW len \in Nat
      PROVE  LeadIs(e[1], list, TRUE, 1, len) /\ Len(pre) = len + 1
               /\ n = BigEndian(Slice(e, 1 + 1, len)) => IsItem(e, 1, i)
  <2>. SUFFICES ASSUME LeadIs(e[1], list, TRUE, 1, len), Len(pre) = len + 1,
                       n = BigEndian(Slice(e, 1 + 1, len))
                PROVE  IsItem(e, 1, i)
    OBVIOUS
  <2>1. Len(pre) + 1 = 1 + 1 + len
    OBVIOUS
  <2>2. TRUE \in BOOLEAN
    OBVIOUS
  <2>. HIDE DEF i
  <2>. QED
    BY <1>2, <2>1, <2>2, Zenon
<1>8. ASSUME NEW len \in 1..2
      PROVE  /\ LeadIs(Long(list) + len, list, TRUE, 1, len)
             /\ Len(pre) = len + 1 =>
                  /\ Slice(e, 1 + 1, len) \in Seq(Byte) /\ Len(Slice(e, 1 + 1, len)) = len
                  /\ \A k \in 1..len : Slice(e, 1 + 1, len)[k] = e[k + 1]
  <2>1. LeadIs(Long(list) + len, list, TRUE, 1, len)
    BY LeadOf
  <2>. SUFFICES ASSUME Len(pre) = len + 1
                PROVE  /\ Slice(e, 1 + 1, len) \in Seq(Byte) /\ Len(Slice(e, 1 + 1, len)) = len
                       /\ \A k \in 1..len : Slice(e, 1 + 1, len)[k] = e[k + 1]
    BY <2>1
  <2>. DEFINE two == 1 + 1
  <2>2. /\ two \in Nat \ {0} /\ two + len - 1 <= Len(e) /\ len \in Nat
        /\ \A k \in 1..len : two + k - 1 = k + 1
    OBVIOUS
  <2>. HIDE DEF two
  <2>3. /\ Slice(e, two, len) \in Seq(Byte) /\ Len(Slice(e, two, len)) = len
        /\ \A k \in 1..len : Slice(e, two, len)[k] = e[two + k - 1]
    BY <2>2, SliceFacts
  <2>4. \A k \in 1..len : Slice(e, two, len)[k] = e[k + 1]
    BY <2>2, <2>3
  <2>. QED
    BY <2>3, <2>4, Zenon DEF two
<1>9. 1 \in 1..2 /\ 2 \in 1..2 /\ 1 \in Nat /\ 2 \in Nat
  OBVIOUS
<1>3. CASE n <= 55
  <2>1. Len(pre) = 1 /\ e[1] = Short(list) + n
    <3>1. pre = <<Short(list) + n>>
      BY <1>1, <1>3
    <3>2. Len(pre) = 1 /\ pre[1] = Short(list) + n
      BY ONLY <3>1
    <3>. QED
      BY ONLY <3>2, <1>10
  <2>2. LeadIs(e[1], list, FALSE, 1, n)
    <3>1. n \in 0..55
      BY ONLY <1>3, n \in Nat
    <3>. QED
      BY <2>1, <3>1, LeadOf
  <2>3. IsItem(e, 1, i)
    BY <1>6, <2>1, <2>2, Zenon
  <2>. QED
    BY <2>1, <2>2, <2>3 DEF LeadIs
<1>4. CASE n > 55 /\ n < 256
  <2>1. Len(pre) = 2 /\ e[1] = Long(list) + 1 /\ e[2] = n
    <3>1. pre = <<Long(list) + 1, n>>
      BY <1>1, <1>4
    <3>2. Len(pre) = 2 /\ pre[1] = Long(list) + 1 /\ pre[2] = n
      BY ONLY <3>1
    <3>. QED
      BY ONLY <3>2, <1>10
  <2>2. LeadIs(e[1], list, TRUE, 1, 1)
    BY <1>8, <1>9, <2>1, Zenon
  <2>3. Slice(e, 1 + 1, 1) = <<n>>
    <3>. DEFINE s == Slice(e, 1 + 1, 1)
    <3>0. Len(pre) = 1 + 1
      BY <2>1
    <3>1. s \in Seq(Byte) /\ Len(s) = 1 /\ \A k \in 1..1 : s[k] = e[k + 1]
      BY <1>8, <1>9, <3>0, Zenon
    <3>. HIDE DEF s
    <3>2. s \in Seq(Byte) /\ Len(s) = 1 /\ s[1] = n
      BY <2>1, <3>1
    <3>3. s = <<n>>
      BY ONLY <3>2
    <3>. QED
      BY <3>3 DEF s
  <2>4. BigEndian(Slice(e, 1 + 1, 1)) = n
    <3>1. n \in Byte
      BY ONLY <1>4, n \in Nat DEF Byte
    <3>. QED
      BY <2>3, <3>1, BigEndianSmall
  <2>5. IsItem(e, 1, i)
    <3>1. Len(pre) = 1 + 1
      BY <2>1
    <3>. QED
      BY <1>7, <1>9, <2>2, <2>4, <3>1, Zenon
  <2>. QED
    BY <1>4, <2>1, <2>2, <2>5 DEF LeadIs
<1>5. CASE n >= 256
  <2>. DEFINE a == n \div 256
              b == n % 256
  <2>0. a \in Byte /\ b \in Byte /\ a * 256 + b = n /\ a # 0
    BY ONLY <1>5, n \in Nat, Fits(n) DEF Byte, Fits
  <2>1. Len(pre) = 3 /\ e[1] = Long(list) + 2 /\ e[2] = a /\ e[3] = b
    <3>1. pre = <<Long(list) + 2, a, b>>
      BY <1>1, <1>5
    <3>. HIDE DEF a, b
    <3>2. Len(pre) = 3 /\ pre[1] = Long(list) + 2 /\ pre[2] = a /\ pre[3] = b
      BY ONLY <3>1
    <3>. QED
      BY ONLY <3>2, <1>10
  <2>2. LeadIs(e[1], list, TRUE, 1, 2)
    BY <1>8, <1>9, <2>1, Zenon
  <2>. HIDE DEF a, b
  <2>3. Slice(e, 1 + 1, 2) = <<a, b>>
    <3>. DEFINE s == Slice(e, 1 + 1, 2)
    <3>0. Len(pre) = 2 + 1
      BY <2>1
    <3>1. s \in Seq(Byte) /\ Len(s) = 2 /\ \A k \in 1..2 : s[k] = e[k + 1]
      BY <1>8, <1>9, <3>0, Zenon
    <3>. HIDE DEF s
    <3>2. s \in Seq(Byte) /\ Len(s) = 2 /\ s[1] = a /\ s[2] = b
      BY <2>1, <3>1
    <3>3. s = <<a, b>>
      BY ONLY <3>2
    <3>. QED
      BY <3>3 DEF s
  <2>4. BigEndian(Slice(e, 1 + 1, 2)) = n
    BY <2>0, <2>3, BigEndianSmall
  <2>5. IsItem(e, 1, i)
    <3>1. Len(pre) = 2 + 1
      BY <2>1
    <3>. QED
      BY <1>7, <1>9, <2>2, <2>4, <3>1, Zenon
  <2>. QED
    BY <1>5, <2>0, <2>1, <2>2, <2>5 DEF LeadIs
<1>. QED
  BY <1>3, <1>4, <1>5

(***************************************************************************)
(* An encoded item is read back: all of it, canonically.                   *)
(***************************************************************************)
ReadBack(e, item, i) ==
  /\ ReadItem(e, 1) = {i}
  /\ i.list = item.list /\ i.size = Len(item.bytes)
  /\ After(i) = Len(e) + 1
  /\ Payload(e, i) = item.bytes
  /\ Canonical(e, 1, i)

LEMMA ReadEncoded ==
  ASSUME NEW item \in RlpItem, Fits(Len(item.bytes))
  PROVE  \E i : ReadBack(EncodeItem(item), item, i)
<1>. DEFINE b == item.bytes
            n == Len(b)
            e == EncodeItem(item)
            list == item.list
            pre == PrefixOf(item)
<1>1. b \in Seq(Byte) /\ list \in BOOLEAN /\ n \in Nat
  BY DEF RlpItem
<1>2. e \in Seq(Byte) /\ 1 \in Nat \ {0}
  BY EncodeSize DEF Fits
<1>3. AtMostOne(ReadItem(e, 1))
  BY <1>2, ReadItemFacts
<1>4. Fits(n)
  OBVIOUS
<1>5. ASSUME NEW i, IsItem(e, 1, i), i.list = list, i.size = n,
             i.start \in Nat \ {0}, i.start + n = Len(e) + 1,
             Slice(e, i.start, n) = b, Canonical(e, 1, i)
      PROVE  ReadBack(e, item, i)
  <2>1. /\ ~(1 > Len(e)) /\ ~(i.start - 1 > Len(e)) /\ ~(i.start + i.size - 1 > Len(e))
    <3>. DEFINE m == Len(e)
                s == i.start
    <3>1. m \in Nat /\ s \in Nat \ {0} /\ s + n = m + 1 /\ m >= 1
      <4>1. Len(e) >= 1
        BY EncodeSize
      <4>. QED
        BY <1>2, <1>5, <4>1
    <3>2. i.size = n
      BY <1>5
    <3>. HIDE DEF m, s, n, e
    <3>3. ~(1 > m) /\ ~(s - 1 > m) /\ ~(s + n - 1 > m)
      BY <1>1, <3>1
    <3>. QED
      BY <3>2, <3>3 DEF m, s
  <2>2. i \in ReadItem(e, 1)
    BY <1>5, <2>1, ItemForm
  <2>3. ReadItem(e, 1) = {i}
    BY <1>3, <2>2 DEF AtMostOne
  <2>4. After(i) = Len(e) + 1 /\ Payload(e, i) = b
    BY <1>5 DEF After, Payload
  <2>. QED
    BY <1>5, <2>3, <2>4 DEF ReadBack
<1>6. CASE IsSingle(item)
  <2>1. e = b /\ list = FALSE /\ n = 1 /\ b[1] <= 127
    BY <1>1, <1>6, EncodeForm DEF IsSingle
  <2>. DEFINE i == [list |-> FALSE, start |-> 1, size |-> 1]
  <2>2. e[1] \in 0..127
    <3>1. b[1] \in Byte
      BY <1>1, <2>1
    <3>. QED
      BY <2>1, <3>1 DEF Byte
  <2>3. LeadIs(e[1], FALSE, FALSE, 0, 1)
    BY <2>2, LeadOf
  <2>4. i.list = FALSE /\ i.start = 1 /\ i.size = 1 /\ i = [list |-> FALSE, start |-> i.start, size |-> i.size]
    OBVIOUS
  <2>. HIDE DEF i, e, b, n, list
  <2>5. IsItem(e, 1, i) /\ Canonical(e, 1, i)
    <3>1. 1 = 1 + 0 + 0
      OBVIOUS
    <3>2. IsItem(e, 1, i)
      BY <2>3, <2>4, <3>1, Zenon DEF IsItem, LeadIs
    <3>3. Lead(e[1]).head # 1 /\ Lead(e[1]).long = FALSE
      BY <2>3 DEF LeadIs
    <3>4. Canonical(e, 1, i)
      BY <3>3, Zenon DEF Canonical
    <3>. QED
      BY <3>2, <3>4
  <2>6. Slice(e, 1, n) = b
    <3>1. Slice(e, 1, n) = SubSeq(b, 1, 1 + n - 1) /\ 1 + n - 1 = Len(b)
      BY <2>1 DEF Slice, n
    <3>. QED
      BY <1>1, <3>1, SubSeqFull
  <2>7. i.start \in Nat \ {0} /\ i.start + n = Len(e) + 1 /\ i.size = n /\ i.list = list
    <3>1. Len(e) = n
      BY <2>1, Zenon DEF n
    <3>2. i.size = n /\ i.list = list /\ i.start = 1 /\ n = 1
      BY <2>1, <2>4, Zenon
    <3>. QED
      BY ONLY <3>1, <3>2
  <2>8. Slice(e, i.start, n) = b
    BY <2>4, <2>6, Zenon
  <2>9. ReadBack(e, item, i)
    BY <1>5, <2>5, <2>7, <2>8, Zenon
  <2>. QED
    BY <2>9 DEF e
<1>7. CASE ~IsSingle(item)
  <2>1. e = pre \o b
    BY <1>7, EncodeForm
  <2>2. pre = Prefix(n, Short(list), Long(list))
    BY DEF PrefixOf
  <2>3. pre \in Seq(Byte)
    <3>. HIDE DEF n, list, pre
    <3>. QED
      BY <1>1, <1>4, <2>2, PrefixFacts DEF Fits
  <2>. HIDE DEF pre, e, b, n, list
  <2>4. /\ e \in Seq(Byte) /\ Len(e) = Len(pre) + n
        /\ \A k \in 1..Len(pre) : e[k] = pre[k]
        /\ Slice(e, Len(pre) + 1, n) = b
        /\ \A k \in 1..n : e[Len(pre) + k] = b[k]
    <3>1. Split(pre \o b, pre, b)
      BY <1>1, <2>3, PrefixParts
    <3>2. Split(e, pre, b)
      BY <2>1, <3>1, Zenon
    <3>. QED
      BY <3>2, Zenon DEF Split, n
  <2>. DEFINE i == [list |-> list, start |-> Len(pre) + 1, size |-> n]
  <2>5. i.list = list /\ i.start = Len(pre) + 1 /\ i.size = n
    OBVIOUS
  <2>6. /\ IsItem(e, 1, i) /\ Len(pre) >= 1
        /\ Lead(e[1]).list = list /\ Lead(e[1]).head = 1
        /\ Lead(e[1]).long => n > 55 /\ e[2] # 0
        /\ n = 1 => ~Lead(e[1]).long
    <3>1. StartsWith(e, pre, list, n)
      BY <2>2, <2>4, Zenon DEF StartsWith
    <3>. QED
      BY <1>1, <1>4, <2>3, <3>1, PrefixRead
  <2>. HIDE DEF i
  <2>7. Canonical(e, 1, i)
    <3>1. ~list /\ n = 1 => e[i.start] > 127
      <4>. SUFFICES ASSUME ~list, n = 1 PROVE e[i.start] > 127
        OBVIOUS
      <4>1. ~(b[1] <= 127)
        BY <1>7 DEF IsSingle, list, n, b
      <4>2. b[1] \in Byte
        <5>1. 1 \in 1..Len(b)
          BY DEF n
        <5>. QED
          BY <1>1, <5>1, ElementOfSeq
      <4>3. e[i.start] = b[1]
        <5>1. 1 \in 1..n
          OBVIOUS
        <5>. QED
          BY <2>4, <2>5, <5>1, Zenon
      <4>4. \A x \in Byte : ~(x <= 127) => x > 127
        BY DEF Byte
      <4>. QED
        BY <4>1, <4>2, <4>3, <4>4
    <3>2. Lead(e[1]).long => i.size > 55 /\ e[1 + 1] # 0
      BY <2>5, <2>6
    <3>3. Lead(e[1]).head = 1 /\ ~Lead(e[1]).long /\ ~i.list /\ i.size = 1 => e[i.start] > 127
      BY <2>5, <3>1
    <3>. QED
      BY <3>2, <3>3, Zenon DEF Canonical
  <2>8. i.start \in Nat \ {0} /\ i.start + n = Len(e) + 1
    <3>. DEFINE p == Len(pre)
                m == Len(e)
    <3>1. p \in Nat /\ m = p + n /\ i.start = p + 1
      BY <2>3, <2>4, <2>5
    <3>. HIDE DEF p, m
    <3>2. i.start \in Nat \ {0} /\ i.start + n = m + 1
      BY <1>1, <3>1
    <3>. QED
      BY <3>2 DEF m
  <2>9. Slice(e, i.start, n) = b
    BY <2>4, <2>5, Zenon
  <2>10. ReadBack(e, item, i)
    BY <1>5, <2>5, <2>6, <2>7, <2>8, <2>9, Zenon
  <2>. QED
    BY <2>10 DEF e
<1>. QED
  BY <1>6, <1>7

(***************************************************************************)
(* Where the items of a list are in its payload.                           *)
(***************************************************************************)
LaidOut(items, hay, offset) ==
  /\ offset[1] = 0 /\ offset[Len(items) + 1] = Len(hay)
  /\ \A k \in 1..Len(items) :
       /\ Fits(Len(items[k].bytes))
       /\ EncodeItem(items[k]) \in Seq(Byte)
       /\ offset[k] \in Nat
       /\ offset[k + 1] = offset[k] + Len(EncodeItem(items[k]))
       /\ offset[k + 1] <= Len(hay)
       /\ Holds(hay, offset[k], EncodeItem(items[k]))

LEMMA JoinedInPlace ==
  ASSUME NEW items, Encodable(items)
  PROVE  Joined(items) \in Seq(Byte) /\ \E offset : LaidOut(items, Joined(items), offset)
<1>1. items \in Seq(RlpItem) /\ Fits(Len(Joined(items)))
  BY DEF Encodable, Fits
<1>. DEFINE n == Len(items)
            parts == [k \in 1..n |-> EncodeItem(items[k])]
<1>2. n \in Nat /\ \A k \in 1..n : items[k] \in RlpItem
  BY <1>1
<1>3. PICK run : /\ run[0] = <<>>
                 /\ \A k \in 0..(n - 1) : run[k + 1] = run[k] \o EncodeItem(items[k + 1])
                 /\ Joined(items) = run[n]
  <2>1. \A item \in RlpItem : EncodeItem(item) \in Seq(Nat)
    BY EncodeSize
  <2>. QED
    BY <1>1, <2>1, JoinedRun
<1>4. CASE n = 0
  <2>1. Joined(items) = <<>>
    BY <1>3, <1>4
  <2>. DEFINE offset == [k \in {1} |-> 0]
  <2>2. LaidOut(items, <<>>, offset)
    BY <1>4 DEF LaidOut
  <2>3. <<>> \in Seq(Byte)
    OBVIOUS
  <2>. HIDE DEF offset
  <2>. QED
    BY <2>1, <2>2, <2>3
<1>5. CASE n # 0
  <2>. DEFINE offset == [k \in 1..(n + 1) |-> Len(run[k - 1])]
  <2>. HIDE DEF n
  <2>1. n \in Nat \ {0} /\ Len(run[n]) = offset[n + 1]
    BY <1>2, <1>5
  <2>2. \A k \in 1..n : parts[k] = EncodeItem(items[k]) /\ parts[k] \in Seq(Nat)
    BY <1>2, EncodeSize
  <2>3. run[1] = parts[1]
    <3>1. run[0 + 1] = run[0] \o EncodeItem(items[0 + 1])
      <4>1. 0 \in 0..(n - 1)
        BY <2>1
      <4>. QED
        BY <1>3, <4>1, Zenon DEF n
    <3>2. 0 + 1 = 1 /\ 1 \in 1..n
      BY <2>1
    <3>3. <<>> \o parts[1] = parts[1]
      BY <2>2, <3>2, ConcatEmptySeq
    <3>4. parts[1] = EncodeItem(items[1])
      BY <2>2, <3>2
    <3>. HIDE DEF parts
    <3>. QED
      BY <1>3, <3>1, <3>2, <3>3, <3>4, Zenon
  <2>. HIDE DEF parts
  <2>4. \A k \in 1..(n - 1) : run[k + 1] = run[k] \o parts[k + 1]
    <3>. SUFFICES ASSUME NEW k \in 1..(n - 1) PROVE run[k + 1] = run[k] \o parts[k + 1]
      OBVIOUS
    <3>1. k \in 0..(n - 1) /\ k + 1 \in 1..n
      BY <2>1
    <3>. QED
      BY <1>3, <2>2, <3>1, Zenon
  <2>5. ASSUME NEW k \in 0..n PROVE run[k] \in Seq(Nat)
    <3>. DEFINE A == {m \in Nat : m <= n => run[m] \in Seq(Nat)}
    <3>1. 0 \in A
      <4>1. <<>> \in Seq(Nat)
        OBVIOUS
      <4>. QED
        BY <1>3, <4>1
    <3>2. ASSUME NEW m \in Nat, m \in A PROVE m + 1 \in A
      <4>. SUFFICES ASSUME m + 1 <= n PROVE run[m + 1] \in Seq(Nat)
        OBVIOUS
      <4>1. m \in 0..(n - 1) /\ m + 1 \in 1..n /\ run[m] \in Seq(Nat)
        BY <2>1, <3>2
      <4>2. run[m + 1] = run[m] \o parts[m + 1] /\ parts[m + 1] \in Seq(Nat)
        BY <1>3, <2>2, <4>1, Zenon
      <4>. QED
        BY <4>1, <4>2, ConcatProperties
    <3>3. k \in A
      <4>. HIDE DEF A
      <4>. QED
        BY <3>1, <3>2, Induction
    <3>. QED
      BY <3>3
  <2>6. offset[1] = 0 /\ \A k \in 1..n : offset[k + 1] = offset[k] + Len(parts[k])
    <3>1. offset[1] = 0
      BY <1>3, <2>1
    <3>. SUFFICES ASSUME NEW k \in 1..n PROVE offset[k + 1] = offset[k] + Len(parts[k])
      BY <3>1
    <3>2. /\ k - 1 \in 0..(n - 1) /\ k - 1 \in 0..n /\ (k - 1) + 1 = k
          /\ offset[k + 1] = Len(run[k]) /\ offset[k] = Len(run[k - 1])
      BY <2>1
    <3>3. run[k] = run[k - 1] \o parts[k]
      BY <1>3, <2>2, <3>2, Zenon
    <3>4. run[k - 1] \in Seq(Nat) /\ parts[k] \in Seq(Nat)
      BY <2>2, <2>5, <3>2
    <3>5. Len(run[k - 1] \o parts[k]) = Len(run[k - 1]) + Len(parts[k])
      BY <3>4, ConcatProperties
    <3>. QED
      BY <3>2, <3>3, <3>5, Zenon
  <2>. HIDE DEF offset
  <2>7. /\ Len(run[n]) = offset[n + 1]
        /\ \A k \in 1..n : offset[k] \in Nat /\ offset[k + 1] <= Len(run[n])
    <3>1. Concatenates(Nat, n, parts, run, offset)
      BY <2>2, <2>3, <2>4, <2>6, Zenon DEF Concatenates
    <3>. QED
      BY <2>1, <3>1, PartsInPlace
  <2>8. ASSUME NEW k \in 1..n
        PROVE  Fits(Len(items[k].bytes)) /\ parts[k] \in Seq(Byte)
    <3>. DEFINE m == Len(items[k].bytes)
                size == Len(parts[k])
                whole == Len(run[n])
    <3>1. m \in Nat /\ size \in Nat /\ m <= size
      <4>1. items[k] \in RlpItem /\ items[k].bytes \in Seq(Byte)
        BY <1>2 DEF RlpItem, n
      <4>2. parts[k] = EncodeItem(items[k]) /\ parts[k] \in Seq(Nat)
        BY <2>2
      <4>. QED
        BY <4>1, <4>2, EncodeSize
    <3>2. offset[k + 1] = offset[k] + size /\ offset[k] \in Nat /\ offset[k + 1] <= whole
      BY <2>6, <2>7
    <3>3. Fits(whole)
      BY <1>1, <1>3
    <3>4. whole \in Nat
      BY <2>1, <2>5
    <3>. HIDE DEF m, size, whole
    <3>5. Fits(m)
      BY ONLY <3>1, <3>2, <3>3, <3>4 DEF Fits
    <3>6. items[k] \in RlpItem
      BY <1>2 DEF n
    <3>7. EncodeItem(items[k]) \in Seq(Byte)
      BY <3>5, <3>6, EncodeSize DEF m, Fits
    <3>. QED
      BY <2>2, <3>5, <3>7 DEF m
  <2>9. run[n] \in Seq(Byte) /\ \A k \in 1..n : Holds(run[n], offset[k], parts[k])
    <3>1. Concatenates(Byte, n, parts, run, offset)
      BY <2>3, <2>4, <2>6, <2>8, Zenon DEF Concatenates
    <3>. QED
      BY <2>1, <3>1, PartsInPlace
  <2>10. LaidOut(items, run[n], offset)
    BY <2>1, <2>2, <2>6, <2>7, <2>8, <2>9, Zenon DEF LaidOut, n
  <2>. QED
    BY <1>3, <2>9, <2>10, Zenon
<1>. QED
  BY <1>4, <1>5

(***************************************************************************)
(* Where the k-th item was laid down, that item is read, and the next one  *)
(* starts behind it.                                                       *)
(***************************************************************************)
ReadAt(hay, pos, item, i) ==
  /\ ReadItem(hay, pos) = {i}
  /\ i.list = item.list /\ i.size = Len(item.bytes)
  /\ Payload(hay, i) = item.bytes
  /\ Canonical(hay, pos, i)

LEMMA ReadInPlace ==
  ASSUME NEW item \in RlpItem, Fits(Len(item.bytes)), NEW hay, NEW offset,
         Within(EncodeItem(item), hay, offset)
  PROVE  \E i : /\ ReadAt(hay, offset + 1, item, i)
                /\ After(i) = offset + Len(EncodeItem(item)) + 1
<1>. DEFINE e == EncodeItem(item)
<1>1. PICK j : ReadBack(e, item, j)
  BY ReadEncoded
<1>2. j \in ReadItem(e, 1) /\ 1 \in Nat \ {0}
  BY <1>1 DEF ReadBack
<1>3. Within(e, hay, offset)
  OBVIOUS
<1>. DEFINE i == Moved(j, offset)
<1>. HIDE DEF e
<1>4. /\ ReadItem(hay, offset + 1) = {i} /\ Payload(hay, i) = Payload(e, j)
      /\ After(i) = offset + After(j)
      /\ Canonical(hay, offset + 1, i) <=> Canonical(e, 1, j)
  BY <1>2, <1>3, ItemMoved
<1>5. i.list = j.list /\ i.size = j.size
  BY DEF Moved
<1>. HIDE DEF i
<1>6. ReadAt(hay, offset + 1, item, i)
  BY <1>1, <1>4, <1>5, Zenon DEF ReadAt, ReadBack
<1>7. After(i) = offset + Len(e) + 1
  <2>1. After(j) = Len(e) + 1 /\ Len(e) \in Nat /\ offset \in Nat
    BY <1>1, <1>3 DEF ReadBack, Within
  <2>. QED
    BY <1>4, <2>1
<1>. QED
  BY <1>6, <1>7 DEF e

LEMMA ItemsInPlace ==
  ASSUME NEW items, Encodable(items), NEW offset, LaidOut(items, Joined(items), offset),
         NEW k \in 1..Len(items)
  PROVE  \E i : /\ ReadAt(Joined(items), offset[k] + 1, items[k], i)
                /\ After(i) = offset[k + 1] + 1
                /\ offset[k] \in Nat /\ offset[k] < Len(Joined(items))
<1>. DEFINE e == EncodeItem(items[k])
            hay == Joined(items)
<1>1. items[k] \in RlpItem /\ hay \in Seq(Byte)
  BY JoinedInPlace, ElementOfSeq DEF Encodable
<1>2. /\ Fits(Len(items[k].bytes)) /\ e \in Seq(Byte) /\ offset[k] \in Nat
      /\ offset[k + 1] = offset[k] + Len(e) /\ offset[k + 1] <= Len(hay)
      /\ Holds(hay, offset[k], e)
  BY DEF LaidOut
<1>3. Len(e) >= 1
  BY <1>1, EncodeSize
<1>. HIDE DEF e, hay
<1>4. Within(e, hay, offset[k])
  BY <1>1, <1>2 DEF Within
<1>5. PICK i : ReadAt(hay, offset[k] + 1, items[k], i) /\ After(i) = offset[k] + Len(e) + 1
  BY <1>1, <1>2, <1>4, ReadInPlace, Zenon DEF e
<1>6. After(i) = offset[k + 1] + 1 /\ offset[k] < Len(hay)
  <2>1. Len(e) \in Nat /\ Len(hay) \in Nat
    BY <1>1, <1>2
  <2>. DEFINE l == Len(e)
              h == Len(hay)
              a == After(i)
              x == offset[k]
              y == offset[k + 1]
  <2>2. l \in Nat /\ l >= 1 /\ h \in Nat /\ x \in Nat /\ y = x + l /\ y <= h /\ a = x + l + 1
    BY <1>2, <1>3, <1>5, <2>1
  <2>. HIDE DEF l, h, a, x, y
  <2>3. a = y + 1 /\ x < h
    BY ONLY <2>2
  <2>. QED
    BY <2>3 DEF l, h, a, x, y
<1>. QED
  BY <1>2, <1>5, <1>6 DEF hay

(***************************************************************************)
(* The items of a payload are the ones it was made of.                     *)
(***************************************************************************)
LEMMA ItemsOfJoined ==
  ASSUME NEW items, Encodable(items)
  PROVE  Items(Joined(items)) = {items}
<1>. DEFINE hay == Joined(items)
            n == Len(items)
<1>1. items \in Seq(RlpItem) /\ hay \in Seq(Byte) /\ n \in Nat
  BY JoinedInPlace DEF Encodable
<1>2. PICK offset : LaidOut(items, hay, offset)
  BY JoinedInPlace
<1>3. PICK from : Items(hay) = from[1] /\ ReadsOn(hay, from)
  BY <1>1, ItemsRun
<1>. DEFINE Rest(k) == SubSeq(items, k, n)
            A == {d \in Nat : d <= n => from[offset[n - d + 1] + 1] = {Rest(n - d + 1)}}
<1>4. 0 \in A
  <2>1. n - 0 + 1 = n + 1 /\ offset[n + 1] = Len(hay)
    BY <1>1, <1>2 DEF LaidOut
  <2>2. from[Len(hay) + 1] = {<<>>}
    BY <1>1, <1>3, ListsFromHere
  <2>3. Rest(n + 1) = <<>>
    BY <1>1, SubSeqEmpty
  <2>. HIDE DEF hay, Rest, n
  <2>4. 0 \in Nat
    OBVIOUS
  <2>. QED
    BY <2>1, <2>2, <2>3, <2>4
<1>5. ASSUME NEW d \in Nat, d \in A PROVE d + 1 \in A
  <2>. SUFFICES ASSUME d + 1 <= n
                PROVE  from[offset[n - (d + 1) + 1] + 1] = {Rest(n - (d + 1) + 1)}
    OBVIOUS
  <2>. DEFINE k == n - d
  <2>1. k \in 1..n /\ n - (d + 1) + 1 = k /\ n - d + 1 = k + 1 /\ d <= n
    BY <1>1
  <2>2. from[offset[k + 1] + 1] = {Rest(k + 1)}
    BY <1>5, <2>1
  <2>3. PICK i : /\ ReadAt(hay, offset[k] + 1, items[k], i) /\ After(i) = offset[k + 1] + 1
                 /\ offset[k] \in Nat /\ offset[k] < Len(hay)
    <3>. HIDE DEF k
    <3>. QED
      BY <1>2, <2>1, ItemsInPlace
  <2>4. Rest(k) = <<items[k]>> \o Rest(k + 1)
    <3>1. n \in k..Len(items)
      BY <2>1
    <3>. HIDE DEF k
    <3>. QED
      BY <1>1, <2>1, <3>1, SubSeqRecursiveFirst
  <2>5. ItemAt(hay, i) = items[k]
    <3>1. items[k] \in RlpItem
      BY <1>1, <2>1, ElementOfSeq
    <3>2. i.list = items[k].list /\ Payload(hay, i) = items[k].bytes
      BY <2>3 DEF ReadAt
    <3>3. \A x \in RlpItem : x = [list |-> x.list, bytes |-> x.bytes]
      BY DEF RlpItem
    <3>. HIDE DEF k, hay
    <3>. QED
      BY <3>1, <3>2, <3>3, Zenon DEF ItemAt
  <2>6. offset[k] + 1 \in 1..Len(hay)
    BY <1>1, <2>3
  <2>7. ReadItem(hay, offset[k] + 1) = {i} /\ from[After(i)] = {Rest(k + 1)}
    BY <2>2, <2>3, Zenon DEF ReadAt
  <2>. HIDE DEF k, Rest, hay, n
  <2>8. from[offset[k] + 1] = {<<ItemAt(hay, i)>> \o Rest(k + 1)}
    <3>. DEFINE Then(j, rest) == <<ItemAt(hay, j)>> \o rest
    <3>1. \A j, rest : \A pos \in 1..Len(hay) :
            ReadItem(hay, pos) = {j} /\ from[After(j)] = {rest} => from[pos] = {Then(j, rest)}
      BY <1>1, <1>3, ListsFromHere
    <3>. HIDE DEF Then
    <3>2. from[offset[k] + 1] = {Then(i, Rest(k + 1))}
      BY <2>6, <2>7, <3>1
    <3>. QED
      BY <3>2 DEF Then
  <2>. QED
    BY <2>1, <2>4, <2>5, <2>8, Zenon
<1>6. n \in A
  <2>. HIDE DEF A
  <2>. QED
    BY <1>1, <1>4, <1>5, Induction
<1>7. n - n + 1 = 1 /\ n <= n
  BY <1>1
<1>8. offset[1] = 0 /\ 0 + 1 = 1
  BY <1>2 DEF LaidOut
<1>9. Rest(1) = items
  BY <1>1, SubSeqFull
<1>10. from[1] = {Rest(1)}
  <2>. HIDE DEF Rest
  <2>. QED
    BY <1>6, <1>7, <1>8
<1>. QED
  BY <1>3, <1>9, <1>10

(***************************************************************************)
(* An encoded list is one list item that takes up all of its bytes.        *)
(***************************************************************************)
LEMMA WholeList ==
  ASSUME NEW items, Encodable(items)
  PROVE  /\ EncodeList(items) \in Seq(Byte)
         /\ \E i : ReadBack(EncodeList(items), [list |-> TRUE, bytes |-> Joined(items)], i)
<1>. DEFINE item == [list |-> TRUE, bytes |-> Joined(items)]
<1>1. Joined(items) \in Seq(Byte)
  BY JoinedInPlace
<1>2. item \in RlpItem
  BY <1>1 DEF RlpItem
<1>3. item.list = TRUE /\ item.bytes = Joined(items)
  OBVIOUS
<1>. HIDE DEF item
<1>4. EncodeItem(item) = EncodeList(items)
  BY <1>3 DEF EncodeItem, EncodeList
<1>5. Fits(Len(item.bytes)) /\ Len(item.bytes) < 65536
  BY <1>3 DEF Encodable, Fits
<1>6. EncodeItem(item) \in Seq(Byte)
  BY <1>2, <1>5, EncodeSize
<1>7. \E i : ReadBack(EncodeItem(item), item, i)
  <2>1. Fits(Len(item.bytes))
    BY <1>5
  <2>. QED
    BY ONLY <1>2, <2>1, ReadEncoded
<1>8. \E i : ReadBack(EncodeList(items), item, i)
  BY ONLY <1>4, <1>7
<1>. QED
  BY <1>4, <1>6, <1>8 DEF item

(***************************************************************************)
(* Behind a tail, or cut short, the same item is read at the same place.   *)
(***************************************************************************)
LEMMA TailRead ==
  ASSUME NEW hay \in Seq(Byte), NEW tail \in Seq(Byte), tail # <<>>, NEW i,
         ReadItem(hay, 1) = {i}, After(i) = Len(hay) + 1
  PROVE  DecodeList(hay \o tail) = {}
<1>. DEFINE all == hay \o tail
<1>1. /\ all \in Seq(Byte) /\ Len(all) = Len(hay) + Len(tail)
      /\ Len(hay) \in Nat /\ Len(tail) \in Nat \ {0}
      /\ \A k \in 1..Len(hay) : all[0 + k] = hay[k]
  BY ConcatProperties
<1>. HIDE DEF all
<1>2. Within(hay, all, 0)
  BY <1>1 DEF Within, Holds
<1>3. ReadItem(all, 0 + 1) = {Moved(i, 0)} /\ After(Moved(i, 0)) = 0 + After(i)
  <2>1. i \in ReadItem(hay, 1) /\ 1 \in Nat \ {0}
    OBVIOUS
  <2>. QED
    BY <1>2, <2>1, ItemMoved
<1>4. ReadItem(all, 1) = {Moved(i, 0)} /\ After(Moved(i, 0)) # Len(all) + 1
  BY <1>1, <1>3
<1>5. OuterList(all) = {}
  BY <1>4, Zenon DEF OuterList
<1>. QED
  BY <1>5 DEF DecodeList, all

LEMMA CutRead ==
  ASSUME NEW hay \in Seq(Byte), NEW n \in Nat, n < Len(hay), NEW i,
         ReadItem(hay, 1) = {i}, After(i) = Len(hay) + 1
  PROVE  DecodeList(SubSeq(hay, 1, n)) = {}
<1>. DEFINE cut == SubSeq(hay, 1, n)
<1>1. cut \in Seq(Byte) /\ Len(cut) = n /\ \A k \in 1..n : cut[k] = hay[k]
  <2>1. \A k \in 1..n : hay[k] \in Byte
    OBVIOUS
  <2>. QED
    BY <2>1, SubSeqProperties
<1>. HIDE DEF cut
<1>2. Within(cut, hay, 0)
  BY <1>1 DEF Within, Holds
<1>3. ASSUME NEW j \in ReadItem(cut, 1) PROVE After(j) # Len(cut) + 1
  <2>1. 1 \in Nat \ {0}
    OBVIOUS
  <2>2. ReadItem(hay, 0 + 1) = {Moved(j, 0)} /\ After(Moved(j, 0)) = 0 + After(j)
    BY <1>2, <1>3, <2>1, ItemMoved
  <2>3. After(j) \in Nat
    BY <1>1, <1>3, <2>1, ReadItemFacts
  <2>4. Moved(j, 0) = i
    BY <2>2
  <2>. QED
    BY <1>1, <2>2, <2>3, <2>4
<1>4. OuterList(cut) = {}
  BY <1>3 DEF OuterList
<1>. QED
  BY <1>4 DEF DecodeList, cut

(***************************************************************************)
(* rlp_decode_list inverts the encoding of every list whose length takes   *)
(* two bytes at most, and refuses it with a tail, or cut short.            *)
(***************************************************************************)
THEOREM EveryListDecodes ==
  \A items : Encodable(items) => DecoderInverts(items)
<1>. SUFFICES ASSUME NEW items, Encodable(items) PROVE DecoderInverts(items)
  OBVIOUS
<1>. DEFINE whole == EncodeList(items)
            hay == Joined(items)
            item == [list |-> TRUE, bytes |-> hay]
<1>1. whole \in Seq(Byte) /\ \E i : ReadBack(whole, item, i)
  BY WholeList
<1>2. PICK i : ReadBack(whole, item, i)
  BY <1>1
<1>3. item.list = TRUE /\ item.bytes = hay
  OBVIOUS
<1>. HIDE DEF item, whole
<1>4. ReadItem(whole, 1) = {i} /\ i.list /\ After(i) = Len(whole) + 1 /\ Payload(whole, i) = hay
  BY <1>2, <1>3 DEF ReadBack
<1>5. OuterList(whole) = {i}
  BY <1>4, Zenon DEF OuterList
<1>6. Items(hay) = {items}
  BY ItemsOfJoined
<1>. HIDE DEF hay
<1>7. DecodeList(whole) = {items}
  BY <1>4, <1>5, <1>6 DEF DecodeList
<1>8. DecodeList(whole \o <<0>>) = {}
  <2>1. <<0>> \in Seq(Byte) /\ <<0>> # <<>>
    BY DEF Byte
  <2>. HIDE DEF whole
  <2>. QED
    BY <1>1, <1>4, <2>1, TailRead
<1>9. ASSUME NEW n \in 1..(Len(whole) - 1) PROVE DecodeList(SubSeq(whole, 1, n)) = {}
  <2>1. n \in Nat /\ n < Len(whole)
    BY <1>1
  <2>. QED
    BY <1>1, <1>4, <2>1, CutRead
<1>. QED
  BY <1>7, <1>8, <1>9 DEF DecoderInverts, whole

(***************************************************************************)
(* A walk goes on where it stands, and is at one place at most.            *)
(***************************************************************************)
LEMMA SkipNext ==
  ASSUME NEW header \in Seq(Byte), NEW from \in SUBSET (1..(Len(header) + 1)), NEW n \in Nat
  PROVE  /\ Skip(header, from, 0) = from
         /\ Skip(header, from, n + 1) = Hop(header, Skip(header, from, n))
<1>1. Skip(header, from, 0) = from
  <2>1. 0 \in Nat
    OBVIOUS
  <2>2. PICK run : run[0] = from /\ Skip(header, from, 0) = run[0]
    BY <2>1, SkipRun
  <2>. QED
    BY <2>2
<1>2. PICK short : /\ short[0] = from /\ Skip(header, from, n) = short[n]
                   /\ \A k \in 0..(n - 1) : short[k + 1] = Hop(header, short[k])
  BY SkipRun
<1>3. PICK long : /\ long[0] = from /\ Skip(header, from, n + 1) = long[n + 1]
                  /\ \A k \in 0..n : long[k + 1] = Hop(header, long[k])
  <2>1. n + 1 \in Nat /\ (n + 1) - 1 = n
    OBVIOUS
  <2>2. \E run : /\ run[0] = from
                 /\ \A k \in 0..((n + 1) - 1) : run[k + 1] = Hop(header, run[k])
                 /\ Skip(header, from, n + 1) = run[n + 1]
    BY ONLY <2>1, SkipRun, header \in Seq(Byte), from \in SUBSET (1..(Len(header) + 1))
  <2>. QED
    BY <2>1, <2>2
<1>. DEFINE A == {k \in Nat : k <= n => short[k] = long[k]}
<1>4. 0 \in A
  BY <1>2, <1>3
<1>5. ASSUME NEW k \in Nat, k \in A PROVE k + 1 \in A
  <2>. SUFFICES ASSUME k + 1 <= n PROVE short[k + 1] = long[k + 1]
    OBVIOUS
  <2>1. k \in 0..(n - 1) /\ k \in 0..n /\ short[k] = long[k]
    BY <1>5
  <2>. QED
    BY <1>2, <1>3, <2>1
<1>6. n \in A
  <2>. HIDE DEF A
  <2>. QED
    BY <1>4, <1>5, Induction
<1>7. short[n] = long[n] /\ n \in 0..n
  BY <1>6
<1>. QED
  BY <1>1, <1>2, <1>3, <1>7

LEMMA SkipWithin ==
  ASSUME NEW header \in Seq(Byte), NEW from \in SUBSET (1..(Len(header) + 1)), NEW n \in Nat,
         AtMostOne(from)
  PROVE  Skip(header, from, n) \in SUBSET (1..(Len(header) + 1)) /\ AtMostOne(Skip(header, from, n))
<1>. DEFINE Good(S) == S \in SUBSET (1..(Len(header) + 1)) /\ AtMostOne(S)
            A == {k \in Nat : Good(Skip(header, from, k))}
<1>1. \A S : Good(S) => Good(Hop(header, S))
  BY HopWithin
<1>2. Good(from)
  OBVIOUS
<1>3. \A k \in Nat : /\ Skip(header, from, 0) = from
                     /\ Skip(header, from, k + 1) = Hop(header, Skip(header, from, k))
  BY SkipNext
<1>. HIDE DEF Good
<1>4. 0 \in A
  BY <1>2, <1>3
<1>5. \A k \in Nat : k \in A => k + 1 \in A
  BY <1>1, <1>3
<1>6. n \in A
  <2>. HIDE DEF A
  <2>. QED
    BY <1>4, <1>5, Induction
<1>. QED
  BY <1>6 DEF Good

LEMMA SkipAdds ==
  ASSUME NEW header \in Seq(Byte), NEW from \in SUBSET (1..(Len(header) + 1)), AtMostOne(from),
         NEW m \in Nat, NEW n \in Nat
  PROVE  Skip(header, Skip(header, from, m), n) = Skip(header, from, m + n)
<1>. DEFINE mid == Skip(header, from, m)
            A == {k \in Nat : Skip(header, mid, k) = Skip(header, from, m + k)}
<1>1. mid \in SUBSET (1..(Len(header) + 1))
  BY SkipWithin
<1>. HIDE DEF mid
<1>2. 0 \in A
  <2>1. Skip(header, mid, 0) = mid /\ m + 0 = m
    BY <1>1, SkipNext
  <2>. QED
    BY <2>1 DEF mid
<1>3. ASSUME NEW k \in Nat, k \in A PROVE k + 1 \in A
  <2>1. Skip(header, mid, k + 1) = Hop(header, Skip(header, mid, k))
    BY <1>1, SkipNext
  <2>2. m + k \in Nat /\ m + (k + 1) = (m + k) + 1
    OBVIOUS
  <2>3. Skip(header, from, (m + k) + 1) = Hop(header, Skip(header, from, m + k))
    BY <2>2, SkipNext
  <2>. QED
    BY <1>3, <2>1, <2>2, <2>3
<1>4. n \in A
  <2>. HIDE DEF A
  <2>. QED
    BY <1>2, <1>3, Induction
<1>. QED
  BY <1>4 DEF mid

LEMMA EnterFacts ==
  ASSUME NEW header \in Seq(Byte)
  PROVE  Enter(header) \in SUBSET (1..(Len(header) + 1)) /\ AtMostOne(Enter(header))
<1>1. 1 \in Nat \ {0}
  OBVIOUS
<1>2. AtMostOne(ReadItem(header, 1))
  BY <1>1, ReadItemFacts
<1>3. ASSUME NEW i \in ReadItem(header, 1) PROVE i.start \in 1..(Len(header) + 1)
  <2>1. /\ i \in [list : BOOLEAN, start : Nat, size : Nat] /\ i.start >= 1
        /\ After(i) \in (1 + 1)..(Len(header) + 1)
    BY <1>1, <1>3, ReadItemFacts
  <2>2. i.start \in Nat /\ i.size \in Nat /\ Len(header) \in Nat
    BY <2>1
  <2>. QED
    BY <2>1, <2>2 DEF After
<1>4. \A i \in AlloyHeader(header, 1) : i \in ReadItem(header, 1)
  BY DEF AlloyHeader
<1>. QED
  BY <1>2, <1>3, <1>4 DEF Enter, AtMostOne

(***************************************************************************)
(* The payload of the outer list, where it lies in the header; a walk that *)
(* enters the header starts there.                                         *)
(***************************************************************************)
LEMMA OuterPart ==
  ASSUME NEW header \in Seq(Byte), NEW outer \in OuterList(header)
  PROVE  /\ outer.start \in Nat \ {0} /\ Payload(header, outer) \in Seq(Byte)
         /\ Within(Payload(header, outer), header, outer.start - 1)
         /\ Enter(header) \subseteq {outer.start}
<1>. DEFINE body == Payload(header, outer)
            x == outer.start
            m == outer.size
            h == Len(header)
<1>1. outer \in ReadItem(header, 1) /\ 1 \in Nat \ {0}
  BY DEF OuterList
<1>2. /\ outer \in [list : BOOLEAN, start : Nat, size : Nat] /\ x >= 1
      /\ After(outer) \in (1 + 1)..(h + 1)
      /\ body \in Seq(Byte) /\ Len(body) = m
      /\ \A k \in 1..m : body[k] = header[x + k - 1]
  BY <1>1, ReadItemFacts
<1>3. x \in Nat /\ m \in Nat /\ h \in Nat /\ x >= 1 /\ x + m <= h + 1
  <2>1. x \in Nat /\ m \in Nat /\ h \in Nat
    BY <1>2
  <2>. QED
    BY <1>2, <2>1 DEF After
<1>4. AtMostOne(ReadItem(header, 1))
  BY <1>1, ReadItemFacts
<1>5. Enter(header) \subseteq {x}
  BY <1>1, <1>4 DEF Enter, AlloyHeader, AtMostOne
<1>. HIDE DEF body, x, m, h
<1>6. x - 1 \in Nat /\ x \in Nat \ {0} /\ (x - 1) + m <= h
  BY ONLY <1>3
<1>7. \A k \in 1..m : header[(x - 1) + k] = body[k]
  <2>1. \A k \in 1..m : (x - 1) + k = x + k - 1
    BY <1>3
  <2>. QED
    BY <1>2, <2>1
<1>8. Within(body, header, x - 1)
  BY <1>2, <1>6, <1>7, Zenon DEF Within, Holds, h
<1>. QED
  BY <1>2, <1>5, <1>6, <1>8 DEF body, x

(***************************************************************************)
(* The walk and the decoder go through the same items: after k of them the *)
(* walk stands, if anywhere, where the decoder has the rest of its list.   *)
(***************************************************************************)
TailFrom(s, k, tail) == Len(tail) = Len(s) - k /\ \A j \in 1..Len(tail) : tail[j] = s[k + j]

Abreast(body, from, start, s, k, at) ==
  \E p \in 1..(Len(body) + 1) : \E tail \in from[p] :
    TailFrom(s, k, tail) /\ at \subseteq {start - 1 + p}

LEMMA NextOfTail ==
  ASSUME NEW body \in Seq(Byte), NEW from, ReadsOn(body, from),
         NEW p \in 1..(Len(body) + 1), NEW tail \in from[p],
         NEW s \in Seq(RlpItem), NEW k \in 0..(Len(s) - 1), TailFrom(s, k, tail)
  PROVE  p \in 1..Len(body) /\ \E i \in ReadItem(body, p) :
           /\ Payload(body, i) = s[k + 1].bytes
           /\ \E rest \in from[After(i)] : TailFrom(s, k + 1, rest)
<1>1. Len(tail) >= 1 /\ Len(s) \in Nat
  BY DEF TailFrom
<1>2. p # Len(body) + 1
  <2>1. from[Len(body) + 1] = {<<>>}
    BY ListsFromHere
  <2>2. tail # <<>>
    BY <1>1
  <2>. QED
    BY <2>1, <2>2
<1>3. p \in 1..Len(body) /\ p \in Nat \ {0}
  BY <1>2
<1>4. PICK i \in ReadItem(body, p) : \E rest \in from[After(i)] : tail = <<ItemAt(body, i)>> \o rest
  <2>1. /\ from[Len(body) + 1] = {<<>>}
        /\ \A pos \in 1..(Len(body) + 1) : from[pos] \subseteq Seq(RlpItem)
        /\ \A pos \in 1..Len(body) : \A t \in from[pos] :
             \E i \in ReadItem(body, pos) : \E rest \in from[After(i)] :
                t = <<ItemAt(body, i)>> \o rest
        /\ \A i, rest : \A pos \in 1..Len(body) :
             ReadItem(body, pos) = {i} /\ from[After(i)] = {rest}
               => from[pos] = {<<ItemAt(body, i)>> \o rest}
    BY ONLY body \in Seq(Byte), ReadsOn(body, from), ListsFromHere, Zenon
  <2>. QED
    BY <1>3, <2>1, Zenon
<1>5. PICK rest \in from[After(i)] : tail = <<ItemAt(body, i)>> \o rest
  BY <1>4
<1>6. After(i) \in 1..(Len(body) + 1) /\ ItemAt(body, i) \in RlpItem
  <2>1. /\ i \in [list : BOOLEAN, start : Nat, size : Nat]
        /\ After(i) \in (p + 1)..(Len(body) + 1) /\ Payload(body, i) \in Seq(Byte)
    BY <1>3, <1>4, ReadItemFacts
  <2>2. i.list \in BOOLEAN
    BY <2>1
  <2>3. ItemAt(body, i) \in RlpItem
    BY <2>1, <2>2 DEF ItemAt, RlpItem
  <2>. QED
    BY <1>3, <2>1, <2>3
<1>7. rest \in Seq(RlpItem)
  <2>1. \A pos \in 1..(Len(body) + 1) : from[pos] \subseteq Seq(RlpItem)
    BY ListsFromHere
  <2>. QED
    BY <1>5, <1>6, <2>1
<1>. DEFINE one == <<ItemAt(body, i)>>
<1>8. one \in Seq(RlpItem) /\ Len(one) = 1 /\ one[1] = ItemAt(body, i)
  BY <1>6
<1>9. ItemAt(body, i).bytes = Payload(body, i)
  BY DEF ItemAt
<1>. HIDE DEF one
<1>10. /\ Len(tail) = 1 + Len(rest) /\ tail[1] = ItemAt(body, i) /\ Len(rest) \in Nat
       /\ \A j \in 1..Len(rest) : tail[1 + j] = rest[j]
  <2>1. tail = one \o rest
    BY <1>5, Zenon DEF one
  <2>2. /\ Len(one \o rest) = Len(one) + Len(rest)
        /\ \A j \in 1..(Len(one) + Len(rest)) :
             (one \o rest)[j] = IF j <= Len(one) THEN one[j] ELSE rest[j - Len(one)]
    BY <1>7, <1>8, ConcatProperties
  <2>3. Len(rest) \in Nat
    BY <1>7
  <2>4. \A j \in 1..Len(rest) :
          1 + j \in 1..(1 + Len(rest)) /\ ~(1 + j <= 1) /\ (1 + j) - 1 = j
    BY <2>3
  <2>5. 1 \in 1..(1 + Len(rest)) /\ 1 <= 1
    BY <2>3
  <2>. DEFINE c == one \o rest
  <2>. HIDE DEF c
  <2>6. Len(c) = 1 + Len(rest) /\ c[1] = one[1] /\ \A j \in 1..Len(rest) : c[1 + j] = rest[j]
    <3>1. \A j \in 1..(1 + Len(rest)) : c[j] = IF j <= 1 THEN one[j] ELSE rest[j - 1]
      BY <1>8, <2>2 DEF c
    <3>2. Len(c) = 1 + Len(rest)
      BY <1>8, <2>2 DEF c
    <3>. QED
      BY ONLY <2>4, <2>5, <3>1, <3>2
  <2>. QED
    BY <1>8, <2>1, <2>3, <2>6 DEF c
<1>11. tail[1] = s[k + 1]
  <2>1. 1 \in 1..Len(tail)
    BY <1>10
  <2>. QED
    BY <2>1 DEF TailFrom
<1>12. TailFrom(s, k + 1, rest)
  <2>1. Len(rest) = Len(s) - (k + 1)
    <3>1. Len(tail) = Len(s) - k /\ k \in Nat
      BY DEF TailFrom
    <3>2. Len(tail) = 1 + Len(rest) /\ Len(rest) \in Nat /\ Len(s) \in Nat
      BY <1>1, <1>10, Zenon
    <3>. DEFINE a == Len(tail)
                b == Len(rest)
                c == Len(s)
    <3>. HIDE DEF a, b, c
    <3>3. a = c - k /\ k \in Nat /\ a = 1 + b /\ b \in Nat /\ c \in Nat
      BY <3>1, <3>2, Zenon DEF a, b, c
    <3>4. b = c - (k + 1)
      BY ONLY <3>3
    <3>. QED
      BY <3>4, Zenon DEF b, c
  <2>2. ASSUME NEW j \in 1..Len(rest) PROVE rest[j] = s[(k + 1) + j]
    <3>1. 1 + j \in 1..Len(tail) /\ k + (1 + j) = (k + 1) + j
      BY <1>10
    <3>. QED
      BY <1>10, <3>1 DEF TailFrom
  <2>. QED
    BY <2>1, <2>2 DEF TailFrom
<1>. QED
  BY <1>3, <1>5, <1>9, <1>10, <1>11, <1>12

LEMMA AbreastNext ==
  ASSUME NEW header \in Seq(Byte), NEW body, NEW start \in Nat \ {0},
         Within(body, header, start - 1), NEW from, ReadsOn(body, from),
         NEW s \in Seq(RlpItem), NEW k \in 0..(Len(s) - 1), NEW ps,
         Abreast(body, from, start, s, k, ps)
  PROVE  /\ Abreast(body, from, start, s, k + 1, Hop(header, ps))
         /\ \A q \in ps : \A j \in AlloyHeader(header, q) : Payload(header, j) = s[k + 1].bytes
<1>1. body \in Seq(Byte) /\ start - 1 \in Nat
  BY DEF Within
<1>2. PICK p \in 1..(Len(body) + 1) : \E tail \in from[p] :
        TailFrom(s, k, tail) /\ ps \subseteq {start - 1 + p}
  BY DEF Abreast
<1>3. PICK tail \in from[p] : TailFrom(s, k, tail) /\ ps \subseteq {start - 1 + p}
  BY <1>2
<1>4. p \in 1..Len(body) /\ \E i \in ReadItem(body, p) :
        /\ Payload(body, i) = s[k + 1].bytes
        /\ \E rest \in from[After(i)] : TailFrom(s, k + 1, rest)
  BY <1>1, <1>3, NextOfTail
<1>5. PICK i \in ReadItem(body, p) : /\ Payload(body, i) = s[k + 1].bytes
                                     /\ \E rest \in from[After(i)] : TailFrom(s, k + 1, rest)
  BY <1>4
<1>6. p \in Nat \ {0}
  BY <1>4
<1>. DEFINE off == start - 1
<1>7. Within(body, header, off)
  OBVIOUS
<1>. HIDE DEF off
<1>8. /\ ReadItem(header, off + p) = {Moved(i, off)}
      /\ Payload(header, Moved(i, off)) = Payload(body, i)
      /\ After(Moved(i, off)) = off + After(i)
  BY <1>5, <1>6, <1>7, ItemMoved
<1>9. ps \subseteq {off + p}
  BY <1>3 DEF off
<1>10. \A q \in ps : \A j \in AlloyHeader(header, q) : j = Moved(i, off)
  BY <1>8, <1>9 DEF AlloyHeader
<1>11. After(i) \in 1..(Len(body) + 1)
  <2>1. After(i) \in (p + 1)..(Len(body) + 1)
    BY <1>1, <1>5, <1>6, ReadItemFacts
  <2>. QED
    BY <1>6, <2>1
<1>12. Hop(header, ps) \subseteq {off + After(i)}
  BY <1>8, <1>10 DEF Hop
<1>13. \A q \in ps : \A j \in AlloyHeader(header, q) : Payload(header, j) = s[k + 1].bytes
  BY <1>5, <1>8, <1>10
<1>. QED
  BY <1>5, <1>11, <1>12, <1>13 DEF Abreast, off

LEMMA OnTheWalk ==
  ASSUME NEW header \in Seq(Byte), NEW outer \in OuterList(header),
         NEW s \in Items(Payload(header, outer))
  PROVE  /\ s \in Seq(RlpItem)
         /\ \A k \in 0..(Len(s) - 1) : \A q \in Skip(header, Enter(header), k) :
              \A j \in AlloyHeader(header, q) : Payload(header, j) = s[k + 1].bytes
<1>. DEFINE body == Payload(header, outer)
            start == outer.start
            Stands(k) == Skip(header, Enter(header), k)
<1>1. /\ start \in Nat \ {0} /\ body \in Seq(Byte) /\ Within(body, header, start - 1)
      /\ Enter(header) \subseteq {start}
  BY OuterPart
<1>2. PICK from : Items(body) = from[1] /\ ReadsOn(body, from)
  BY <1>1, ItemsRun
<1>3. \A k \in Nat : /\ Stands(0) = Enter(header)
                     /\ Stands(k + 1) = Hop(header, Stands(k))
  BY EnterFacts, SkipNext
<1>4. s \in from[1] /\ 1 \in 1..(Len(body) + 1)
  BY <1>1, <1>2
<1>. HIDE DEF body, start, Stands
<1>5. s \in Seq(RlpItem)
  <2>1. \A pos \in 1..(Len(body) + 1) : from[pos] \subseteq Seq(RlpItem)
    BY <1>1, <1>2, ListsFromHere
  <2>. QED
    BY <1>4, <2>1
<1>6. Abreast(body, from, start, s, 0, Stands(0))
  <2>1. TailFrom(s, 0, s)
    <3>1. Len(s) \in Nat
      BY <1>5
    <3>. QED
      BY <3>1 DEF TailFrom
  <2>2. Stands(0) \subseteq {start - 1 + 1}
    <3>1. 0 \in Nat
      OBVIOUS
    <3>2. start - 1 + 1 = start
      BY <1>1
    <3>. QED
      BY <1>1, <1>3, <3>1, <3>2
  <2>. QED
    BY <1>4, <2>1, <2>2 DEF Abreast
<1>7. ASSUME NEW k \in 0..(Len(s) - 1), Abreast(body, from, start, s, k, Stands(k))
      PROVE  /\ Abreast(body, from, start, s, k + 1, Stands(k + 1))
             /\ \A q \in Stands(k) : \A j \in AlloyHeader(header, q) :
                  Payload(header, j) = s[k + 1].bytes
  <2>1. k \in Nat
    OBVIOUS
  <2>2. ReadsOn(body, from)
    BY <1>2
  <2>3. /\ Abreast(body, from, start, s, k + 1, Hop(header, Stands(k)))
        /\ \A q \in Stands(k) : \A j \in AlloyHeader(header, q) :
             Payload(header, j) = s[k + 1].bytes
    <3>. DEFINE ps == Stands(k)
    <3>. HIDE DEF ps
    <3>1. Abreast(body, from, start, s, k, ps)
      BY <1>7 DEF ps
    <3>2. Within(body, header, start - 1) /\ start \in Nat \ {0} /\ k \in 0..(Len(s) - 1)
      BY <1>1
    <3>3. /\ Abreast(body, from, start, s, k + 1, Hop(header, ps))
          /\ \A q \in ps : \A j \in AlloyHeader(header, q) : Payload(header, j) = s[k + 1].bytes
      BY ONLY header \in Seq(Byte), <1>5, <2>2, <3>1, <3>2, AbreastNext
    <3>. QED
      BY <3>3 DEF ps
  <2>. QED
    BY <1>3, <2>1, <2>3
<1>. DEFINE A == {k \in Nat : k <= Len(s) => Abreast(body, from, start, s, k, Stands(k))}
<1>8. 0 \in A
  BY <1>6
<1>9. ASSUME NEW k \in Nat, k \in A PROVE k + 1 \in A
  <2>. SUFFICES ASSUME k + 1 <= Len(s) PROVE Abreast(body, from, start, s, k + 1, Stands(k + 1))
    OBVIOUS
  <2>1. k \in 0..(Len(s) - 1) /\ k <= Len(s)
    BY <1>5
  <2>. QED
    BY <1>7, <1>9, <2>1
<1>10. Nat \subseteq A
  <2>. HIDE DEF A
  <2>. QED
    BY <1>8, <1>9, Induction
<1>11. ASSUME NEW k \in 0..(Len(s) - 1)
       PROVE  \A q \in Stands(k) : \A j \in AlloyHeader(header, q) : Payload(header, j) = s[k + 1].bytes
  <2>1. k \in Nat /\ k <= Len(s)
    BY <1>5
  <2>2. Abreast(body, from, start, s, k, Stands(k))
    BY <1>10, <2>1
  <2>. QED
    BY <1>7, <2>2
<1>. QED
  BY <1>5, <1>11 DEF Stands

(***************************************************************************)
(* What the guest commits is what it finds at the fourth and at the ninth  *)
(* item of its walk; and the verifier's number is the same one.            *)
(***************************************************************************)
FoundAt(header, k, j) == \E q \in Skip(header, Enter(header), k) : j \in AlloyHeader(header, q)

LEMMA FoundOnce ==
  ASSUME NEW header \in Seq(Byte), NEW k \in Nat
  PROVE  \A j1, j2 : FoundAt(header, k, j1) /\ FoundAt(header, k, j2) => j1 = j2
<1>1. /\ Skip(header, Enter(header), k) \in SUBSET (1..(Len(header) + 1))
      /\ AtMostOne(Skip(header, Enter(header), k))
  BY EnterFacts, SkipWithin
<1>2. \A q \in 1..(Len(header) + 1) : AtMostOne(ReadItem(header, q))
  <2>1. \A q \in 1..(Len(header) + 1) : q \in Nat \ {0}
    OBVIOUS
  <2>. QED
    BY <2>1, ReadItemFacts
<1>. QED
  BY <1>1, <1>2 DEF AtMostOne, FoundAt, AlloyHeader

LEMMA GuestReads ==
  ASSUME NEW header \in Seq(Byte)
  PROVE  /\ AtMostOne(GuestFields(header))
         /\ \A f \in GuestFields(header) :
              /\ f = [root |-> f.root, number |-> f.number]
              /\ VerifierNumber(header) = {f.number}
              /\ \E r : FoundAt(header, 3, r) /\ r.size = 32 /\ f.root = Payload(header, r)
              /\ \E j : FoundAt(header, 8, j) /\ f.number = Numeral(Payload(header, j))
         /\ \A r, j : /\ FoundAt(header, 3, r) /\ r.size = 32
                      /\ FoundAt(header, 8, j)
                      /\ ~j.list /\ j.size <= 8 /\ (j.size > 0 => header[j.start] # 0)
                   => GuestFields(header) # {}
<1>. DEFINE E == Enter(header)
            Stands(k) == Skip(header, E, k)
            root == UNION {{i \in AlloyHeader(header, p) : i.size = 32} : p \in Skip(header, E, 3)}
            rest == {After(r) : r \in root}
            number == UNION {AlloyU64(header, p) : p \in Skip(header, rest, 4)}
<1>1. GuestFields(header) = {[root |-> Payload(header, r), number |-> n] : r \in root, n \in number}
  BY DEF GuestFields
<1>2. E \in SUBSET (1..(Len(header) + 1)) /\ AtMostOne(E)
  BY EnterFacts
<1>3. 3 \in Nat /\ 4 \in Nat /\ 8 \in Nat /\ 3 + 1 = 4 /\ 4 + 4 = 8
  OBVIOUS
<1>4. \A k \in Nat : Stands(k + 1) = Hop(header, Stands(k))
  BY <1>2, SkipNext
<1>5. \A m, n \in Nat : Skip(header, Stands(m), n) = Stands(m + n)
  BY <1>2, SkipAdds
<1>6. \A k \in Nat : AtMostOne(Stands(k)) /\ Stands(k) \in SUBSET (1..(Len(header) + 1))
  BY <1>2, SkipWithin
<1>7. \A r : r \in root <=> FoundAt(header, 3, r) /\ r.size = 32
  BY DEF FoundAt
<1>8. \A j1, j2 : \A k \in Nat : FoundAt(header, k, j1) /\ FoundAt(header, k, j2) => j1 = j2
  BY FoundOnce
<1>9. root # {} => rest = Stands(4)
  <2>. SUFFICES ASSUME NEW r \in root PROVE rest = Stands(4)
    OBVIOUS
  <2>1. \A x \in root : x = r
    BY <1>3, <1>7, <1>8
  <2>2. FoundAt(header, 3, r) /\ \A x : FoundAt(header, 3, x) => x = r
    BY <1>3, <1>7, <1>8
  <2>3. Stands(4) = Hop(header, Stands(3))
    BY <1>3, <1>4
  <2>4. Hop(header, Stands(3)) = {After(r)}
    BY <2>2 DEF Hop, FoundAt
  <2>5. rest = {After(r)}
    BY <2>1
  <2>. QED
    BY <2>3, <2>4, <2>5
<1>10. root # {} => number = VerifierNumber(header)
  <2>1. Skip(header, Stands(4), 4) = Stands(8)
    BY <1>3, <1>5
  <2>. QED
    BY <1>9, <2>1 DEF VerifierNumber
<1>11. \A n \in VerifierNumber(header) :
         \E j : FoundAt(header, 8, j) /\ n = Numeral(Payload(header, j))
  BY DEF VerifierNumber, AlloyU64, FoundAt
<1>12. AtMostOne(VerifierNumber(header))
  BY <1>3, <1>8, <1>11 DEF AtMostOne
<1>13. AtMostOne(root)
  BY <1>3, <1>7, <1>8 DEF AtMostOne
<1>. HIDE DEF root, number, rest, Stands, E
<1>14. AtMostOne(GuestFields(header))
  BY <1>1, <1>10, <1>12, <1>13 DEF AtMostOne
<1>15. ASSUME NEW f \in GuestFields(header)
       PROVE  /\ f = [root |-> f.root, number |-> f.number]
              /\ VerifierNumber(header) = {f.number}
              /\ \E r : FoundAt(header, 3, r) /\ r.size = 32 /\ f.root = Payload(header, r)
              /\ \E j : FoundAt(header, 8, j) /\ f.number = Numeral(Payload(header, j))
  <2>1. PICK r \in root, n \in number : f = [root |-> Payload(header, r), number |-> n]
    BY <1>1
  <2>2. f.root = Payload(header, r) /\ f.number = n
    BY <2>1
  <2>3. n \in VerifierNumber(header)
    BY <1>10
  <2>4. VerifierNumber(header) = {n}
    BY <1>12, <2>3 DEF AtMostOne
  <2>. QED
    BY <1>7, <1>11, <2>1, <2>2, <2>3, <2>4
<1>16. ASSUME NEW r, NEW j, FoundAt(header, 3, r), r.size = 32, FoundAt(header, 8, j),
              ~j.list, j.size <= 8, j.size > 0 => header[j.start] # 0
       PROVE  GuestFields(header) # {}
  <2>1. r \in root
    BY <1>7, <1>16
  <2>2. Numeral(Payload(header, j)) \in VerifierNumber(header)
    BY <1>16 DEF VerifierNumber, AlloyU64, FoundAt
  <2>3. Numeral(Payload(header, j)) \in number
    BY <1>10, <2>1, <2>2
  <2>. DEFINE n == Numeral(Payload(header, j))
  <2>. HIDE DEF n
  <2>4. n \in number
    BY <2>3 DEF n
  <2>5. [root |-> Payload(header, r), number |-> n] \in GuestFields(header)
    BY <1>1, <2>1, <2>4
  <2>. QED
    BY <2>5
<1>. QED
  BY <1>14, <1>15, <1>16

(***************************************************************************)
(* "Mirrors the guest's header walk": on every header, also a malformed    *)
(* one, all three readers that accept it read the same block.              *)
(***************************************************************************)
THEOREM EveryHeaderIsOneBlock ==
  \A header \in Seq(Byte) : ReadersAgree(header)
<1>. SUFFICES ASSUME NEW header \in Seq(Byte), NEW f \in GuestFields(header)
              PROVE  VerifierNumber(header) = {f.number} /\ DecodeHeader(header) \in {{}, {f}}
  BY DEF ReadersAgree
<1>1. /\ f = [root |-> f.root, number |-> f.number] /\ VerifierNumber(header) = {f.number}
      /\ \E r : FoundAt(header, 3, r) /\ r.size = 32 /\ f.root = Payload(header, r)
      /\ \E j : FoundAt(header, 8, j) /\ f.number = Numeral(Payload(header, j))
  BY GuestReads
<1>2. PICK r : FoundAt(header, 3, r) /\ f.root = Payload(header, r)
  BY <1>1
<1>3. PICK j : FoundAt(header, 8, j) /\ f.number = Numeral(Payload(header, j))
  BY <1>1
<1>4. ASSUME NEW g \in DecodeHeader(header) PROVE g = f
  <2>1. PICK s \in DecodeList(header) :
          /\ Len(s) >= 9 /\ g = [root |-> s[4].bytes, number |-> Numeral(s[9].bytes)]
    BY <1>4 DEF DecodeHeader
  <2>2. PICK outer \in OuterList(header) : s \in Items(Payload(header, outer))
    BY DEF DecodeList
  <2>3. /\ s \in Seq(RlpItem)
        /\ \A k \in 0..(Len(s) - 1) : \A q \in Skip(header, Enter(header), k) :
             \A i \in AlloyHeader(header, q) : Payload(header, i) = s[k + 1].bytes
    BY <2>2, OnTheWalk
  <2>4. 3 \in 0..(Len(s) - 1) /\ 8 \in 0..(Len(s) - 1) /\ 3 + 1 = 4 /\ 8 + 1 = 9
    BY <2>1, <2>3
  <2>5. Payload(header, r) = s[4].bytes
    BY <1>2, <2>3, <2>4 DEF FoundAt
  <2>6. Payload(header, j) = s[9].bytes
    BY <1>3, <2>3, <2>4 DEF FoundAt
  <2>. QED
    BY <1>1, <1>2, <1>3, <2>1, <2>5, <2>6
<1>. QED
  BY <1>1, <1>4

(***************************************************************************)
(* A header that decode_header has room for states its length in two bytes *)
(* at most, and a number without leading zeros is its own numeral.         *)
(***************************************************************************)
LEMMA HeaderFits ==
  ASSUME NEW items \in Seq(RlpItem), Len(EncodeList(items)) <= MAX_HEADER_RLP_LEN
  PROVE  Encodable(items)
<1>1. \A item \in RlpItem : EncodeItem(item) \in Seq(Nat)
  BY EncodeSize
<1>2. PICK run : /\ run[0] = <<>> /\ Joined(items) = run[Len(items)]
                 /\ \A k \in 0..(Len(items) - 1) : run[k + 1] = run[k] \o EncodeItem(items[k + 1])
  BY <1>1, JoinedRun
<1>. DEFINE A == {k \in Nat : k <= Len(items) => run[k] \in Seq(Nat)}
<1>3. 0 \in A
  <2>1. <<>> \in Seq(Nat)
    OBVIOUS
  <2>. QED
    BY <1>2, <2>1
<1>4. ASSUME NEW k \in Nat, k \in A PROVE k + 1 \in A
  <2>. SUFFICES ASSUME k + 1 <= Len(items) PROVE run[k + 1] \in Seq(Nat)
    OBVIOUS
  <2>1. k \in 0..(Len(items) - 1) /\ k + 1 \in 1..Len(items) /\ run[k] \in Seq(Nat)
    BY <1>4
  <2>2. EncodeItem(items[k + 1]) \in Seq(Nat)
    BY <1>1, <2>1, ElementOfSeq
  <2>3. run[k] \o EncodeItem(items[k + 1]) \in Seq(Nat)
    BY <2>1, <2>2, ConcatProperties
  <2>. QED
    BY <1>2, <2>1, <2>3, Zenon
<1>5. Len(items) \in A
  <2>. HIDE DEF A
  <2>. QED
    BY <1>3, <1>4, Induction
<1>. DEFINE hay == Joined(items)
            pre == Prefix(Len(hay), 192, 247)
<1>6. hay \in Seq(Nat) /\ Len(hay) \in Nat
  BY <1>2, <1>5
<1>7. pre \in Seq(Nat)
  <2>. DEFINE list == TRUE
  <2>1. Short(list) = 192 /\ Long(list) = 247 /\ list \in BOOLEAN
    BY DEF Short, Long
  <2>. HIDE DEF list, hay
  <2>2. Prefix(Len(hay), Short(list), Long(list)) \in Seq(Nat)
    BY ONLY <1>6, <2>1, PrefixFacts
  <2>. QED
    BY <2>1, <2>2
<1>8. EncodeList(items) = pre \o hay
  BY DEF EncodeList, WrapList
<1>. HIDE DEF pre, hay
<1>9. Len(hay) <= Len(pre \o hay)
  <2>1. Len(pre \o hay) = Len(pre) + Len(hay) /\ Len(pre) \in Nat
    BY <1>6, <1>7, ConcatProperties
  <2>. QED
    BY <1>6, <2>1
<1>10. Len(hay) <= Len(EncodeList(items)) /\ Len(EncodeList(items)) \in Nat
  BY <1>6, <1>7, <1>8, <1>9
<1>11. Len(hay) < 65536
  BY <1>6, <1>10 DEF MAX_HEADER_RLP_LEN
<1>. QED
  BY <1>11 DEF Encodable, hay

LEMMA NumeralOfItself ==
  ASSUME NEW bytes \in Seq(Byte), bytes # <<>> => bytes[1] # 0
  PROVE  Numeral(bytes) = bytes
<1>1. CASE bytes = <<>>
  BY <1>1 DEF Numeral, Stripped
<1>2. CASE bytes # <<>>
  <2>1. 1 \in DOMAIN bytes /\ bytes[1] # 0 /\ DOMAIN bytes = 1..Len(bytes) /\ Len(bytes) \in Nat
    BY <1>2
  <2>2. ~Stripped(bytes)
    BY <2>1 DEF Stripped
  <2>. DEFINE First(i) == bytes[i] # 0 /\ \A j \in 1..(i - 1) : bytes[j] = 0
              first == CHOOSE i \in DOMAIN bytes : First(i)
  <2>3. First(1)
    BY <2>1
  <2>4. \A i \in DOMAIN bytes : First(i) => i = 1
    <3>1. \A i \in DOMAIN bytes : i # 1 => 1 \in 1..(i - 1)
      BY <2>1
    <3>. QED
      BY <2>1, <3>1
  <2>5. first = 1
    <3>. HIDE DEF First
    <3>. QED
      BY <2>1, <2>3, <2>4
  <2>6. Numeral(bytes) = SubSeq(bytes, first, Len(bytes))
    BY <2>2, Zenon DEF Numeral
  <2>. HIDE DEF first
  <2>. QED
    BY <2>5, <2>6, SubSeqFull
<1>. QED
  BY <1>1, <1>2

(***************************************************************************)
(* The walk through an encoded list finds every item of it.                *)
(***************************************************************************)
Found(header, k, item, j) ==
  /\ FoundAt(header, k, j)
  /\ j.list = item.list /\ j.size = Len(item.bytes) /\ Payload(header, j) = item.bytes

LEMMA WalkOfWhole ==
  ASSUME NEW items, Encodable(items), NEW k \in 0..(Len(items) - 1)
  PROVE  \E j : Found(EncodeList(items), k, items[k + 1], j)
<1>. DEFINE header == EncodeList(items)
            body == Joined(items)
            n == Len(items)
            whole == [list |-> TRUE, bytes |-> body]
<1>1. header \in Seq(Byte) /\ \E i : ReadBack(header, whole, i)
  BY WholeList
<1>2. PICK outer : ReadBack(header, whole, outer)
  BY <1>1
<1>3. whole.list = TRUE /\ whole.bytes = body
  OBVIOUS
<1>4. items \in Seq(RlpItem) /\ n \in Nat /\ body \in Seq(Byte)
  BY JoinedInPlace DEF Encodable
<1>5. PICK offset : LaidOut(items, body, offset)
  BY JoinedInPlace
<1>. HIDE DEF whole, header
<1>6. /\ ReadItem(header, 1) = {outer} /\ outer.list /\ After(outer) = Len(header) + 1
      /\ Payload(header, outer) = body /\ Canonical(header, 1, outer)
  BY <1>2, <1>3 DEF ReadBack
<1>7. outer \in OuterList(header)
  BY <1>6 DEF OuterList
<1>. DEFINE off == outer.start - 1
            Stands(m) == Skip(header, Enter(header), m)
<1>8. off + 1 = outer.start /\ off \in Nat /\ Within(body, header, off)
  <2>1. outer.start \in Nat \ {0} /\ Within(Payload(header, outer), header, outer.start - 1)
    BY <1>1, <1>7, OuterPart
  <2>. QED
    BY <1>6, <2>1
<1>9. Enter(header) = {outer.start}
  BY <1>6 DEF Enter, AlloyHeader
<1>10. \A m \in Nat : Stands(0) = Enter(header) /\ Stands(m + 1) = Hop(header, Stands(m))
  BY <1>1, EnterFacts, SkipNext
<1>. HIDE DEF off, Stands, body
<1>11. ASSUME NEW m \in 0..(n - 1)
       PROVE  \E j : /\ AlloyHeader(header, off + (offset[m + 1] + 1)) = {j}
                     /\ After(j) = off + (offset[m + 2] + 1)
                     /\ j.list = items[m + 1].list /\ j.size = Len(items[m + 1].bytes)
                     /\ Payload(header, j) = items[m + 1].bytes
  <2>1. m + 1 \in 1..n /\ (m + 1) + 1 = m + 2
    BY <1>4
  <2>. DEFINE l == m + 1
              pos == offset[l] + 1
  <2>2. l \in 1..Len(items) /\ l + 1 = m + 2
    BY <2>1
  <2>. HIDE DEF l
  <2>3. PICK i : /\ ReadAt(body, offset[l] + 1, items[l], i) /\ After(i) = offset[l + 1] + 1
                 /\ offset[l] \in Nat /\ offset[l] < Len(body)
    BY <1>5, <2>2, ItemsInPlace DEF body
  <2>4. pos \in Nat \ {0} /\ i \in ReadItem(body, pos)
    BY <2>3 DEF ReadAt
  <2>5. ReadAt(body, pos, items[l], i)
    BY <2>3
  <2>. HIDE DEF pos
  <2>6. /\ ReadItem(header, off + pos) = {Moved(i, off)}
        /\ Payload(header, Moved(i, off)) = Payload(body, i)
        /\ After(Moved(i, off)) = off + After(i)
        /\ Canonical(header, off + pos, Moved(i, off)) <=> Canonical(body, pos, i)
    BY <1>8, <2>4, ItemMoved
  <2>. DEFINE j == Moved(i, off)
  <2>7. j.list = i.list /\ j.size = i.size
    BY DEF Moved
  <2>. HIDE DEF j
  <2>8. AlloyHeader(header, off + pos) = {j}
    <3>1. ReadItem(header, off + pos) = {j} /\ Canonical(header, off + pos, j)
      BY <2>5, <2>6, Zenon DEF ReadAt, j
    <3>. QED
      BY <3>1 DEF AlloyHeader
  <2>9. /\ j.list = items[l].list /\ j.size = Len(items[l].bytes)
        /\ Payload(header, j) = items[l].bytes
    BY <2>5, <2>6, <2>7, Zenon DEF ReadAt, j
  <2>10. After(j) = off + (offset[l + 1] + 1)
    BY <2>3, <2>6 DEF j
  <2>. QED
    BY <2>2, <2>8, <2>9, <2>10 DEF pos, l
<1>. DEFINE At(m) == off + (offset[m + 1] + 1)
            A == {m \in Nat : m <= n => Stands(m) = {At(m)}}
<1>12. 0 \in A
  <2>1. At(0) = off + 1
    <3>1. offset[0 + 1] = 0
      BY <1>5 DEF LaidOut
    <3>. QED
      BY <1>8, <3>1
  <2>2. 0 \in Nat /\ Stands(0) = Enter(header)
    BY <1>10
  <2>. HIDE DEF At
  <2>. QED
    BY <1>8, <1>9, <2>1, <2>2
<1>13. ASSUME NEW m \in Nat, m \in A PROVE m + 1 \in A
  <2>. SUFFICES ASSUME m + 1 <= n PROVE Stands(m + 1) = {At(m + 1)}
    OBVIOUS
  <2>1. m \in 0..(n - 1) /\ Stands(m) = {At(m)} /\ (m + 1) + 1 = m + 2
    BY <1>4, <1>13
  <2>2. PICK j : AlloyHeader(header, At(m)) = {j} /\ After(j) = At(m + 1)
    BY <1>11, <2>1
  <2>. HIDE DEF At
  <2>3. Hop(header, {At(m)}) = {At(m + 1)}
    BY <2>2 DEF Hop
  <2>. QED
    BY <1>10, <2>1, <2>3
<1>14. Nat \subseteq A
  <2>. HIDE DEF A
  <2>. QED
    BY <1>12, <1>13, Induction
<1>15. k \in 0..(n - 1) /\ k \in Nat /\ k <= n
  BY <1>4
<1>16. Stands(k) = {At(k)}
  BY <1>14, <1>15
<1>17. PICK j : /\ AlloyHeader(header, At(k)) = {j}
                /\ j.list = items[k + 1].list /\ j.size = Len(items[k + 1].bytes)
                /\ Payload(header, j) = items[k + 1].bytes
  BY <1>11, <1>15
<1>. HIDE DEF At, n
<1>18. FoundAt(header, k, j)
  BY <1>16, <1>17 DEF FoundAt, Stands
<1>. QED
  BY <1>17, <1>18 DEF Found, header

(***************************************************************************)
(* And a well-formed header is read by all of them, to what it encodes.    *)
(***************************************************************************)
THEOREM EveryGoodHeaderIsRead ==
  \A items : IsHeader(items) => ReadersComplete(items)
<1>. SUFFICES ASSUME NEW items, IsHeader(items) PROVE ReadersComplete(items)
  OBVIOUS
<1>. DEFINE header == EncodeList(items)
            g == [root |-> items[4].bytes, number |-> items[9].bytes]
<1>1. /\ items \in Seq(RlpItem) /\ Len(items) >= 9 /\ Len(items) \in Nat
      /\ Is32(items[4]) /\ Is32(items[5]) /\ Is32(items[6]) /\ IsU64(items[9])
      /\ Len(header) <= MAX_HEADER_RLP_LEN
  BY DEF IsHeader
<1>2. Encodable(items)
  BY <1>1, HeaderFits
<1>3. header \in Seq(Byte)
  BY <1>2, WholeList
<1>4. DecodeList(header) = {items}
  BY <1>2, EveryListDecodes DEF DecoderInverts
<1>5. 4 \in 1..Len(items) /\ 9 \in 1..Len(items) /\ 3 \in 0..(Len(items) - 1)
      /\ 8 \in 0..(Len(items) - 1) /\ 3 + 1 = 4 /\ 8 + 1 = 9
  BY <1>1
<1>6. items[9] \in RlpItem
  BY <1>1, <1>5, ElementOfSeq
<1>7. /\ items[9].bytes \in Seq(Byte) /\ ~items[9].list /\ Len(items[9].bytes) <= 8
      /\ items[9].bytes # <<>> => items[9].bytes[1] # 0
      /\ Len(items[4].bytes) = 32
  BY <1>1, <1>6 DEF RlpItem, IsU64, Is32
<1>8. Numeral(items[9].bytes) = items[9].bytes
  BY <1>7, NumeralOfItself
<1>9. DecodeHeader(header) = {g}
  <2>. HIDE DEF header
  <2>1. {s \in DecodeList(header) :
          /\ Len(header) <= MAX_HEADER_RLP_LEN
          /\ Len(s) >= 9
          /\ Is32(s[4]) /\ Is32(s[5]) /\ Is32(s[6])
          /\ Len(s[9].bytes) <= 8} = {items}
    BY <1>1, <1>4, <1>7
  <2>. QED
    BY <1>8, <2>1 DEF DecodeHeader
<1>. HIDE DEF header, g
<1>10. PICK r : Found(header, 3, items[4], r)
  BY <1>2, <1>5, WalkOfWhole DEF header
<1>11. PICK j : Found(header, 8, items[9], j)
  BY <1>2, <1>5, WalkOfWhole DEF header
<1>12. FoundAt(header, 3, r) /\ r.size = 32
  BY <1>7, <1>10 DEF Found
<1>13. FoundAt(header, 8, j) /\ ~j.list /\ j.size <= 8
  BY <1>7, <1>11 DEF Found
<1>14. j.size > 0 => header[j.start] # 0
  <2>. SUFFICES ASSUME j.size > 0 PROVE header[j.start] # 0
    OBVIOUS
  <2>1. PICK q \in Skip(header, Enter(header), 8) : j \in AlloyHeader(header, q)
    BY <1>13 DEF FoundAt
  <2>2. q \in Nat \ {0}
    <3>1. Enter(header) \in SUBSET (1..(Len(header) + 1)) /\ AtMostOne(Enter(header)) /\ 8 \in Nat
      BY <1>3, EnterFacts
    <3>2. Skip(header, Enter(header), 8) \in SUBSET (1..(Len(header) + 1))
      BY <1>3, <3>1, SkipWithin
    <3>. QED
      BY <2>1, <3>2
  <2>3. /\ j \in [list : BOOLEAN, start : Nat, size : Nat]
        /\ \A k \in 1..j.size : Payload(header, j)[k] = header[j.start + k - 1]
    BY <1>3, <2>1, <2>2, ReadItemFacts DEF AlloyHeader
  <2>4. 1 \in 1..j.size /\ j.start + 1 - 1 = j.start
    BY <2>3
  <2>5. Payload(header, j)[1] = header[j.start]
    BY <2>3, <2>4
  <2>6. Payload(header, j) = items[9].bytes /\ Len(items[9].bytes) > 0
    BY <1>11 DEF Found
  <2>7. items[9].bytes # <<>>
    BY <2>6
  <2>. QED
    BY <1>7, <2>5, <2>6, <2>7
<1>15. GuestFields(header) # {}
  BY <1>3, <1>12, <1>13, <1>14, GuestReads
<1>16. \A f \in GuestFields(header) : f = g
  <2>1. \A f \in GuestFields(header) : DecodeHeader(header) \in {{}, {f}}
    BY <1>3, EveryHeaderIsOneBlock DEF ReadersAgree
  <2>. QED
    BY <1>9, <2>1
<1>17. GuestFields(header) = {g}
  BY <1>15, <1>16
<1>. QED
  BY <1>9, <1>17 DEF ReadersComplete, header, g

=============================================================================
