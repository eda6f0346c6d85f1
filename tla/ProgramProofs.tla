--------------------------- MODULE ProgramProofs ----------------------------
(***************************************************************************)
(* Theorems about Programs.  The zkVM guest, for witnesses of any length   *)
(* and any width of balances: what stands behind a committed journal, and  *)
(* that it is committed for exactly the witnesses whose reserves cover the *)
(* threshold.  And its algorithms, for every set of calls.                 *)
(***************************************************************************)
EXTENDS Programs, AlgorithmProofs

(***************************************************************************)
(* What the loop keeps: the wallets already seen passed every check, and   *)
(* their addresses increase, not only from each to the next.               *)
(***************************************************************************)
SeenPassed ==
  \A i \in 1..(at - 1) :
    /\ ProofOk(Wallets[i], Root)
    /\ witness.debug \/ Owned(Wallets[i], witness.header)

SeenIncreasing ==
  \A i, j \in 1..(at - 1) : i < j => Wallets[i].address < Wallets[j].address

CommittedAtEnd ==
  outcome = "committed" => Wallets # <<>> /\ at = Len(Wallets) + 1

GuestInv == GuestTypeOK /\ SeenPassed /\ SeenIncreasing /\ CommittedAtEnd

LEMMA U256Positive == U256 \in Nat \ {0}
<1>1. \A a, b \in Nat \ {0} : a * b \in Nat \ {0}
  OBVIOUS
<1>. QED
  BY <1>1, WidthAssumption DEF U256

LEMMA PlusBounded ==
  ASSUME NEW a \in 0..(U256 - 1), NEW b \in 0..(U128 - 1)
  PROVE  Plus(a, b) \in 0..(U256 - 1)
<1>1. \A x \in Nat, u \in Nat \ {0} : x % u \in 0..(u - 1)
  OBVIOUS
<1>2. a + b \in Nat
  BY U256Positive, WidthAssumption
<1>. QED
  BY <1>1, <1>2, U256Positive DEF Plus

LEMMA GuestInitInv == GuestInit => GuestInv
<1>. SUFFICES ASSUME GuestInit PROVE GuestInv
  OBVIOUS
<1>1. IsWitness(witness)
  BY WitnessAssumption DEF GuestInit
<1>2. GuestTypeOK
  BY <1>1, U256Positive DEF GuestInit, GuestTypeOK, IsWitness, Wallets
<1>3. SeenPassed /\ SeenIncreasing /\ CommittedAtEnd
  BY DEF GuestInit, SeenPassed, SeenIncreasing, CommittedAtEnd
<1>. QED
  BY <1>2, <1>3 DEF GuestInv

(***************************************************************************)
(* A wallet that passes: above the one before, so above all before it.     *)
(***************************************************************************)
LEMMA CheckWalletInv == GuestInv /\ CheckWallet => GuestInv'
<1>. SUFFICES ASSUME GuestInv, CheckWallet PROVE GuestInv'
  OBVIOUS
<1>. USE DEF Wallets, Root
<1>1. /\ witness' = witness /\ outcome' = "summing" /\ outcome = "summing"
      /\ at' = at + 1
      /\ prev' = Wallets[at].address
      /\ total' = Plus(total, Wallets[at].account.balance)
      /\ at \in DOMAIN Wallets
      /\ WalletOk(Wallets[at])
  BY DEF CheckWallet, Seen
<1>2. /\ IsWitness(witness) /\ Len(Wallets) \in Nat /\ DOMAIN Wallets = 1..Len(Wallets)
      /\ at \in 1..Len(Wallets)
      /\ \A i \in 1..Len(Wallets) : IsWallet(Wallets[i])
      /\ total \in 0..(U256 - 1)
      /\ prev = IF at = 1 THEN 0 ELSE Wallets[at - 1].address
  BY <1>1 DEF GuestInv, GuestTypeOK, IsWitness
<1>3. \A i \in 1..Len(Wallets) :
        Wallets[i].address \in Nat /\ Wallets[i].account.balance \in 0..(U128 - 1)
  BY <1>2 DEF IsWallet
<1>4. at' \in 1..(Len(Wallets) + 1) /\ at' # 1 /\ at' - 1 = at
  <2>. HIDE DEF Wallets
  <2>. QED
    BY <1>1, <1>2
<1>5. GuestTypeOK'
  <2>1. total' \in 0..(U256 - 1)
    BY <1>1, <1>2, <1>3, PlusBounded
  <2>. QED
    BY <1>1, <1>2, <1>4, <2>1 DEF GuestTypeOK
<1>6. SeenPassed'
  <2>1. /\ ProofOk(Wallets[at], Root)
        /\ witness.debug \/ Owned(Wallets[at], witness.header)
    BY <1>1 DEF WalletOk
  <2>2. \A i \in 1..(at' - 1) : i = at \/ i \in 1..(at - 1)
    BY <1>1, <1>2
  <2>. QED
    BY <1>1, <2>1, <2>2 DEF GuestInv, SeenPassed
<1>7. SeenIncreasing'
  <2>. SUFFICES ASSUME NEW i \in 1..at, NEW j \in 1..at, i < j
                PROVE  Wallets[i].address < Wallets[j].address
    BY <1>1, <1>4 DEF SeenIncreasing
  <2>1. CASE j < at
    BY <2>1, <1>2 DEF GuestInv, SeenIncreasing
  <2>2. CASE j = at
    <3>1. at # 1 /\ Wallets[at - 1].address < Wallets[at].address
      BY <1>1, <1>2, <2>2 DEF WalletOk, InOrder
    <3>2. i = at - 1 \/ Wallets[i].address < Wallets[at - 1].address
      BY <1>2, <2>2, <3>1 DEF GuestInv, SeenIncreasing
    <3>3. /\ Wallets[i].address \in Nat /\ Wallets[at].address \in Nat
          /\ Wallets[at - 1].address \in Nat
      <4>1. i \in 1..Len(Wallets) /\ at - 1 \in 1..Len(Wallets)
        BY <1>2, <3>1
      <4>. QED
        BY <1>2, <1>3, <4>1
    <3>. HIDE DEF Wallets
    <3>. QED
      BY <2>2, <3>1, <3>2, <3>3
  <2>. QED
    BY <1>2, <2>1, <2>2
<1>8. CommittedAtEnd'
  BY <1>1 DEF CommittedAtEnd
<1>. QED
  BY <1>5, <1>6, <1>7, <1>8 DEF GuestInv

(***************************************************************************)
(* The other steps only decide the outcome.                                *)
(***************************************************************************)
LEMMA OutcomeInv ==
  ASSUME GuestInv, UNCHANGED <<witness, at, prev, total>>,
         outcome' \in {"summing", "committed", "refused"},
         outcome' = "committed" => Wallets # <<>> /\ at = Len(Wallets) + 1
  PROVE  GuestInv'
<1>1. GuestTypeOK'
  BY DEF GuestInv, GuestTypeOK, Wallets
<1>2. SeenPassed' /\ SeenIncreasing'
  BY DEF GuestInv, SeenPassed, SeenIncreasing, Wallets, Root
<1>3. CommittedAtEnd'
  BY DEF CommittedAtEnd, Wallets
<1>. QED
  BY <1>1, <1>2, <1>3 DEF GuestInv

LEMMA GuestStep == GuestInv /\ [GuestNext]_guestVars => GuestInv'
<1>. SUFFICES ASSUME GuestInv, [GuestNext]_guestVars PROVE GuestInv'
  OBVIOUS
<1>1. CASE NoWallets \/ RefuseWallet \/ RefuseSum
  BY <1>1, OutcomeInv DEF NoWallets, RefuseWallet, RefuseSum, Panic
<1>2. CASE CheckWallet
  BY <1>2, CheckWalletInv
<1>3. CASE Commit
  BY <1>3, OutcomeInv DEF Commit
<1>4. CASE UNCHANGED guestVars
  <2>1. outcome' = outcome /\ UNCHANGED <<witness, at, prev, total>>
    BY <1>4 DEF guestVars
  <2>. QED
    BY <2>1, OutcomeInv DEF GuestInv, GuestTypeOK, CommittedAtEnd
<1>. QED
  BY <1>1, <1>2, <1>3, <1>4 DEF GuestNext

LEMMA GuestInvariant == GuestSpec => []GuestInv
BY GuestInitInv, GuestStep, PTL DEF GuestSpec

(***************************************************************************)
(* The guest's state stays in shape, for every witness.                    *)
(***************************************************************************)
THEOREM GuestTypes == GuestSpec => []GuestTypeOK
BY GuestInvariant, PTL DEF GuestInv

(***************************************************************************)
(* For a list of any length: the wallets behind a journal are distinct,    *)
(* although each is compared with one neighbour only, all on the state of  *)
(* the hashed header, and owned by whoever signed that header.             *)
(***************************************************************************)
THEOREM GuestCommitsOwned == GuestSpec => []CommittedIsOwned
<1>1. GuestInv => CommittedIsOwned
  <2>. SUFFICES ASSUME GuestInv, outcome = "committed"
                PROVE  CommittedIsOwned
    BY DEF CommittedIsOwned
  <2>. USE DEF Wallets, Root
  <2>1. /\ Wallets # <<>> /\ at - 1 = Len(Wallets) /\ Len(Wallets) \in Nat
        /\ DOMAIN Wallets = 1..(at - 1)
        /\ \A i \in DOMAIN Wallets : Wallets[i].address \in Nat
    BY DEF GuestInv, CommittedAtEnd, GuestTypeOK, IsWitness, IsWallet
  <2>2. ASSUME NEW i \in DOMAIN Wallets, NEW j \in DOMAIN Wallets,
               Wallets[i].address = Wallets[j].address
        PROVE  i = j
    <3>1. ~(i < j) /\ ~(j < i)
      BY <2>1, <2>2 DEF GuestInv, SeenIncreasing
    <3>. QED
      BY <2>1, <3>1
  <2>3. ASSUME NEW i \in DOMAIN Wallets
        PROVE  /\ Wallets[i].address \in DOMAIN Root.keccak
               /\ Root.keccak[Wallets[i].address] = Wallets[i].account
               /\ \/ witness.debug
                  \/ /\ Wallets[i].sig.signer = Wallets[i].address
                     /\ Wallets[i].sig.digest = BlockDigest(witness.header)
    <3>1. ProofOk(Wallets[i], Root) /\ (witness.debug \/ Owned(Wallets[i], witness.header))
      BY <2>1 DEF GuestInv, SeenPassed
    <3>. QED
      BY <3>1 DEF ProofOk, Owned, RecoversTo
  <2>. QED
    BY <2>1, <2>2, <2>3 DEF CommittedIsOwned
<1>. QED
  BY <1>1, GuestInvariant, PTL

-----------------------------------------------------------------------------
(***************************************************************************)
(* The sum.  It is that of the accounts seen, each of them once, and it    *)
(* has not wrapped: a u32 counts the wallets, and each is below U128.      *)
(***************************************************************************)
SeenAddresses == {Wallets[i].address : i \in 1..(at - 1)}

SumInv ==
  /\ IsFiniteSet(SeenAddresses)
  /\ \A a \in SeenAddresses : Root.keccak[a].balance \in Nat
  /\ total = SumOf(Root, SeenAddresses)
  /\ total <= (at - 1) * (U128 - 1)

DecidedInv ==
  /\ outcome = "committed" => total >= witness.threshold
  /\ outcome = "refused" => ~GuestAccepts(witness)

LEMMA NoWrap ==
  ASSUME NEW n \in 0..U128, NEW sum \in Nat, sum <= n * (U128 - 1)
  PROVE  sum < U256
<1>1. U128 \in Nat /\ U128 > 0 /\ U128 - 1 \in Nat
  BY WidthAssumption
<1>2. \A a, b, c \in Nat : a <= b => a * c <= b * c
  OBVIOUS
<1>3. \A u \in Nat : u > 0 => u * (u - 1) < u * u /\ u * (u - 1) \in Nat /\ u * u \in Nat
  OBVIOUS
<1>4. n * (U128 - 1) <= U128 * (U128 - 1) /\ n * (U128 - 1) \in Nat
  BY <1>1, <1>2
<1>. QED
  BY <1>1, <1>3, <1>4 DEF U256

(***************************************************************************)
(* A wallet that passes adds its own balance to the sum of those before.   *)
(***************************************************************************)
LEMMA CheckWalletSum == GuestInv /\ GuestInv' /\ SumInv /\ CheckWallet => SumInv'
<1>. SUFFICES ASSUME GuestInv, GuestInv', SumInv, CheckWallet PROVE SumInv'
  OBVIOUS
<1>. DEFINE a == Wallets[at].address
            b == Wallets[at].account.balance
            n == at - 1
<1>1. /\ UNCHANGED <<Wallets, Root>> /\ at' = at + 1
      /\ total' = Plus(total, b)
      /\ at \in DOMAIN Wallets /\ ProofOk(Wallets[at], Root)
  BY DEF CheckWallet, WalletOk, Wallets, Root
<1>2. /\ Len(Wallets) \in 0..U128 /\ at \in 1..Len(Wallets) /\ n \in Nat /\ n + 1 \in 0..U128
      /\ total \in Nat /\ a \in Nat /\ b \in 0..(U128 - 1) /\ U128 \in Nat
  <2>1. /\ Len(Wallets) \in 0..U128 /\ DOMAIN Wallets = 1..Len(Wallets)
        /\ IsWallet(Wallets[at]) /\ total \in 0..(U256 - 1)
    BY <1>1 DEF GuestInv, GuestTypeOK, IsWitness, Wallets
  <2>2. U128 \in Nat /\ U256 \in Nat
    BY WidthAssumption, U256Positive
  <2>3. a \in Nat /\ b \in 0..(U128 - 1)
    BY <2>1 DEF IsWallet
  <2>. HIDE DEF a, b
  <2>. QED
    BY <1>1, <2>1, <2>2, <2>3
<1>3. Root.keccak[a].balance = b
  BY <1>1 DEF ProofOk
<1>4. SeenAddresses' = SeenAddresses \cup {a}
  <2>1. 1..(at' - 1) = (1..(at - 1)) \cup {at}
    BY <1>1, <1>2
  <2>. QED
    BY <1>1, <2>1 DEF SeenAddresses
<1>5. a \notin SeenAddresses
  <2>. SUFFICES ASSUME NEW i \in 1..(at - 1), Wallets[i].address = a PROVE FALSE
    BY DEF SeenAddresses
  <2>0. at' = at + 1 /\ at \in Nat \ {0}
    BY <1>1, <1>2
  <2>1. i \in 1..(at' - 1) /\ at \in 1..(at' - 1) /\ i < at
    BY ONLY <2>0, i \in 1..(at - 1)
  <2>2. Wallets[i].address < Wallets[at].address
    BY <1>1, <2>1 DEF GuestInv, SeenIncreasing
  <2>. QED
    BY <1>2, <2>2
<1>. HIDE DEF a, b
<1>6. /\ IsFiniteSet(SeenAddresses')
      /\ \A x \in SeenAddresses' : Root.keccak[x].balance \in Nat
  BY <1>2, <1>3, <1>4, FS_AddElement DEF SumInv
<1>7. SumOf(Root, SeenAddresses') = total + b
  <2>1. /\ IsFiniteSet(SeenAddresses) /\ total = SumOf(Root, SeenAddresses)
        /\ \A x \in SeenAddresses \cup {a} : Root.keccak[x].balance \in Nat
    BY <1>4, <1>6 DEF SumInv
  <2>2. SumOf(Root, SeenAddresses \cup {a}) = Root.keccak[a].balance + SumOf(Root, SeenAddresses)
    BY <1>5, <2>1, SumOfAdd
  <2>. QED
    BY <1>2, <1>3, <1>4, <2>1, <2>2
<1>8. total + b \in Nat /\ total + b <= (n + 1) * (U128 - 1)
  <2>1. total <= n * (U128 - 1)
    BY DEF SumInv
  <2>2. \A k, m \in Nat : (k + 1) * m = k * m + m /\ k * m \in Nat
    OBVIOUS
  <2>3. (n + 1) * (U128 - 1) = n * (U128 - 1) + (U128 - 1) /\ n * (U128 - 1) \in Nat
    BY <1>2, <2>2
  <2>. HIDE DEF n
  <2>. QED
    BY <1>2, <2>1, <2>3
<1>9. total' = total + b
  <2>1. total + b < U256
    BY <1>2, <1>8, NoWrap
  <2>2. \A x \in Nat, u \in Nat : x < u => x % u = x
    OBVIOUS
  <2>. QED
    BY <1>1, <1>8, <2>1, <2>2, U256Positive DEF Plus
<1>10. at' - 1 = n + 1
  BY <1>1, <1>2
<1>. HIDE DEF n
<1>11. total' <= (at' - 1) * (U128 - 1)
  BY <1>8, <1>9, <1>10
<1>. QED
  BY <1>1, <1>6, <1>7, <1>9, <1>11 DEF SumInv

(***************************************************************************)
(* At the end of the list the sum is that of the witness.                  *)
(***************************************************************************)
LEMMA AtEnd ==
  ASSUME GuestInv, SumInv, at = Len(Wallets) + 1, Wallets # <<>>
  PROVE  GuestAccepts(witness) <=> total >= witness.threshold
<1>1. /\ Len(Wallets) \in Nat /\ DOMAIN Wallets = 1..Len(Wallets) /\ at - 1 = Len(Wallets)
      /\ \A i \in DOMAIN Wallets : Wallets[i].address \in Nat
  BY DEF GuestInv, GuestTypeOK, IsWitness, IsWallet, Wallets
<1>2. SeenAddresses = Listed(witness)
  BY <1>1 DEF SeenAddresses, Listed, Wallets
<1>3. Reserves(witness) = total
  BY <1>2 DEF SumInv, SumOf, Reserves, Root
<1>4. ASSUME NEW i \in DOMAIN Wallets
      PROVE  /\ i > 1 => Wallets[i].address > Wallets[i - 1].address
             /\ ProofOk(Wallets[i], Root)
             /\ witness.debug \/ Owned(Wallets[i], witness.header)
  <2>1. i \in 1..(at - 1)
    BY <1>1
  <2>2. i > 1 => i - 1 \in 1..(at - 1) /\ i - 1 < i /\ i - 1 \in DOMAIN Wallets
    BY <1>1
  <2>3. i > 1 => Wallets[i - 1].address < Wallets[i].address
    BY <2>1, <2>2 DEF GuestInv, SeenIncreasing
  <2>. QED
    BY <1>1, <2>1, <2>2, <2>3 DEF GuestInv, SeenPassed
<1>5. Sound(witness)
  BY <1>4 DEF Sound, Wallets, Root
<1>. QED
  BY <1>3, <1>5 DEF GuestAccepts

LEMMA RefusedUnsound ==
  ASSUME GuestInv, NoWallets \/ RefuseWallet PROVE ~Sound(witness)
<1>1. CASE NoWallets
  BY <1>1 DEF NoWallets, Sound, Wallets
<1>2. CASE RefuseWallet
  <2>1. at \in DOMAIN Wallets /\ ~WalletOk(Wallets[at])
    BY <1>2 DEF RefuseWallet
  <2>2. at \in Nat /\ at >= 1 /\ prev = IF at = 1 THEN 0 ELSE Wallets[at - 1].address
    BY DEF GuestInv, GuestTypeOK, IsWitness, Wallets
  <2>3. CASE ~InOrder(Wallets[at])
    <3>1. at > 1 /\ ~(Wallets[at].address > Wallets[at - 1].address)
      BY <2>2, <2>3 DEF InOrder
    <3>. QED
      BY <2>1, <3>1 DEF Sound, Wallets
  <2>4. CASE InOrder(Wallets[at])
    BY <2>1, <2>4 DEF WalletOk, Sound, Wallets, Root
  <2>. QED
    BY <2>3, <2>4
<1>. QED
  BY <1>1, <1>2

CoverInv == GuestInv /\ SumInv /\ DecidedInv

LEMMA CoverInit == GuestInit => CoverInv
<1>. SUFFICES ASSUME GuestInit PROVE SumInv /\ DecidedInv
  BY GuestInitInv DEF CoverInv
<1>1. at = 1 /\ total = 0 /\ outcome = "summing"
  BY DEF GuestInit
<1>2. SeenAddresses = {}
  BY <1>1 DEF SeenAddresses
<1>3. 0 <= (at - 1) * (U128 - 1)
  <2>1. \A m \in Int : 0 * m = 0
    OBVIOUS
  <2>. QED
    BY <1>1, <2>1, WidthAssumption
<1>. QED
  BY <1>1, <1>2, <1>3, SumOfEmpty, FS_EmptySet DEF SumInv, DecidedInv

LEMMA CoverStep == CoverInv /\ [GuestNext]_guestVars => CoverInv'
<1>. SUFFICES ASSUME CoverInv, [GuestNext]_guestVars PROVE CoverInv'
  OBVIOUS
<1>1. GuestInv /\ GuestInv'
  BY GuestStep DEF CoverInv
<1>2. ASSUME UNCHANGED <<witness, at, prev, total>> PROVE SumInv'
  BY <1>2 DEF CoverInv, SumInv, SeenAddresses, Wallets, Root
<1>3. CASE NoWallets \/ RefuseWallet
  <2>1. ~GuestAccepts(witness)
    BY <1>1, <1>3, RefusedUnsound DEF GuestAccepts
  <2>2. outcome' = "refused" /\ UNCHANGED <<witness, at, prev, total>>
    BY <1>3 DEF NoWallets, RefuseWallet, Panic
  <2>. QED
    BY <1>1, <1>2, <2>1, <2>2 DEF CoverInv, DecidedInv
<1>4. CASE CheckWallet
  <2>1. outcome' = "summing"
    BY <1>4 DEF CheckWallet
  <2>. QED
    BY <1>1, <1>4, <2>1, CheckWalletSum DEF CoverInv, DecidedInv
<1>5. CASE Commit
  <2>1. outcome' = "committed" /\ UNCHANGED <<witness, at, prev, total>>
        /\ total >= witness.threshold
    BY <1>5 DEF Commit
  <2>. QED
    BY <1>1, <1>2, <2>1 DEF CoverInv, DecidedInv
<1>6. CASE RefuseSum
  <2>1. /\ outcome' = "refused" /\ UNCHANGED <<witness, at, prev, total>>
        /\ total < witness.threshold /\ at = Len(Wallets) + 1 /\ Wallets # <<>>
    BY <1>6 DEF RefuseSum, Panic
  <2>2. ~(total >= witness.threshold)
    BY <1>1, <2>1, U256Positive, WidthAssumption DEF GuestInv, GuestTypeOK, IsWitness
  <2>3. ~GuestAccepts(witness)
    BY <1>1, <2>1, <2>2, AtEnd DEF CoverInv
  <2>. QED
    BY <1>1, <1>2, <2>1, <2>3 DEF CoverInv, DecidedInv
<1>7. CASE UNCHANGED guestVars
  <2>1. outcome' = outcome /\ UNCHANGED <<witness, at, prev, total>>
    BY <1>7 DEF guestVars
  <2>. QED
    BY <1>1, <1>2, <2>1 DEF CoverInv, DecidedInv
<1>. QED
  BY <1>3, <1>4, <1>5, <1>6, <1>7 DEF GuestNext

LEMMA CoverCovers == CoverInv => ReservesCover
<1>. SUFFICES ASSUME CoverInv, outcome = "committed" PROVE GuestAccepts(witness)
  BY DEF CoverInv, DecidedInv, ReservesCover
<1>1. at = Len(Wallets) + 1 /\ Wallets # <<>> /\ total >= witness.threshold
  BY DEF CoverInv, DecidedInv, GuestInv, CommittedAtEnd
<1>. QED
  BY <1>1, AtEnd DEF CoverInv

(***************************************************************************)
(* The proof of reserves itself: for any list of wallets, the guest        *)
(* commits exactly if the accounts at the distinct addresses listed, each  *)
(* counted once and on the state of the hashed header, hold the threshold; *)
(* the sum of a u256 does not wrap (the loop of the guest's main).         *)
(***************************************************************************)
THEOREM ReservesAreCovered == GuestSpec => []ReservesCover
BY CoverCovers, CoverInit, CoverStep, PTL DEF GuestSpec

-----------------------------------------------------------------------------
(***************************************************************************)
(* The seven controls of the self-test, evaluated.                         *)
(***************************************************************************)
LEMMA SingleFacts ==
  ASSUME NEW sig
  PROVE  /\ ProofOk(Single(sig), SingleRoot)
         /\ Single(sig).address = OwnKey /\ Single(sig).sig = sig
         /\ SingleRoot.keccak[OwnKey].balance = 5
BY DEF ProofOk, Single, Acct, SingleRoot, SingleLeafTrie, Keccak, Eoa

LEMMA SingleSum == SumOf(SingleRoot, {OwnKey}) = 5
<1>1. /\ OwnKey \notin {} /\ {} \cup {OwnKey} = {OwnKey} /\ IsFiniteSet({})
      /\ \A a \in {} \cup {OwnKey} : SingleRoot.keccak[a].balance \in Nat
  BY SingleFacts, FS_EmptySet
<1>2. SumOf(SingleRoot, {} \cup {OwnKey}) = SingleRoot.keccak[OwnKey].balance + SumOf(SingleRoot, {})
  BY <1>1, SumOfAdd
<1>. QED
  BY <1>1, <1>2, SingleFacts, SumOfEmpty

LEMMA PairFacts ==
  /\ Len(Pair) = 2 /\ DOMAIN Pair = 1..2 /\ Pair # <<>>
  /\ Pair[1] = Acct(SecondKey, 4, PairRoot, SignEip191(PairHeader, SecondKey))
  /\ Pair[2] = Acct(OwnKey, 3, PairRoot, SignEip191(PairHeader, OwnKey))
  /\ PairRoot.keccak[SecondKey] = Eoa(4) /\ PairRoot.keccak[OwnKey] = Eoa(3)
  /\ DOMAIN PairRoot.keccak = {OwnKey, SecondKey}
<1>1. /\ PairRoot.keccak[SecondKey] = Eoa(4) /\ PairRoot.keccak[OwnKey] = Eoa(3)
      /\ DOMAIN PairRoot.keccak = {OwnKey, SecondKey}
  BY DEF PairRoot, TwoLeafTrie, Keccak, OwnKey, SecondKey
<1>. QED
  BY <1>1 DEF Pair

LEMMA PairSum == SumOf(PairRoot, {OwnKey, SecondKey}) = 7
<1>1. /\ PairRoot.keccak[OwnKey].balance = 3 /\ PairRoot.keccak[SecondKey].balance = 4
  <2>1. Eoa(3).balance = 3 /\ Eoa(4).balance = 4
    BY DEF Eoa
  <2>. QED
    BY <2>1, PairFacts
<1>2. /\ OwnKey \notin {} /\ {} \cup {OwnKey} = {OwnKey} /\ IsFiniteSet({})
      /\ \A a \in {} \cup {OwnKey} : PairRoot.keccak[a].balance \in Nat
  BY <1>1, FS_EmptySet
<1>3. SumOf(PairRoot, {OwnKey}) = 3 + SumOf(PairRoot, {})
  <2>1. SumOf(PairRoot, {} \cup {OwnKey}) = PairRoot.keccak[OwnKey].balance + SumOf(PairRoot, {})
    BY <1>2, SumOfAdd
  <2>. QED
    BY <1>1, <1>2, <2>1
<1>4. /\ SecondKey \notin {OwnKey} /\ {OwnKey} \cup {SecondKey} = {OwnKey, SecondKey}
      /\ IsFiniteSet({OwnKey})
      /\ \A a \in {OwnKey} \cup {SecondKey} : PairRoot.keccak[a].balance \in Nat
  <2>1. SecondKey \notin {OwnKey}
    BY DEF OwnKey, SecondKey
  <2>2. IsFiniteSet({OwnKey})
    BY FS_Singleton
  <2>. QED
    BY <1>1, <2>1, <2>2
<1>5. SumOf(PairRoot, {OwnKey, SecondKey}) = 4 + SumOf(PairRoot, {OwnKey})
  <2>1. SumOf(PairRoot, {OwnKey} \cup {SecondKey})
          = PairRoot.keccak[SecondKey].balance + SumOf(PairRoot, {OwnKey})
    BY <1>4, SumOfAdd
  <2>. QED
    BY <1>1, <1>4, <2>1
<1>. QED
  BY <1>3, <1>5, SumOfEmpty

LEMMA MadeAndOwned ==
  ASSUME NEW header \in {SingleHeader, PairHeader}, NEW key \in {OwnKey, SecondKey, OtherKey},
         NEW w, w.sig = SignEip191(header, key)
  PROVE  Owned(w, header) <=> w.address = key
<1>1. header \in [number : {20345678}, root : {SingleLeafTrie(OwnKey, 5),
                                             TwoLeafTrie(OwnKey, 3, SecondKey, 4)}]
  BY DEF SingleHeader, PairHeader, HeaderRlp, SingleRoot, PairRoot
<1>2. w.sig # BadSignature
  BY <1>1, SignatureAssumption
<1>3. w.sig.signer = key /\ w.sig.digest = BlockDigest(header)
  BY DEF SignEip191, BlockDigest
<1>. QED
  BY <1>2, <1>3 DEF Owned, RecoversTo

LEMMA EnvFacts ==
  ASSUME NEW header, NEW accts, NEW threshold
  PROVE  /\ MakeEnv(header, accts, threshold).header = header
         /\ MakeEnv(header, accts, threshold).wallets = accts
         /\ MakeEnv(header, accts, threshold).threshold = threshold
         /\ ~MakeEnv(header, accts, threshold).debug
BY DEF MakeEnv

LEMMA SingleAccepts ==
  ASSUME NEW sig, NEW threshold \in Nat
  PROVE  GuestAccepts(MakeEnv(SingleHeader, <<Single(sig)>>, threshold))
           <=> Owned(Single(sig), SingleHeader) /\ 5 >= threshold
<1>. DEFINE w == MakeEnv(SingleHeader, <<Single(sig)>>, threshold)
<1>1. /\ w.header = SingleHeader /\ w.wallets = <<Single(sig)>> /\ w.threshold = threshold
      /\ w.debug = FALSE
  BY DEF MakeEnv
<1>2. SingleHeader.root = SingleRoot
  BY DEF SingleHeader, HeaderRlp
<1>. HIDE DEF w
<1>3. /\ DOMAIN w.wallets = {1} /\ w.wallets[1] = Single(sig) /\ w.wallets # <<>>
  BY <1>1
<1>4. Listed(w) = {OwnKey}
  BY <1>3, SingleFacts DEF Listed
<1>5. Reserves(w) = 5
  <2>1. Reserves(w) = SumOf(SingleRoot, {OwnKey})
    BY <1>1, <1>2, <1>4 DEF Reserves, SumOf
  <2>. QED
    BY <2>1, SingleSum
<1>6. Sound(w) <=> Owned(Single(sig), SingleHeader)
  BY <1>1, <1>2, <1>3, SingleFacts DEF Sound
<1>. QED
  BY <1>1, <1>5, <1>6 DEF GuestAccepts, w

LEMMA PairAccepts ==
  ASSUME NEW threshold \in Nat
  PROVE  GuestAccepts(MakeEnv(PairHeader, Pair, threshold)) <=> 7 >= threshold
<1>. DEFINE w == MakeEnv(PairHeader, Pair, threshold)
<1>1. /\ w.header = PairHeader /\ w.wallets = Pair /\ w.threshold = threshold
      /\ w.debug = FALSE
  BY DEF MakeEnv
<1>2. PairHeader.root = PairRoot
  BY DEF PairHeader, HeaderRlp
<1>. HIDE DEF w
<1>3. /\ Pair[1].address = SecondKey /\ Pair[1].account = Eoa(4) /\ Pair[1].proof = PairRoot
      /\ Pair[1].sig = SignEip191(PairHeader, SecondKey)
      /\ Pair[2].address = OwnKey /\ Pair[2].account = Eoa(3) /\ Pair[2].proof = PairRoot
      /\ Pair[2].sig = SignEip191(PairHeader, OwnKey)
  BY PairFacts DEF Acct
<1>4. Listed(w) = {OwnKey, SecondKey}
  <2>1. DOMAIN w.wallets = {1, 2}
    BY <1>1, PairFacts
  <2>. QED
    BY <1>1, <1>3, <2>1 DEF Listed
<1>5. Reserves(w) = 7
  <2>1. Reserves(w) = SumOf(PairRoot, {OwnKey, SecondKey})
    BY <1>1, <1>2, <1>4 DEF Reserves, SumOf
  <2>. QED
    BY <2>1, PairSum
<1>6. Sound(w)
  <2>1. ProofOk(Pair[1], PairRoot) /\ ProofOk(Pair[2], PairRoot)
    BY <1>3, PairFacts DEF ProofOk
  <2>2. Owned(Pair[1], PairHeader) /\ Owned(Pair[2], PairHeader)
    BY <1>3, MadeAndOwned
  <2>3. Pair[2].address > Pair[1].address
    BY <1>3 DEF OwnKey, SecondKey
  <2>4. \A i \in DOMAIN Pair : i = 1 \/ (i = 2 /\ i - 1 = 1)
    BY PairFacts
  <2>. QED
    BY <1>1, <1>2, <2>1, <2>2, <2>3, <2>4, PairFacts DEF Sound
<1>. QED
  BY <1>1, <1>5, <1>6 DEF GuestAccepts, w

(***************************************************************************)
(* The same wallet twice, as the last control lists it.                    *)
(***************************************************************************)
LEMMA TwiceRefused ==
  ASSUME NEW header, NEW wallet, wallet.address \in Nat, NEW threshold
  PROVE  ~GuestAccepts(MakeEnv(header, <<wallet, wallet>>, threshold))
<1>. DEFINE w == MakeEnv(header, <<wallet, wallet>>, threshold)
<1>1. w.wallets = <<wallet, wallet>>
  BY EnvFacts
<1>. HIDE DEF w
<1>2. /\ 2 \in DOMAIN w.wallets /\ 2 > 1
      /\ w.wallets[2].address = wallet.address /\ w.wallets[2 - 1].address = wallet.address
  BY <1>1
<1>3. ~(wallet.address > wallet.address)
  OBVIOUS
<1>4. ~Sound(w)
  BY <1>2, <1>3 DEF Sound
<1>. QED
  BY <1>4 DEF GuestAccepts, w

LEMMA ControlsEvaluate == \A c \in Controls : GuestAccepts(c.run) <=> c.passes
<1>1. Owned(Single(GoodSig), SingleHeader)
  BY SingleFacts, MadeAndOwned DEF GoodSig
<1>2. ~Owned(Single(BadSignature), SingleHeader)
  BY SingleFacts DEF Owned, RecoversTo
<1>3. ~Owned(Single(SignEip191(SingleHeader, OtherKey)), SingleHeader)
  <2>1. OwnKey # OtherKey
    BY DEF OwnKey, OtherKey
  <2>. QED
    BY <2>1, SingleFacts, MadeAndOwned
<1>4. /\ GuestAccepts(MakeEnv(SingleHeader, <<Single(GoodSig)>>, 1))
      /\ ~GuestAccepts(MakeEnv(SingleHeader, <<Single(GoodSig)>>, 6))
      /\ ~GuestAccepts(MakeEnv(SingleHeader, <<Single(BadSignature)>>, 1))
      /\ ~GuestAccepts(MakeEnv(SingleHeader, <<Single(SignEip191(SingleHeader, OtherKey))>>, 1))
  BY <1>1, <1>2, <1>3, SingleAccepts
<1>5. /\ GuestAccepts(MakeEnv(PairHeader, Pair, 5))
      /\ ~GuestAccepts(MakeEnv(PairHeader, Pair, 8))
  BY PairAccepts
<1>6. ~GuestAccepts(MakeEnv(SingleHeader, <<Single(GoodSig), Single(GoodSig)>>, 1))
  <2>1. Single(GoodSig).address \in Nat
    BY SingleFacts DEF OwnKey
  <2>. QED
    BY <2>1, TwiceRefused
<1>7. \A run, passes : Control(run, passes).run = run /\ Control(run, passes).passes = passes
  BY DEF Control
<1>. SUFFICES ASSUME NEW c \in Controls PROVE GuestAccepts(c.run) <=> c.passes
  OBVIOUS
<1>8. \/ \E run : c = Control(run, TRUE) /\ GuestAccepts(run)
      \/ \E run : c = Control(run, FALSE) /\ ~GuestAccepts(run)
  BY <1>4, <1>5, <1>6, Zenon DEF Controls
<1>9. CASE \E run : c = Control(run, TRUE) /\ GuestAccepts(run)
  <2>1. PICK run : c = Control(run, TRUE) /\ GuestAccepts(run)
    BY <1>9
  <2>2. c.run = run /\ c.passes = TRUE
    BY <1>7, <2>1
  <2>. QED
    BY <2>1, <2>2
<1>10. CASE \E run : c = Control(run, FALSE) /\ ~GuestAccepts(run)
  <2>1. PICK run : c = Control(run, FALSE) /\ ~GuestAccepts(run)
    BY <1>10
  <2>2. c.run = run /\ c.passes = FALSE
    BY <1>7, <2>1
  <2>. QED
    BY <2>1, <2>2
<1>. QED
  BY <1>8, <1>9, <1>10

-----------------------------------------------------------------------------
(***************************************************************************)
(* All of Programs: the guest's invariant holds there too, for what stands *)
(* in for the guest is one refused run; and an input is never changed.     *)
(***************************************************************************)
InputInv == input.kind = "guest" \/ input \in Calls

LEMMA GuestOffInv == GuestOff => CoverInv
<1>. SUFFICES ASSUME GuestOff PROVE CoverInv
  OBVIOUS
<1>1. /\ witness \in Witnesses /\ Wallets = <<>>
      /\ at = 1 /\ prev = 0 /\ total = 0 /\ outcome = "refused"
  BY NoRunAssumption DEF GuestOff, NoRun, Wallets
<1>2. IsWitness(witness)
  BY <1>1, WitnessAssumption
<1>3. GuestInv
  BY <1>1, <1>2, U256Positive
     DEF GuestInv, GuestTypeOK, SeenPassed, SeenIncreasing, CommittedAtEnd, IsWitness, Wallets
<1>4. SumInv
  <2>1. SeenAddresses = {}
    BY <1>1 DEF SeenAddresses
  <2>2. 0 <= (at - 1) * (U128 - 1)
    <3>1. \A m \in Int : 0 * m = 0
      OBVIOUS
    <3>. QED
      BY <1>1, <3>1, WidthAssumption
  <2>. QED
    BY <1>1, <2>1, <2>2, SumOfEmpty, FS_EmptySet DEF SumInv
<1>5. DecidedInv
  BY <1>1 DEF DecidedInv, GuestAccepts, Sound, Wallets
<1>. QED
  BY <1>3, <1>4, <1>5 DEF CoverInv

LEMMA ProgramsInvariant == Spec => [](CoverInv /\ InputInv)
<1>1. Init => CoverInv /\ InputInv
  BY CoverInit, GuestOffInv DEF Init, InputInv
<1>2. CoverInv /\ InputInv /\ [Next]_<<input, guestVars>> => (CoverInv /\ InputInv)'
  <2>. SUFFICES ASSUME CoverInv, InputInv, [Next]_<<input, guestVars>>
                PROVE  CoverInv' /\ InputInv'
    OBVIOUS
  <2>1. [GuestNext]_guestVars /\ UNCHANGED input
    BY DEF Next, GuestNext, Answered
  <2>. QED
    BY <2>1, CoverStep DEF InputInv
<1>. QED
  BY <1>1, <1>2, PTL DEF Spec

(***************************************************************************)
(* Every control of the self-test ends as the test asserts, whatever other *)
(* witnesses the guest is run on.                                          *)
(***************************************************************************)
THEOREM SelfTestEndsAsAsserted == Spec => []SelfTestPasses
<1>1. CoverInv => SelfTestPasses
  <2>. SUFFICES ASSUME CoverInv, NEW c \in Controls, witness = c.run, outcome # "summing"
                PROVE  outcome = "committed" <=> c.passes
    BY DEF SelfTestPasses
  <2>1. ReservesCover
    BY CoverCovers
  <2>2. outcome \in {"committed", "refused"}
    BY DEF CoverInv, GuestInv, GuestTypeOK
  <2>3. GuestAccepts(witness) <=> c.passes
    BY ControlsEvaluate
  <2>. QED
    BY <2>1, <2>2, <2>3 DEF ReservesCover
<1>. QED
  BY <1>1, ProgramsInvariant, PTL

(***************************************************************************)
(* Any challenge the service can ask for is sound: its blocks, its window  *)
(* and its chain.                                                          *)
(***************************************************************************)
THEOREM ChallengesAreSound == Spec => []EveryChallengeSound
<1>1. InputInv => EveryChallengeSound
  <2>. SUFFICES ASSUME InputInv PROVE EveryChallengeSound
    OBVIOUS
  <2>1. CASE input.kind \notin {"blocks", "window", "chain"}
    BY <2>1 DEF EveryChallengeSound
  <2>2. CASE input.kind \in {"blocks", "window", "chain"}
    <3>1. input \in Calls
      BY <2>2 DEF InputInv
    <3>2. input \in BlockCall \/ input \in WindowCall \/ input \in ChainCall
      BY <2>2, <3>1, CallAssumption
         DEF HeaderCall, ListCall, GoodCall, JournalCall, SigningCall
    <3>3. CASE input \in BlockCall
      BY <3>3, OnePerThird DEF BlockCall, EveryChallengeSound
    <3>4. CASE input \in WindowCall
      BY <3>4, WindowIsSound DEF WindowCall, EveryChallengeSound
    <3>5. CASE input \in ChainCall
      BY <3>5, EverySelectorResolves DEF ChainCall, EveryChallengeSound
    <3>. QED
      BY <3>2, <3>3, <3>4, <3>5
  <2>. QED
    BY <2>1, <2>2
<1>. QED
  BY <1>1, ProgramsInvariant, PTL

(***************************************************************************)
(* Any journal round-trips, its two fields are where the helper measured   *)
(* them on any run that they stand out in, and the bytes signed for a      *)
(* challenge determine it.                                                 *)
(***************************************************************************)
THEOREM LayoutsHold == Spec => []EveryLayoutHolds
<1>1. InputInv => EveryLayoutHolds
  <2>. SUFFICES ASSUME InputInv PROVE EveryLayoutHolds
    OBVIOUS
  <2>1. CASE input.kind \notin {"journal", "signing"}
    BY <2>1 DEF EveryLayoutHolds
  <2>2. CASE input.kind \in {"journal", "signing"}
    <3>1. input \in Calls
      BY <2>2 DEF InputInv
    <3>2. (input \in JournalCall /\ StandsOut(input.own)) \/ input \in SigningCall
      BY <2>2, <3>1, CallAssumption
         DEF BlockCall, WindowCall, ChainCall, HeaderCall, ListCall, GoodCall
    <3>3. CASE input \in JournalCall /\ StandsOut(input.own)
      <4>1. input.kind = "journal" /\ input.own \in JournalBytes /\ input.of \in JournalBytes
        BY <3>3 DEF JournalCall
      <4>. QED
        BY <3>3, <4>1, JournalsRoundTrip, OffsetsAreStable DEF EveryLayoutHolds
    <3>4. CASE input \in SigningCall
      <4>1. input.kind = "signing" /\ input.one \in ChallengeBytes /\ input.other \in ChallengeBytes
        BY <3>4 DEF SigningCall
      <4>. QED
        BY <4>1, SigningsBind DEF EveryLayoutHolds
    <3>. QED
      BY <3>2, <3>3, <3>4
  <2>. QED
    BY <2>1, <2>2
<1>. QED
  BY <1>1, ProgramsInvariant, PTL

(***************************************************************************)
(* The readers of a header, on every input: the witness builder's decoder  *)
(* inverts the encoding (por_witness.rs), no header is read as two blocks  *)
(* (guest, verify.rs, por_witness.rs), and each well-formed one is read as *)
(* what it encodes.                                                        *)
(***************************************************************************)
THEOREM HeadersAgree == Spec => []EveryHeaderAgrees
<1>1. InputInv => EveryHeaderAgrees
  <2>. SUFFICES ASSUME InputInv PROVE EveryHeaderAgrees
    OBVIOUS
  <2>1. CASE input.kind \notin {"list", "header", "good"}
    BY <2>1 DEF EveryHeaderAgrees
  <2>2. CASE input.kind \in {"list", "header", "good"}
    <3>1. input \in Calls
      BY <2>2 DEF InputInv
    <3>2. \/ input \in ListCall /\ Encodable(input.items)
          \/ input \in HeaderCall
          \/ input \in GoodCall /\ IsHeader(input.items)
      BY <2>2, <3>1, CallAssumption
         DEF BlockCall, WindowCall, ChainCall, JournalCall, SigningCall
    <3>3. CASE input \in ListCall /\ Encodable(input.items)
      <4>1. input.kind = "list" /\ DecoderInverts(input.items)
        BY <3>3, EveryListDecodes DEF ListCall
      <4>. QED
        BY <4>1 DEF EveryHeaderAgrees
    <3>4. CASE input \in HeaderCall
      <4>1. input.kind = "header" /\ ReadersAgree(input.header)
        BY <3>4, EveryHeaderIsOneBlock DEF HeaderCall
      <4>. QED
        BY <4>1 DEF EveryHeaderAgrees
    <3>5. CASE input \in GoodCall /\ IsHeader(input.items)
      <4>1. input.kind = "good" /\ ReadersComplete(input.items)
        BY <3>5, EveryGoodHeaderIsRead DEF GoodCall
      <4>. QED
        BY <4>1 DEF EveryHeaderAgrees
    <3>. QED
      BY <3>2, <3>3, <3>4, <3>5
  <2>. QED
    BY <2>1, <2>2
<1>. QED
  BY <1>1, ProgramsInvariant, PTL

=============================================================================
