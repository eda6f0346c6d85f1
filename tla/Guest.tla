------------------------------- MODULE Guest --------------------------------
(***************************************************************************)
(* The zkVM guest (por-risc0/methods/guest/src/main.rs): one run reads a   *)
(* private witness, checks it wallet by wallet and either commits a        *)
(* journal or panics, and a panic proves nothing.                          *)
(***************************************************************************)
EXTENDS Witness

CONSTANT Witnesses    \* the inputs a prover may run the guest on

ASSUME WitnessAssumption == \A w \in Witnesses : IsWitness(w)

VARIABLES
  witness,      \* what the host wrote for the guest to read
  at,           \* the wallet to check next
  prev,         \* the address of the one before
  total,        \* the U256 sum so far
  outcome       \* "summing", "committed", "refused" (a panic)

guestVars == <<witness, at, prev, total, outcome>>

Wallets == witness.wallets
Root == witness.header.root

\* Seeded fault: only the very same wallet twice in a row is refused.
InOrderDistinct(w) == at = 1 \/ w.address # prev

\* Seeded fault: not below the one before, where it must be above it.
InOrderLax(w) == at = 1 \/ w.address >= prev

InOrder(w) == at = 1 \/ w.address > prev

WalletOk(w) ==
  /\ InOrder(w)
  /\ ProofOk(w, Root)
  /\ witness.debug \/ Owned(w, witness.header)

-----------------------------------------------------------------------------
GuestInit ==
  /\ witness \in Witnesses
  /\ at = 1
  /\ prev = 0
  /\ total = 0
  /\ outcome = "summing"

Panic == outcome' = "refused" /\ UNCHANGED <<witness, at, prev, total>>

\* Before the loop: at least one wallet.
NoWallets ==
  /\ outcome = "summing"
  /\ Wallets = <<>>
  /\ Panic

\* Seeded fault: the sum is kept in a u128 and wraps.
PlusNarrow(a, b) == (a + b) % U128

Plus(a, b) == (a + b) % U256

\* Seeded fault: the order is checked against the first wallet only.
SeenFirst(w) == IF at = 1 THEN w.address ELSE prev

Seen(w) == w.address

CheckWallet ==
  /\ outcome = "summing"
  /\ at \in DOMAIN Wallets
  /\ WalletOk(Wallets[at])
  /\ at' = at + 1
  /\ prev' = Seen(Wallets[at])
  /\ total' = Plus(total, Wallets[at].account.balance)
  /\ UNCHANGED <<witness, outcome>>

RefuseWallet ==
  /\ outcome = "summing"
  /\ at \in DOMAIN Wallets
  /\ ~WalletOk(Wallets[at])
  /\ Panic

Commit ==
  /\ outcome = "summing"
  /\ Wallets # <<>>
  /\ at = Len(Wallets) + 1
  /\ total >= witness.threshold
  /\ outcome' = "committed"
  /\ UNCHANGED <<witness, at, prev, total>>

RefuseSum ==
  /\ outcome = "summing"
  /\ Wallets # <<>>
  /\ at = Len(Wallets) + 1
  /\ total < witness.threshold
  /\ Panic

GuestNext == NoWallets \/ CheckWallet \/ RefuseWallet \/ Commit \/ RefuseSum

GuestSpec == GuestInit /\ [][GuestNext]_guestVars

-----------------------------------------------------------------------------
(***************************************************************************)
(* The shape of the guest's state: the order is checked against the wallet *)
(* just before.                                                            *)
(***************************************************************************)
GuestTypeOK ==
  /\ IsWitness(witness)
  /\ at \in 1..(Len(Wallets) + 1)
  /\ prev = IF at = 1 THEN 0 ELSE Wallets[at - 1].address
  /\ total \in 0..(U256 - 1)
  /\ outcome \in {"summing", "committed", "refused"}

(***************************************************************************)
(* "The same wallet cannot be listed twice to double-count its balance":   *)
(* behind a journal are wallets with distinct addresses, each an account   *)
(* of the one state that the hashed header commits to, and each, unless    *)
(* the journal says debug, owned by whoever signed this very header.       *)
(***************************************************************************)
CommittedIsOwned ==
  outcome = "committed" =>
    /\ Wallets # <<>>
    /\ \A i, j \in DOMAIN Wallets :
         Wallets[i].address = Wallets[j].address => i = j
    /\ \A i \in DOMAIN Wallets :
         /\ Wallets[i].address \in DOMAIN Root.keccak
         /\ Root.keccak[Wallets[i].address] = Wallets[i].account
         /\ \/ witness.debug
            \/ /\ Wallets[i].sig.signer = Wallets[i].address
               /\ Wallets[i].sig.digest = BlockDigest(witness.header)

(***************************************************************************)
(* A journal is committed exactly for the witnesses that hold the          *)
(* threshold: the accounts listed, each counted once, on the state of the  *)
(* header, and with no wrap-around.                                        *)
(***************************************************************************)
ReservesCover ==
  /\ outcome = "committed" => GuestAccepts(witness)
  /\ outcome = "refused"   => ~GuestAccepts(witness)

=============================================================================
