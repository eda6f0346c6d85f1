------------------------------ MODULE Witness -------------------------------
(***************************************************************************)
(* The private input of a guest run, which the host writes and the guest   *)
(* (por-risc0/methods/guest/src/main.rs) reads, and what makes it one the  *)
(* guest can accept.                                                       *)
(*                                                                         *)
(* A state root is the Keccak of the accounts it commits to, and a Merkle  *)
(* proof is named by the root it was taken at: it verifies exactly the     *)
(* account that stands at the address under that root.  An account is its  *)
(* balance and the rest (nonce, storage and code hash).  U128 is the bound *)
(* of a u128, and U256 that of the sum.                                    *)
(***************************************************************************)
EXTENDS Submission, Sequences, FiniteSets, FiniteSetsExt

CONSTANT U128         \* balances and thresholds are below U128

ASSUME WidthAssumption == U128 \in Nat \ {0}

U256 == U128 * U128

(***************************************************************************)
(* What the host can write: widths, and as many wallets as it says, in a   *)
(* number that is a u32 itself.                                            *)
(***************************************************************************)
IsWallet(w) ==
  /\ w.address \in Nat
  /\ w.account.balance \in 0..(U128 - 1)

IsWitness(w) ==
  /\ Len(w.wallets) \in 0..U128
  /\ DOMAIN w.wallets = 1..Len(w.wallets)
  /\ \A i \in DOMAIN w.wallets : IsWallet(w.wallets[i])
  /\ w.threshold \in 0..(U128 - 1)

(***************************************************************************)
(* verify_proof of the account rebuilt from the private fields.            *)
(***************************************************************************)
ProofOk(w, root) ==
  /\ w.proof = root
  /\ w.address \in DOMAIN root.keccak
  /\ root.keccak[w.address] = w.account

(***************************************************************************)
(* What each owner signs: the hash of the header, so a signature is good   *)
(* for one block only.                                                     *)
(***************************************************************************)
BlockDigest(header) == Keccak([personalSign |-> Keccak(header)])

Owned(w, header) == RecoversTo(w.sig, BlockDigest(header), w.address)

(***************************************************************************)
(* The public values of a run.  The labels are echoed, the block number    *)
(* comes from the header that is hashed, and the secret stays private.     *)
(***************************************************************************)
JournalOf(w) ==
  [blockHash |-> Keccak(w.header), blockNumber |-> w.header.number,
   threshold |-> w.threshold, chainId |-> w.chainId, debug |-> w.debug,
   nonce |-> w.nonce, agentId |-> w.agentId,
   agentTokenId |-> w.agentTokenId, identity |-> Keccak(w.secret)]

(***************************************************************************)
(* The reserves behind a witness, counted on the state itself and not on   *)
(* the wallets listed; and a witness that proves something at all.         *)
(***************************************************************************)
Listed(w) == {w.wallets[i].address : i \in DOMAIN w.wallets}

Reserves(w) ==
  MapThenSumSet(LAMBDA a : w.header.root.keccak[a].balance, Listed(w))

Sound(w) ==
  /\ \A i \in DOMAIN w.wallets :
       /\ i > 1 => w.wallets[i].address > w.wallets[i - 1].address
       /\ ProofOk(w.wallets[i], w.header.root)
       /\ w.debug \/ Owned(w.wallets[i], w.header)
  /\ w.wallets # <<>>

GuestAccepts(w) == Sound(w) /\ Reserves(w) >= w.threshold

=============================================================================
