----------------------------- MODULE Submission -----------------------------
(***************************************************************************)
(* The check the verifier runs on a submitted response: verify_submission  *)
(* of host/src/bin/verifier.rs with the functions of host/src/verify.rs    *)
(* and por-types it calls.  A pure predicate of the snapshot taken when    *)
(* the challenge was claimed and of the response.                          *)
(*                                                                         *)
(* Hashes and signatures are ideal: Keccak is an injective constructor,    *)
(* and a signature recovers to its signer only over the digest it was made *)
(* for.  A receipt either verifies against the guest's image id            *)
(* (genuine) or does not; then its journal is whatever a guest run         *)
(* committed.                                                              *)
(***************************************************************************)
EXTENDS BlockSelection

CONSTANTS
  NoOwner,         \* the registry gave no parseable owner address
  NoPresentation,  \* the bundle carries no tlsnPresentation
  BadSignature     \* owner_sig is not 65 bytes of hex, or recovers nothing

Keccak(x) == [keccak |-> x]

Snapshot(challenge, owner) == [challenge |-> challenge, owner |-> owner]

Policy(allowDebug, challenge) ==
  [allowDebug        |-> allowDebug,
   requiredThreshold |-> challenge.threshold,
   expectedChainId   |-> challenge.chainId]

\* Seeded fault: the proof may be about any chain.
CheckPolicyAnyChain(journal, policy) ==
  /\ journal.debug => policy.allowDebug
  /\ journal.threshold >= policy.requiredThreshold

CheckPolicy(journal, policy) ==
  /\ journal.debug => policy.allowDebug
  /\ journal.threshold >= policy.requiredThreshold
  /\ journal.chainId = policy.expectedChainId

\* Seeded fault: a proof made for another challenge of the agent is as good.
BindsAgentOnly(journal, challenge) ==
  journal.agentId = Keccak(challenge.agent)

(***************************************************************************)
(* The journal answers this challenge and not another one.                 *)
(***************************************************************************)
BindsChallenge(journal, challenge) ==
  /\ journal.nonce = challenge.nonce
  /\ journal.agentId = Keccak(challenge.agent)

(***************************************************************************)
(* verify_presentation, bind_block_hash and the number check: a host that  *)
(* vouches for the chain served a header that hashes to the block the      *)
(* proof is about and carries the number the journal claims.               *)
(***************************************************************************)
HeaderBlockNumber(header) == header.number

Attested(presentation, journal, hosts) ==
  /\ presentation.authentic
  /\ presentation.server \in hosts
  /\ Keccak(presentation.header) = journal.blockHash
  /\ HeaderBlockNumber(presentation.header) = journal.blockNumber

BundleOk(bundle, challenge, policy, hosts, allowNoPresentation) ==
  /\ bundle.genuine
  /\ CheckPolicy(bundle.journal, policy)
  /\ BindsChallenge(bundle.journal, challenge)
  /\ IF bundle.presentation = NoPresentation
     THEN allowNoPresentation
     ELSE Attested(bundle.presentation, bundle.journal, hosts)

(***************************************************************************)
(* The two sorted vectors are equal iff one rearranges the other.          *)
(***************************************************************************)
SameBlocks(proved, challenged) ==
  \E p \in [1..BLOCK_COUNT -> 1..BLOCK_COUNT] :
     /\ \A i, j \in 1..BLOCK_COUNT : p[i] = p[j] => i = j
     /\ \A i \in 1..BLOCK_COUNT : proved[i] = challenged[p[i]]

(***************************************************************************)
(* challenge_digest hashes canonical_bytes: the challenge id, head block   *)
(* and the two times are not in it.                                        *)
(***************************************************************************)
ChallengeDigest(challenge) ==
  Keccak([nonce     |-> challenge.nonce,
          agentId   |-> Keccak(challenge.agent),
          threshold |-> challenge.threshold,
          chainId   |-> challenge.chainId,
          blocks    |-> challenge.blocks])

RecoversTo(signature, digest, address) ==
  /\ signature # BadSignature
  /\ signature.digest = digest
  /\ signature.signer = address

OwnerOk(snap, response, allowUnverifiedOwner) ==
  IF snap.owner = NoOwner
  THEN allowUnverifiedOwner
  ELSE RecoversTo(response.ownerSig, ChallengeDigest(snap.challenge), snap.owner)

VerifySubmission(snap, response, policy, hosts, noOwnerOk, noPresentationOk) ==
  /\ DOMAIN response.bundles = 1..BLOCK_COUNT
  /\ \A i \in 1..BLOCK_COUNT :
       BundleOk(response.bundles[i], snap.challenge, policy, hosts,
                noPresentationOk)
  /\ SameBlocks([i \in 1..BLOCK_COUNT |-> response.bundles[i].journal.blockNumber],
                snap.challenge.blocks)
  /\ OwnerOk(snap, response, noOwnerOk)

=============================================================================
