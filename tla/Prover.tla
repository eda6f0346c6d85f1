------------------------------- MODULE Prover -------------------------------
(***************************************************************************)
(* The prover's command line (por-risc0/host/src/main.rs): from a          *)
(* challenge to a response, in its four modes:                             *)
(*   connected  asks a verifier, proves, submits;                          *)
(*   file       proves the challenge of a file;                            *)
(*   legacy     proves one finalized block of its own choice;              *)
(*   browser    --prepare, then --finalize with what a wallet signed.      *)
(* One process, one run: `run` is its command line and environment.        *)
(*                                                                         *)
(* Around it: the header server and the archive, which may answer from     *)
(* different states, the notary, the marketplace gateway with its set-once *)
(* commitment, and the verifier (Submission).                              *)
(***************************************************************************)
EXTENDS Witness, SequencesExt

CONSTANTS
  Runs,             \* command lines and environments
  Challenges,       \* what a verifier issues or a file holds
  StateAt,          \* StateAt[n]: the accounts at block n
  OtherState,       \* the accounts an archive out of step answers from
  Token,            \* Token[agent]: parse_token_id of an agent id
  RegistryOwner,    \* the agent's owner in the registry
  Commitments,      \* what others may bind the token to
  NoKey, NoSecret, NoCommitment, Unread, None

Modes == {"connected", "file", "legacy", "browser"}

ASSUME RunAssumption ==
  \A r \in Runs : /\ r.mode \in Modes /\ {r.debug, r.notary} \subseteq BOOLEAN
                  /\ r.listed \in Seq(Nat)

\* The service's struct Challenge: `blocks: [u64; BLOCK_COUNT]`.
ASSUME ChallengeAssumption ==
  \A ch \in Challenges :
     /\ DOMAIN ch = {"nonce", "agent", "threshold", "chainId", "blocks"}
     /\ ch.threshold \in 0..(U128 - 1)
     /\ ch.blocks \in Seq(DOMAIN StateAt) /\ Len(ch.blocks) = BLOCK_COUNT

\* hu128 panics on a balance wider than a u128; a block with one is not fetched.
States == {StateAt[n] : n \in DOMAIN StateAt} \cup {OtherState}

ASSUME StateAssumption ==
  \A accounts \in States :
     \A a \in DOMAIN accounts : accounts[a].balance \in 0..(U128 - 1)

VARIABLES
  run, stage,
  challenge,
  token, secret,    \* the marketplace identity of the run
  read,             \* what the preflight read at the gateway
  commitment,       \* what the gateway holds for the token
  fetched,          \* the blocks fetched: header and accounts
  sigs,             \* sigs.json of a browser run
  presentation,
  bundles, response

file == <<run, challenge, sigs>>
identity == <<token, secret, read>>
output == <<presentation, bundles, response>>
proverVars == <<file, stage, identity, commitment, fetched, output>>

Ended == {"done", "poor", "mismatch", "refused", "not issued", "not verified", "leaked",
          "panicked"}
Idle == Ended \cup {"prepared"}

-----------------------------------------------------------------------------
(***************************************************************************)
(* build_wallet_set and the head of run_prepare: the list sorted and       *)
(* distinct.  Of keys and of --address a duplicate is refused, of demo     *)
(* addresses it is dropped; an empty list is refused.                      *)
(***************************************************************************)
Ascending(S) ==
  CHOOSE s \in [1..Cardinality(S) -> S] : \A i, j \in DOMAIN s : i < j => s[i] < s[j]

ListOk(r) == r.listed # <<>> /\ (r.debug \/ IsInjective(r.listed))

\* Seeded fault: the wallets stay in the order of the list.
WalletSetUnsorted(r) == r.listed

WalletSet(r) == Ascending(ToSet(r.listed))

FirstKey == IF run.debug THEN NoKey ELSE WalletSet(run)[1]

FirstListed == IF run.debug THEN NoKey ELSE run.listed[1]

Sign(key, digest) == [signer |-> key, digest |-> digest]

(***************************************************************************)
(* A wallet's signature has a recovery byte of 27 or 28; recover wants it  *)
(* below 4.                                                                *)
(***************************************************************************)
NormSig(w) == IF w.v >= 27 THEN [w EXCEPT !.v = w.v - 27] ELSE w

Recovered(w) == IF w.v < 4 THEN w.sig ELSE BadSignature

(***************************************************************************)
(* The marketplace identity: a secret is the hash of r and s of the        *)
(* owner's signature, whatever v is, and the gateway keeps its hash.       *)
(***************************************************************************)
ZeroSecret == [zeros |-> 32]

IdentityDigest(t) == Keccak([identityOf |-> t])

SecretFrom(sig) == [signature |-> sig]

OwnerIdentityKey == IF run.ownerKey # NoKey THEN run.ownerKey ELSE FirstKey

TokenId ==
  IF run.mode # "legacy" /\ run.debug THEN 0
  ELSE IF run.tokenId # 0 THEN run.tokenId
  ELSE IF run.mode = "legacy" THEN 0
  ELSE Token[challenge.agent]

SecretCli ==
  IF run.secret # NoSecret THEN run.secret
  ELSE IF OwnerIdentityKey # NoKey THEN SecretFrom(Sign(OwnerIdentityKey, IdentityDigest(TokenId)))
  ELSE ZeroSecret

\* Seeded fault: the secret is the hash of all 65 bytes of the signature.
SecretFromSigWhole ==
  IF run.secret # NoSecret THEN run.secret
  ELSE IF sigs.identity # None THEN SecretFrom(sigs.identity)
  ELSE ZeroSecret

SecretFromSig ==
  IF run.secret # NoSecret THEN run.secret
  ELSE IF sigs.identity # None THEN SecretFrom(sigs.identity.sig)
  ELSE ZeroSecret

AgentSecret ==
  IF run.mode = "browser" THEN SecretFromSig
  ELSE IF run.mode \in {"connected", "file"} /\ run.debug THEN ZeroSecret
  ELSE SecretCli

Commits(s) == Keccak(s)

ASSUME KeyAssumption ==
  /\ NoKey \notin Nat /\ RegistryOwner # NoOwner
  /\ \A ch \in Challenges : BadSignature # Sign(RegistryOwner, ChallengeDigest(ch))

-----------------------------------------------------------------------------
ProverInit ==
  /\ run \in Runs
  /\ stage = "start"
  /\ challenge = None /\ sigs = None
  /\ token = 0 /\ secret = ZeroSecret /\ read = Unread
  /\ commitment = NoCommitment
  /\ fetched = <<>>
  /\ presentation = None /\ bundles = <<>> /\ response = None

Goto(s) == stage' = s
Stop(s) == Goto(s) /\ UNCHANGED <<file, identity, commitment, fetched, output>>

BuildWalletSet ==
  /\ stage = "start"
  /\ ListOk(run)
  /\ Stop(IF run.mode = "legacy" THEN "pick" ELSE "ask")

BadWalletSet == stage = "start" /\ ~ListOk(run) /\ Stop("panicked")

(***************************************************************************)
(* A challenge of the verifier or of a file; no proof without one, or on a *)
(* chain that chain_spec does not know.  Legacy: a placeholder around a    *)
(* finalized block.                                                        *)
(***************************************************************************)
GetChallenge ==
  /\ stage = "ask"
  /\ \E ch \in Challenges :
       /\ challenge' = ch
       /\ Goto(IF ~IsSupported(ch.chainId) THEN "panicked"
               ELSE IF run.mode = "browser" THEN "prepare"
               ELSE "identify")
  /\ UNCHANGED <<run, sigs, identity, commitment, fetched, output>>

NotIssued == stage = "ask" /\ run.mode = "connected" /\ Stop("not issued")

PickBlock ==
  /\ stage = "pick"
  /\ \E n \in DOMAIN StateAt, ch \in Challenges :
       /\ IsSupported(ch.chainId)
       /\ challenge' = [ch EXCEPT !.nonce = "zeros", !.agent = "por-demo-agent", !.blocks = <<n>>]
  /\ token' = TokenId
  /\ secret' = AgentSecret
  /\ Goto("fetch")
  /\ UNCHANGED <<run, sigs, read, commitment, fetched, output>>

(***************************************************************************)
(* Whose identity the proofs will present, and the preflight: abort on a   *)
(* commitment that is known and another one; an unreadable gateway does    *)
(* not block.                                                              *)
(***************************************************************************)
NoBinding(t, s) == run.skip \/ t = 0 \/ s = ZeroSecret

Mismatch(found, s) == found \notin {NoCommitment, Commits(s)}

Identify(found, next) ==
  /\ token' = TokenId
  /\ secret' = AgentSecret
  /\ read' = found
  /\ Goto(next)
  /\ UNCHANGED <<file, commitment, fetched, output>>

AfterIdentity == IF run.mode = "browser" THEN "check" ELSE "fetch"

IdentifyUnread == stage = "identify" /\ Identify(Unread, AfterIdentity)

\* Seeded fault: a commitment that is another one is not looked at.
IdentifyReadAny ==
  /\ stage = "identify"
  /\ ~NoBinding(TokenId, AgentSecret)
  /\ Identify(commitment, AfterIdentity)

IdentifyRead ==
  /\ stage = "identify"
  /\ ~NoBinding(TokenId, AgentSecret)
  /\ ~Mismatch(commitment, AgentSecret)
  /\ Identify(commitment, AfterIdentity)

IdentityMismatch ==
  /\ stage = "identify"
  /\ ~NoBinding(TokenId, AgentSecret)
  /\ Mismatch(commitment, AgentSecret)
  /\ Identify(commitment, "mismatch")

\* The environment: someone records a first proof for the token.
BindCommitment ==
  /\ commitment = NoCommitment
  /\ stage \notin Ended
  /\ commitment' \in Commitments
  /\ UNCHANGED <<file, stage, identity, fetched, output>>

-----------------------------------------------------------------------------
(***************************************************************************)
(* fetch_block: the header, and a proof of each account, which an archive  *)
(* takes at a state of its own.  An account that does not exist has a      *)
(* proof of its absence.                                                   *)
(***************************************************************************)
HeaderAt(n) == [number |-> n, root |-> Keccak(StateAt[n])]

ASSUME OwnershipAssumption ==
  \A r \in Runs, n \in DOMAIN StateAt : \A a \in ToSet(r.listed) :
     BadSignature # Sign(a, BlockDigest(HeaderAt(n)))

Absent == [balance |-> 0, rest |-> "none"]

Served(accounts, a) ==
  [address |-> a, proof |-> Keccak(accounts),
   account |-> IF a \in DOMAIN accounts THEN accounts[a] ELSE Absent]

FetchBlock(n, accounts) ==
  LET addrs == WalletSet(run)
  IN [header |-> HeaderAt(n), wallets |-> [i \in DOMAIN addrs |-> Served(accounts, addrs[i])]]

Saturated(x) == IF x >= U128 THEN U128 - 1 ELSE x

TotalBalance(block) ==
  FoldLeft(LAMBDA acc, w : Saturated(acc + w.account.balance), 0, block.wallets)

CanProve(block) == run.debug \/ TotalBalance(block) >= challenge.threshold

Fetch ==
  /\ stage \in {"prepare", "fetch"}
  /\ \E accounts \in {StateAt[challenge.blocks[Len(fetched) + 1]], OtherState} :
       LET block == FetchBlock(challenge.blocks[Len(fetched) + 1], accounts)
       IN /\ fetched' = Append(fetched, block)
          /\ Goto(IF ~CanProve(block) THEN "poor"
                  ELSE IF stage = "fetch" THEN "attest"
                  ELSE IF Len(fetched) + 1 < Len(challenge.blocks) THEN "prepare"
                  ELSE "prepared")
  /\ UNCHANGED <<file, identity, commitment, output>>

\* Six attempts, then it gives up.
FetchFails == stage \in {"prepare", "fetch"} /\ Stop("panicked")

-----------------------------------------------------------------------------
Current == fetched[Len(bundles) + 1]

(***************************************************************************)
(* The ownership signatures of the current block: by the keys, from the    *)
(* wallet, or none in a demo.                                              *)
(***************************************************************************)
BlockSig(i) ==
  IF run.debug THEN BadSignature
  ELSE IF run.mode = "browser" THEN Recovered(NormSig(sigs.blocks[Len(bundles) + 1][i]))
  ELSE Sign(Current.wallets[i].address, BlockDigest(Current.header))

SigsOk ==
  /\ Len(sigs.blocks) = Len(fetched)
  /\ Len(sigs.blocks[Len(bundles) + 1]) = Len(Current.wallets)
  /\ \A i \in DOMAIN Current.wallets :
       RecoversTo(BlockSig(i), BlockDigest(Current.header), Current.wallets[i].address)

CheckSigs == stage = "check" /\ SigsOk /\ Stop("attest")
BadSigs == stage = "check" /\ ~SigsOk /\ Stop("panicked")

(***************************************************************************)
(* maybe_attest: with a notary, what the chain's host serves for the block *)
(* proved.                                                                 *)
(***************************************************************************)
\* Seeded fault: every proof of a response carries the first block's header.
PresentedFirst(n) ==
  [authentic |-> TRUE, server |-> CHOOSE h \in ExpectedHost(challenge.chainId) : TRUE,
   header |-> HeaderAt(challenge.blocks[1])]

Presented(n) ==
  [authentic |-> TRUE, server |-> CHOOSE h \in ExpectedHost(challenge.chainId) : TRUE,
   header |-> HeaderAt(n)]

ASSUME PresentationAssumption ==
  NoPresentation \notin [authentic : {TRUE}, server : {c.host : c \in CHAINS},
                        header : {HeaderAt(n) : n \in DOMAIN StateAt}]

AttestWith(p) ==
  /\ stage = "attest"
  /\ presentation' = p
  /\ Goto("prove")
  /\ UNCHANGED <<file, identity, commitment, fetched, bundles, response>>

NoNotary == ~run.notary /\ AttestWith(NoPresentation)
AttestBlock == run.notary /\ AttestWith(Presented(Current.header.number))
AttestFails == run.notary /\ stage = "attest" /\ Stop("panicked")

(***************************************************************************)
(* prove_block: write the witness, run the guest.                          *)
(***************************************************************************)
WitnessOf(block) ==
  [header |-> block.header,
   wallets |-> [i \in DOMAIN block.wallets |->
                  LET w == block.wallets[i]
                  IN [address |-> w.address, proof |-> w.proof, account |-> w.account,
                      sig |-> BlockSig(i)]],
   threshold |-> challenge.threshold, chainId |-> challenge.chainId, debug |-> run.debug,
   nonce |-> challenge.nonce, agentId |-> Keccak(challenge.agent),
   agentTokenId |-> token, secret |-> secret]

Bundle(w) == [genuine |-> TRUE, journal |-> JournalOf(w), presentation |-> presentation]

\* Seeded fault: the loop ends one block early.
AfterBlockEarly(n) ==
  IF n + 1 = Len(challenge.blocks) THEN "answer"
  ELSE IF run.mode = "browser" THEN "check"
  ELSE "fetch"

AfterBlock(n) ==
  IF n = Len(challenge.blocks) THEN "answer"
  ELSE IF run.mode = "browser" THEN "check"
  ELSE "fetch"

(***************************************************************************)
(* After the proof: no address and no nonzero balance may be found in the  *)
(* journal, whose threshold has the sixteen bytes of a balance.            *)
(***************************************************************************)
Shows(w) == \E i \in DOMAIN w.wallets :
  w.wallets[i].account.balance # 0 /\ w.wallets[i].account.balance = w.threshold

ProveBlock ==
  /\ stage = "prove"
  /\ GuestAccepts(WitnessOf(Current))
  /\ ~Shows(WitnessOf(Current))
  /\ bundles' = Append(bundles, Bundle(WitnessOf(Current)))
  /\ Goto(AfterBlock(Len(bundles) + 1))
  /\ UNCHANGED <<file, identity, commitment, fetched, presentation, response>>

GuestRefuses ==
  stage = "prove" /\ ~GuestAccepts(WitnessOf(Current)) /\ Stop("refused")

JournalShows ==
  /\ stage = "prove"
  /\ GuestAccepts(WitnessOf(Current))
  /\ Shows(WitnessOf(Current))
  /\ Stop("leaked")

-----------------------------------------------------------------------------
(***************************************************************************)
(* owner_sign: POR_OWNER_KEY, else the first key as listed.                *)
(***************************************************************************)
OwnerSign ==
  IF run.mode = "browser" THEN Recovered(NormSig(sigs.owner))
  ELSE IF run.ownerKey # NoKey THEN Sign(run.ownerKey, ChallengeDigest(challenge))
  ELSE IF FirstListed # NoKey THEN Sign(FirstListed, ChallengeDigest(challenge))
  ELSE BadSignature

WriteResponse ==
  /\ stage = "answer"
  /\ response' = IF run.mode = "legacy" THEN None
                 ELSE [bundles |-> bundles, ownerSig |-> OwnerSign]
  /\ Goto(IF run.mode = "connected" THEN "submit" ELSE "done")
  /\ UNCHANGED <<file, identity, commitment, fetched, presentation, bundles>>

Accepted(r) ==
  VerifySubmission(Snapshot(challenge, RegistryOwner), r, Policy(FALSE, challenge),
                   ExpectedHost(challenge.chainId), FALSE, FALSE)

SubmitVerified == stage = "submit" /\ Accepted(response) /\ Stop("done")

\* Rejected, or in time no longer, or not reached at all.
SubmitFails == stage = "submit" /\ (Stop("not verified") \/ Stop("panicked"))

ProverSteps ==
  \/ BuildWalletSet \/ BadWalletSet
  \/ GetChallenge \/ NotIssued \/ PickBlock
  \/ IdentifyUnread \/ IdentifyRead \/ IdentityMismatch \/ BindCommitment
  \/ Fetch \/ FetchFails
  \/ CheckSigs \/ BadSigs
  \/ NoNotary \/ AttestBlock \/ AttestFails
  \/ ProveBlock \/ GuestRefuses \/ JournalShows
  \/ WriteResponse \/ SubmitVerified \/ SubmitFails

-----------------------------------------------------------------------------
(***************************************************************************)
(* The shape of a run: proofs follow the fetched blocks, and a response    *)
(* has one for each block challenged.                                      *)
(***************************************************************************)
ProverTypeOK ==
  /\ run \in Runs
  /\ stage \in Idle \cup {"start", "ask", "pick", "identify", "fetch", "prepare",
                          "check", "attest", "prove", "answer", "submit"}
  /\ Len(bundles) <= Len(fetched)
  /\ stage \in {"check", "attest", "prove"} => Len(bundles) < Len(fetched)
  /\ fetched # <<>> => Len(fetched) <= Len(challenge.blocks)
  /\ response # None => Len(response.bundles) = Len(challenge.blocks)

(***************************************************************************)
(* "Refuse impossible proofs cleanly, before the (slow) attestation and    *)
(* proving": what the preflight lets through, the guest refuses only when  *)
(* the archive's accounts are not those of the header, or one does not     *)
(* exist, or in a demo, which has no preflight; never for its order, its   *)
(* signatures or its sum.                                                  *)
(***************************************************************************)
RefusedForCause ==
  stage = "refused" =>
    \/ run.debug
    \/ \E i \in DOMAIN Current.wallets :
         \/ Current.wallets[i].proof # Current.header.root
         \/ Current.wallets[i].account = Absent

(***************************************************************************)
(* And it turns away no run that could be proved: the accounts served,     *)
(* each counted once, are below the threshold.                             *)
(***************************************************************************)
PoorIsPoor ==
  stage = "poor" =>
    LET ws == Last(fetched).wallets
    IN /\ MapThenSumSet(LAMBDA i : ws[i].account.balance, DOMAIN ws) < challenge.threshold
       /\ IsInjective([i \in DOMAIN ws |-> ws[i].address])

(***************************************************************************)
(* Both: the preflight stands for the guest's own check, and minutes of    *)
(* proving are neither wasted nor refused for nothing.                     *)
(***************************************************************************)
PreflightIsExact == RefusedForCause /\ PoorIsPoor

(***************************************************************************)
(* "Only a nonzero balance showing up is a real leak": a run stopped for a *)
(* leak has a journal that tells something of the balances, as it would be *)
(* another one with other balances behind it.                              *)
(***************************************************************************)
LeakIsReal ==
  stage = "leaked" =>
    \E i \in DOMAIN Current.wallets, b \in 0..(U128 - 1) :
      JournalOf([WitnessOf(Current) EXCEPT !.wallets[i].account.balance = b])
        # JournalOf(WitnessOf(Current))

(***************************************************************************)
(* A response passes the verifier's check exactly if it proves wallets it  *)
(* owns, carries attestations and is signed by the registered owner: the   *)
(* steps of the prover, over three blocks and in each mode, put together   *)
(* what the verifier takes apart.  A browser run that gets to a response   *)
(* is signed by the owner, whatever account the user was on when           *)
(* confirming: "else the verifier rejects after minutes of proving".       *)
(***************************************************************************)
ResponseVerifies ==
  response # None =>
    (Accepted(response) <=>
       /\ ~run.debug
       /\ run.notary
       /\ IF run.mode = "browser" THEN TRUE
          ELSE IF run.ownerKey # NoKey THEN run.ownerKey = RegistryOwner
          ELSE FirstListed = RegistryOwner)

(***************************************************************************)
(* "Saves minutes of proving a bundle that recordValidation would reject": *)
(* proofs that cannot be recorded any more were begun when the token was   *)
(* not bound yet, or the gateway could not be read, or without a check.    *)
(***************************************************************************)
NoWastedProof ==
  bundles # <<>> /\ run.mode # "legacy" /\ ~NoBinding(token, secret)
    /\ Mismatch(commitment, secret)
      => read \in {Unread, NoCommitment}

(***************************************************************************)
(* The secret that the signer of an identity message derives.              *)
(***************************************************************************)
OwnersSecret(key) == SecretFrom(Sign(key, IdentityDigest(token)))

=============================================================================
