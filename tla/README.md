# Proof of reserves: the TLA+ development

An agent on a marketplace proves that wallets it controls hold at least a
threshold of native currency, on several blocks it did not choose, without
showing the wallets. A **verifier** issues a challenge (three recent blocks and a
nonce), a **prover** builds one zero-knowledge proof per block and a TLSNotary
attestation of each block's header, and the verifier judges the answer. Verified
answers are settled on zkVerify through Kurier and recorded on Base Sepolia by a
**submitter**; a web UI shows the result.

Paths below are relative to the repository root.

## 1. Inventory

| component | state it keeps | operations | what makes it correct |
|---|---|---|---|
| challenge service, `por-risc0/host/src/bin/verifier.rs` | `HashMap` of sessions behind one mutex: challenge, owner, state, verdict, Kurier report | issue, submit, status; background settle and forward | a challenge is answered and judged once, in time, on evidence; side effects start once; every answer gets a verdict |
| submission check, `verifier.rs`, `host/src/verify.rs`, `por-types/src/lib.rs` | none | `verify_submission` and what it calls | accepts only genuine proofs of exactly the challenged blocks, for this challenge, chain, threshold and owner |
| block selection and chains, `verifier.rs`, `por-types/src/chains.rs` | none | `select_blocks`, `window_blocks`, `resolve_chain`, `expected_host` | one block per third, in the window, before the head; testnets never pass for mainnets |
| zkVM guest, `methods/guest/src/main.rs` | none | one run: header, wallets, sum, journal | the journal's threshold is covered by distinct owned accounts at one state root |
| prover CLI, `host/src/main.rs` | files of a two-phase run | prepare, finalize, connected mode | an answer carries a proof of every challenged block; identity and owner keys agree |
| attestation client and notary, `attest.rs`, `notary.rs` | one TCP session; the notary's key and key file | MPC-TLS, then a lockstep exchange of two messages; load or draw the key | both sides end, an exchange fails only for a cause, all attestations bear one key |
| offline tools, `por_verify.rs`, `ownership_selftest.rs`, `marketplace_offsets.rs` | none | one verification; seven controls of the guest; two journal offsets | the controls hold; the offsets are those of any journal |
| prove-web, `app/web/prover-web.mjs` | job map mirrored to `job.json`, a one-prove slot, files of the prover | start, finalize, status; resume at start-up | one prove at a time; a crash loses no job; the job shows the verifier's verdict |
| submitter, `app/web/submitter.mjs` | pipeline map, transaction chain | submit, pipeline, clear-failed, prune | every bundle reaches a final stage; sends never overlap; the commitment is set once |
| registry read-proxy, `app/web/server.mjs` | TTL caches, in-flight fetches | reads; clear-failed drops a cache | a reader after a clear does not see what was cleared |
| registry adapters, `sepolia-registry.mjs`, `mock-registry.mjs` | event-scan cursor and result | incremental scan | no event skipped or counted twice |
| MCP tools, `por-mcp.mjs`, `register-agent.mjs` | job map over child processes | start, status | a job's final state is the outcome of its process |
| browser UI, `app/web/src` | wizard state, remembered job id | connect, sign, switch account, resume | each message is signed by the account it is meant for |
| first-generation prover, `por-zk/` | a nonce store, requests under way | nonce, prove, admin prove; its own client, notary and header decoder | a nonce starts one proof; every proof ends |
| deployment, `deploy/` | none | build scripts | nothing to model |

How they interact: prove-web and the CLI call the challenge service over HTTP
(issue, submit, status) and the notary over TCP; the service reads the owner
from the registry proxy and the head from an RPC endpoint while it issues; after
a verdict it posts the bundles to the submitter, which drives Kurier and two
Base Sepolia contracts; the UI polls the proxies.

What is hard here: requests that race for one challenge; a verification that
takes long and ends after the deadline, after the client hung up or after a
restart; background work whose report meets a session that moved on; resumed
jobs that submit twice; an archive whose accounts are not those of the header; a
wallet whose account changes between a check and a signature; two peers that each
wait for the other's last byte; a key file cut short; a nonce sent twice; three pipelines of one answer that check and then set the
same on-chain slot; caches filled by a fetch that was under way when they were
cleared. `PROJECT.json` lists each at its line under "hazards".

## 2. Modules

| module | models | notes |
|---|---|---|
| `Chains` | `chains.rs` | the table as a set of rows; lookups return sets, empty on error |
| `BlockSelection` | `select_blocks`, `window_blocks` | the keccak draw is a parameter, the arithmetic is kept |
| `Submission` | `verify_submission` and the checks it calls | a predicate of the claimed snapshot and the response |
| `Verifier` | the challenge service | one action per critical section of the mutex |
| `ChallengeOnce` | what the service promises | abstract specification: unused, open, claimed, judged or closed |
| `Witness` | what the guest reads, and what it should accept | reference statement: the reserves counted on the state, each account once |
| `Guest` | `methods/guest/src/main.rs` | one action per wallet and per way to end |
| `Rlp` | the three readers of a raw header: guest, `verify.rs`, `por_witness.rs` | byte by byte, with the encoding as reference |
| `Journal` | the guest's commits, `decode_journal`, `marketplace_offsets.rs`, `canonical_bytes` | byte layouts |
| `SelfTest` | `ownership_selftest.rs` | its fixtures and its seven controls, as witnesses of `Guest` |
| `Programs` | | the guest and the pure algorithms in one specification: a state is a guest run under way, or one input of one algorithm |
| `Prover` | `host/src/main.rs`, all four modes | one action per step that may fail; the environment binds commitments |
| `SigningWizard` | `signFinalizePoll` of `ProveReserves.tsx` | between `--prepare` and `--finalize` of `Prover` |
| `Attestation` | `attest.rs` with `notary.rs`; `por_core.rs` with `zerion_notary.rs` | the two framings of a message, a proxy, crashes and cuts |
| `ReserveService` | `por_service.rs` | nonces and concurrent requests |
| `Proving` | `SigningWizard`, `Attestation`, `ReserveService` together | an attestation step of a prover is a session of the exchange |
| `HonestAnswers` | | the answer an honest prover gives, for `MCVerifier` and `MCProofFlow` |
| `ProverWeb` | prove-web, with any service behind it | one action per stretch of JavaScript between two awaits; crashes between writes |
| `ProofFlow` | `ProverWeb` and `Verifier` together | an HTTP exchange is a step of both |
| `Submitter` | the submitter, with the chain outside | pipelines, the send lock, the commitment, receipts |
| `PipelineView` | `Submitter` behind the read-proxy's cache | shared fetches and the clear |
| `MCVerifier`, `MCPrograms`, `MCProverWeb`, `MCProofFlow`, `MCSubmitter`, `MCPipelineView`, `MCProving` | | instances for TLC |
| `VerifierProofs` | | theorems of `Verifier`, and the refinement of `ChallengeOnce` |
| `AlgorithmProofs` | | theorems of `BlockSelection`, `Chains`, `Rlp` and `Journal`: what the pure algorithms do on every input |
| `ProgramProofs`, `ProverWebProofs`, `SubmitterProofs`, `ProvingProofs`, `FlowProofs` | | theorems of `Guest` and `Programs`, `ProverWeb`, `Submitter` and `PipelineView`, `Proving` and `Prover`, `ProofFlow` |
| `SumProofs` | | lemmas: induction on the naturals, sums over finite sets and along sequences, ascending listings |

### Verifier

State: `sessions` is the `HashMap` (a partial function, its domain is `Live`);
`handlers` holds, for each request that has claimed a challenge, the snapshot and
the response it verifies off the lock; `settling` and `forwarding` are the
spawned tasks; `now` is the clock. `issuedIds` and `accepted` are history: ids
ever drawn, and the answer behind each "verified". `delivered` counts what
reached the submitter.

| action | code |
|---|---|
| `Issue` | `handle_issue`; its early returns are the guards |
| `SubmitUnknown`, `SubmitLate`, `SubmitAnswered`, `SubmitClaim` | the first critical section of `handle_submit`, one action per outcome |
| `FinishVerified`, `FinishRejected` | the second critical section, with the tasks it spawns |
| `DropHandler` | a hang-up, or a panic of the verification, between the two |
| `SettleBundle`, `SettleReport`, `SettlePanic` | `settle_kurier`, per bundle, its report, and its end by a panic |
| `Forward` | `forward_to_submitter`: delivered or lost |
| `Status` | `handle_status`, which expires lazily |
| `Restart`, `Tick` | the process restarts with an empty map; a second passes |

The table in `Submission` of what a response is made of: a bundle is `genuine`
when its receipt verifies against the guest image, and then carries a journal; a
presentation is `authentic` when its notary signature and certificate chain
verify. Keccak is an injective constructor and a signature recovers to its
signer over its own digest only. These are the idealisations everything rests on.

The clock only moves forward in the model. The code reads the system clock, so a
step back of the host's clock is outside it. `window_days * 86400` is taken not
to overflow 64 bits.

### ProverWeb and ProofFlow

Memory is `jobs`, the `proving` flag, `preparing` (a request that waits for
`prover --prepare`), `worker` (a running `runFinalizeAndSubmit` and the await it
stands at) and `resuming` (what the start-up loop has yet to run). Disk is
`dirs`: per job its challenge, `job.json`, and whether `prepare.json`,
`sigs.json` and `response.json` are there, the last also cut short.

| action | code |
|---|---|
| `Start`, `PrepareWrites`, `PrepareDone`, `PrepareFails` | `proveStart`, and the child that writes `prepare.json` before it exits |
| `Finalize` | `proveFinalize` up to the first await of `runFinalizeAndSubmit` |
| `Resume` | one turn of the loop at the end of `rehydrate` |
| `ProveWrites`, `ProveDone`, `PostTaken`, `PostReply`, `StatusReply`, `RecordVerdict`, `RunFails` | `runFinalizeAndSubmit`, an await at a time, with its catch and finally |
| `Crash`, `CrashInFinalize`, `CrashInResponse`, `CrashInSave` | a crash between steps, between two writes, or inside one, then `rehydrate` |

`ProofFlow` replaces "any reply" by `Verifier`: `PostAnswer` is a POST that finds
the challenge unknown, late, answered or free, `Judge` a verdict that reaches the
worker if it still waits, `Ask` the GET after "already answered". Only the job
that asked for a challenge answers it: its id is random and nobody else is told.
A crash of prove-web takes its children along (they share a container).

### Submitter and PipelineView

`jobs` is the map the UI polls, `at` the await each pipeline stands at, `txChain`
the queue `withTxLock` builds. The mempool, the receipts and the gateway's
commitment slots are external. The actions follow `runPipeline` and
`ensureCommitment` from top to bottom; `GivesUp` is a wait for a receipt that
throws while its transaction stays in the mempool, `Fails` any other throw.
A `writeContract` whose transaction was sent and whose reply was lost is not told
apart from that wait: either way the pipeline ends and the transaction may still be
mined, while the next send of the wallet takes its turn (`GivesUp`). The
gateway is what the comments say of it: a commitment is set once, a validation is
recorded only under the commitment its journal presents. In `PipelineView` a poll
hits the cache, joins a fetch or starts one; a fetch is answered at one moment and
arrives at another, and so does the reply to a clear. Age is a flag that may drop
at any time, which stands for every length of the TTL.

### The guest and the byte formats

`witness` is what the host wrote, `at`, `prev` and `total` the variables of the
loop, `outcome` how the run ended; a panic proves nothing and is `"refused"`.

| action | code |
|---|---|
| `CheckWallet`, `RefuseWallet` | one turn of the loop: order, Merkle proof, signature, sum |
| `NoWallets`, `RefuseSum` | the assertions before and after the loop |
| `Commit` | the commits, with the values of `JournalOf` |

A state root is the Keccak of the accounts below it, and a proof is named by the
root it was taken at. The widths are scaled: `U128` is 16 and `U256` its square.
`Programs` puts the guest and the pure algorithms into one specification: a state
is a guest run under way, or one input of one algorithm, taken from the constant
`Calls`. `MCPrograms` gives that constant its bounded sets.

`Rlp` keeps the lead-byte classes, the bounds and the canonicity checks of
alloy-rlp (external, as the guest and the verifier use it), and the lax decoder of
the witness builder. A stated length may take up to eight bytes, as in the code. Where
the builder's `usize` addition overflows it panics, or wraps (a release build) to
an end below the start, and the slice panics: the program ends, as it does on the
error that the model gives there. The encoders write lengths of two bytes at most.
`Journal` takes risc0's serde as external: a byte of an array fills a word,
integers are contiguous.

### Proving

`Prover` follows one process: `run` is its command line and environment, `stage`
where it stands. The header server, the archive (`OtherState` is one out of
step), the notary, the gateway and the verifier answer from outside.

| action | code of `main.rs` |
|---|---|
| `BuildWalletSet`, `BadWalletSet` | `build_wallet_set`, the head of `run_prepare` |
| `GetChallenge`, `NotIssued`, `PickBlock` | `load_challenge`, `connected_target` and the issue in `run_connected`; `run_legacy_single` |
| `IdentifyUnread`, `IdentifyRead`, `IdentityMismatch` | `resolve_secret_cli`, `resolve_secret_from_sig`, `resolve_token_id` and `preflight_identity_binding` |
| `Fetch`, `FetchFails` | `fetch_block` and `ensure_can_prove` |
| `CheckSigs`, `BadSigs` | the signatures of `sigs.json` in `run_finalize` |
| `NoNotary`, `AttestBlock`, `AttestFails` | `maybe_attest` |
| `ProveBlock`, `GuestRefuses`, `JournalShows` | `prove_block`: the guest, then the search of the journal for a balance |
| `WriteResponse`, `SubmitVerified`, `SubmitFails` | `owner_sign`, the response, the submission of `run_connected` |
| `BindCommitment` | the environment: someone records a first proof |

`SigningWizard` adds the browser's wallet: `EnsureAccount` is `ensureAccount`
returning, `SwitchAccount` a change of account, before or (a slip) behind the
check, `SignMessage` the confirmation, `Finalize` and `SignAgain` the two ways the
owner's signature may turn out. It models one reserves wallet in the browser; the
lists of several are runs of the other modes.

`Attestation` is one connection and the notary process. `link` is the deployment:
messages end by their length (`attest.rs`, `notary.rs`) or by a half-close
(`por_core.rs`, `zerion_notary.rs`), and a proxy between may collapse a half-close.
`LoadKey`, `DrawKey`, `WriteKey` are `load_or_create_key` with the file written in
place; `MpcSession` is the joint session of the library; `ClientWrite`,
`NotaryRead`, `NotaryWrite`, `ClientRead` the exchange; `ClientCutOff` and
`NotaryCutOff` the end of a stream before its message; `ServerRefuses`, `Cut` and
`NotaryCrash` the faults.

Three disagreements of comments and code that have no run of their own. The comment at
`main.rs:414-416` gives the identity the key of `owner_sign`; without
`POR_OWNER_KEY` it is the key of the lowest address (174-178, 638), and
`owner_sign` takes the first as listed (583-588). `IdentityFollowsKeys` says what
the code does with every list: the secret is that of the challenge's signer exactly
if `POR_OWNER_KEY` is set or the first key listed has the lowest address
(`OneSigner`). A list in another order gives an answer that verifies under one key
and binds the identity of another one: the preflight stops it once the gateway shows
the signer's commitment, and a first registration goes through. The same holds in the
browser when the account slips before the identity message is confirmed. Runs with
the lists `<<2, 1>>` and `<<2, 3>>` and with a slip have both outcomes.
And `ensureCommitment` compares an identity with
32 zero bytes to leave out the zero secret (`submitter.mjs:161-168`), while the
guest commits the Keccak of the secret, which is never zero. And the comment at
`marketplace_offsets.rs:81-82` invites to run the helper with the real token id,
"though offsets are value-independent". They are, but `find` takes the first place
that holds the pattern, and for the token id 0 that is the upper half of the
threshold, where the read-back (163) finds 0 too. `Calls` has helper runs on labels
that occur once (`StandsOut`), as the built-in ones do.

`ReserveService` has `GetNonce`, `Prove`, `AdminProve`, `BadSignatureSent`,
`RunProof`, and a restart that forgets the nonces. Its proofs share one connection
in `Proving`, one at a time; in the program each has its own. Its verifier always
answers that a proof is a debug one (`run_proof` proves in debug mode), so the
verdict is not told apart.

Idealisations of these parts. Whoever reads the key file finds it absent, cut short
or whole: `load_or_create_key` (`notary.rs:64`) takes any error of the read for "no
key" and overwrites the file, so a whole file that cannot be read for a moment would
cost the notary its identity; `OneIdentity` and its theorem do not cover that. Of the
journal's fields only the threshold is compared with the balances in
`Shows`, and a balance is found only as a whole, at the threshold. The search in the code is at any byte offset, so a balance that is the
threshold times 256 stops a run in the same way, by the padding before it.

## 3. Runs

| run | instance | shows |
|---|---|---|
| `programs` | the seven controls and 855 witnesses of up to three wallets; heads to 12, windows to 10, draws to 3 per third; every chain and selector; slots 0 to 3, one day, more than one day; lists of up to two items at the limits of the length classes; headers of well-formed and malformed items; journals and challenges of two values per field | the guest commits exactly for the witnesses that hold the threshold, and passes its self-test; the blocks of a challenge are one per third, in order and before the head; windows are never empty; the testnet flag decides the side of the chain; the three readers of a header agree wherever the guest commits; journals decode to what was committed, the offsets are those of any journal, and signed bytes determine a challenge |
| `verifier` | two challenges with the same agent, chain and threshold, two concurrent requests, clock 0 to 2 with a lifetime of 1, the answers of `MCVerifier`, hang-ups, panics, lost forwards and restarts | a challenge is claimed and judged once, a verified verdict is backed by evidence, no proof counts twice, tasks start once and reports are true, and the service implements `ChallengeOnce` |
| `verifier_live` | the same under `FairSpec`, no faults, no symmetry | answers are judged and settle reports end |
| `web` | two jobs, any reply, two crashes, also inside a write, fair | one prove at a time; what says "proving" is being run or will be, with its files; no proof is computed twice; a crash loses no job and takes none back; jobs that wait for no user end |
| `flow` | two jobs, two challenges, one crash of prove-web, restarts and dropped requests of the service, a clock that passes the deadline; writes may be cut short | "verified" is backed by the answer on disk; without a crash, "rejected" is final |
| `flow_authority` | one job | finding: a verified job resubmitted late is recorded as rejected |
| `submitter` | three bundles of one agent, two identities, restarts, fair | sends never overlap; cards say what is on chain and only move forward; pipelines end |
| `submitter_commitment` | two bundles of one identity | finding: the second registration fails its pipeline |
| `view` | one bundle, two readers, two fetches at most | the panel never runs backwards; a clear shows, but for a fetch under way |
| `view_clear` | the same | finding: a fetch under way undoes the clear |
| `proving` | 16 runs over all modes, each with one thing different; three blocks of four accounts; a challenge on a known and one on an unknown chain; two commitments others may bind; one fault, two keys, one slip; one nonce, two requests, a clock to 2 with a lifetime of 2; three links; fair | responses pass the verifier's check exactly when they should; the preflights refuse what cannot be proved or recorded, and nothing else; a browser run that is proved counts; the identity proved is that of the challenge's signer exactly if one key signs both, and no other identity is proved once the gateway has shown the signer's; one notary key; exchanges fail for a cause; nonces start one proof; runs and proofs end |
| `prover_privacy` | the same | finding: a balance equal to the threshold is taken for a leak |

Why the bounds are enough. Two challenges are what a replay or a mix-up needs,
two requests what a race for a claim needs, and every property speaks of at most
two of each. The lifetime of one second and a clock up to 2 put claims, verdicts
and resubmissions before, at and after the deadline. `MCVerifier` has the honest
answer to each challenge; answers with one thing wrong in the second of the
three bundles (the receipt, chain, agent, threshold, debug flag, the block; a
presentation that is missing, not authentic, of another server or of another header)
or in the signature (of a stranger, malformed); an answer that repeats a block; and
the proofs of the other challenge, which carry its nonce. `MCProofFlow` has of these
only the stranger's signature: there it matters that an answer is refused, not why.
That the verdict is right for every answer there is, is `VerdictIsBacked`. A window of six blocks has thirds of two; head 6 is refused and head 7
accepted. Symmetry permutes challenges and requests only, in runs without
liveness.

Two jobs are what a race for the slot needs, and a resume that waits for a live
prove; two crashes reach a crash of a resumed job. Three bundles are one answer;
one of them with another identity makes the gateway refuse. A write that a
crash cuts short is part of the run; the one job whose `job.json` it destroys is
skipped by `rehydrate`, and `JobsSurvive` excepts it.

A wallet list of three with balances 1, 9 and 8 of a width of 16 has sums below
and above the width, so a sum that wraps, one that counts a wallet twice and one
at the threshold all occur; each of the faulty wallets has one thing wrong. In
`proving`, wallets sum to just below, above and over the width, one account is
absent, one holds just the threshold, and the archive out of step holds more. One
fault is enough for every property but a second crash while the key is
written again, which two keys stand for; one slip reaches each message the wallet
is asked to sign. `CHECK_DEADLOCK FALSE` is said in `proving` because the command
line ends.

`Rehydrated` keeps the branch of `rehydrate` that resumes a job found in
"preparing" with its `prepare.json` (`prover-web.mjs:121`). It is never taken: it
needs `toSign`, which is saved only together with the next state, so a job that
crashes after the prover's exit and before that save ends as an error.

Fairness. In `Proving` the steps of the command line, of the exchange and the hand-over of its
result are weakly fair: RPC calls have six attempts and a socket delivers or
breaks. Nothing is assumed of users, clients, faults or a notary that is down.
In prove-web a child process ends, `fetch` gives up by itself, and the
resume loop looks at the slot every second; there are finitely many jobs, so the
slot is free for good at last, and weak fairness of `Resume` is enough. A pipeline
of the submitter is bounded loops and calls that throw in the end: weak fairness
of `RunPipeline` for each, none for Kurier or the chain. In the service, the
blocking pool runs a started verification to its end, the settle loop polls a bounded number of times, and curl has a time-out: so a handler, a
settle task and a forward, each on its own, are weakly fair. Clients owe nothing:
no fairness on requests, on polling, or on the clock. Hang-ups and panics are off in
the liveness run because with them the property is false and the code makes no
other promise: a challenge whose handler is dropped stays "submitted", or becomes
"expired" on a late resubmission, and has no verdict.

## 4. What is proved

For every value of the constants. The assumptions are what the code's types, its
cryptography and its libraries give:

| assumption | why |
|---|---|
| `NonceAssumption` | nonces of different challenges differ: 32 random bytes |
| `InputAssumption`, `ConfigAssumption` | numbers are unsigned, flags are `bool`, "no owner" is not an owner |
| `AnswersAreResponses`, `AnswersAssumption` | what prove-web posts is what the service can read; a torn or absent file is no answer |
| `WidthAssumption`, `WitnessAssumption` | the widths of what the host writes: balances and threshold below `U128`, as many wallets as a u32 counts |
| `RunAssumption` | a run is in one of the four modes; `ChallengeAssumption`: a challenge has the fields of the service's `struct Challenge`, a u128 threshold and `BLOCK_COUNT` blocks of the chain |
| `StateAssumption` | `hu128` panics on a balance wider than a u128, so a block with one is never fetched |
| `KeyAssumption`, `OwnershipAssumption`, `SignatureAssumption` | a malformed signature is nobody's, one that was made is not malformed, and no signature is the value that says there is none |
| `PresentationAssumption` | "no presentation" is not one that the notary signed |
| `LinksAssumption`, `BoundAssumption`, `JournalAssumption` | deployments, bounds and journals have their shape |
| `CallAssumption` | the inputs of the algorithms have the types of their parameters: any bytes for a header, any list whose length takes two bytes at most, any journals and challenges. The run of the offsets helper is one on distinctive labels (`StandsOut`: a sentinel token id and a Keccak) |
| `NoRunAssumption` | a witness without wallets is one of the witnesses: the host writes a count, and the guest asserts that it is not zero |

| theorem | states |
|---|---|
| `VerifierProofs!TypeCorrect` | `[]TypeOK` |
| `VerifierProofs!AnsweredOnce` | `[]OneAnswerPerChallenge` |
| `VerifierProofs!VerdictIsBacked` | `[]VerifiedIsBacked` |
| `VerifierProofs!NoReplay` | `[]NoBundleCountsTwice` |
| `VerifierProofs!AtMostOneForward` | `[]ForwardedOnce` |
| `VerifierProofs!ReportIsHonest` | `[]SettleReportHonest` |
| `VerifierProofs!Implements` | `Spec => Abstract!Spec` |
| `AlgorithmProofs!OnePerThird`, `WindowIsSound`, `EverySelectorResolves` | `select_blocks`, `window_blocks` and `resolve_chain` for all inputs |
| `AlgorithmProofs!EveryListDecodes` | `DecoderInverts`: `rlp_decode_list` inverts the encoding of every list, and refuses it cut short or with a tail |
| `AlgorithmProofs!EveryHeaderIsOneBlock`, `EveryGoodHeaderIsRead` | `ReadersAgree` on every byte string, `ReadersComplete` on every well-formed header |
| `AlgorithmProofs!JournalsRoundTrip`, `OffsetsAreStable`, `SigningsBind` | `decode_journal`, the measured offsets and `canonical_bytes`, for every value of every field |
| `ProgramProofs!GuestTypes`, `GuestCommitsOwned` | `[]GuestTypeOK`, `[]CommittedIsOwned` |
| `ProgramProofs!ReservesAreCovered` | `[]ReservesCover` |
| `ProgramProofs!SelfTestEndsAsAsserted`, `ChallengesAreSound` | `[]SelfTestPasses`, `[]EveryChallengeSound` |
| `ProgramProofs!HeadersAgree`, `LayoutsHold` | `[]EveryHeaderAgrees`, `[]EveryLayoutHolds` |
| `ProverWebProofs!WebTypes`, `OneProve`, `ProvingDriven` | `[]WebTypeOK`, `[]OneProveAtATime`, `[]ProvingIsDriven` |
| `ProverWebProofs!EveryJobSurvives`, `ProvesOnce` | `JobsSurvive`, `ProvedOnce` (of every step) |
| `FlowProofs!FlowRunsProveWeb`, `FlowRunsService` | `FlowSpec => WebSpec`, `FlowSpec => Service!Spec` |
| `FlowProofs!VerifiedJobs`, `FinalVerdict` | `[]VerifiedJobIsVerified`, `[]FirstVerdictIsFinal` |
| `SubmitterProofs!SubmitterTypes`, `OneSend`, `TrueCards` | `[]SubmitterTypeOK`, `[]OneSendAtATime`, `[]CardsAreTrue` |
| `SubmitterProofs!ForwardCards` | `CardsMoveForward` (of every step) |
| `SubmitterProofs!ShownForward`, `ClearIsShown` | `ShownMovesForward` (of every step of `PipelineView`), `[]ClearShows` |
| `ProvingProofs!AttTypes`, `NotaryIdentity`, `ExchangeSurvives` | `[]AttTypeOK`, `[]OneIdentity`, `[]FailsForCause` |
| `ProvingProofs!NonceOnce`, `NoneWasted` | `[]NonceSpentOnce`, `[]NoWastedProof` |
| `ProvingProofs!ProvingTypes`, `IdentityStays` | `[]ProvingTypeOK`, `[]IdentityFollowsKeys` |
| `ProvingProofs!ResponsesVerify`, `PreflightStandsForGuest` | `[]ResponseVerifies`, `[]PreflightIsExact` |

The argument. `OneAnswerPerChallenge` alone is not inductive: nothing in it stops
a claim of a challenge that a handler still holds. `AnswerInv` adds that an
unanswered challenge has neither a verdict nor a handler; the guard of
`SubmitClaim` then does the rest, and every other step leaves the states alone or
moves them away from "issued" (`AnswerFrame`). `EvidenceInv` carries what
`verify_submission` established from the claim to the verdict: a handler's claim
was in time, its challenge was never accepted before, and an accepted answer still
passes `Accepts` on the session's own terms. From it `VerdictIsBacked` follows by
the pure lemmas on `Submission` (`AcceptedProves`, where `EveryBlockProved` says
that equal sorted vectors leave no block out), `NoReplay` because nonces differ,
and `ForwardInv` because a challenge is accepted once. `SettleReportHonest` is
inductive as it stands, given `AnswerInv`. The refinement reads the phase of a
challenge off its verdict and its handler, never off the state word, which a late
resubmission overwrites.

The guest: the loop has checked every wallet before `at`, and their addresses
ascend, so by transitivity no two are the same; the rest of `CommittedIsOwned` is
what each turn established. For `ReservesCover`, `SumInv` says that the total is
the sum over the addresses seen, and at most `at - 1` times the largest balance:
a u32 counts the wallets, so the 256-bit sum cannot wrap. `DecidedInv` says that a
witness refused was not acceptable, which needs every check of the loop: that is
the half of the equivalence that types and sums alone do not give (`CoverInv`).

The self-test: a guest run that has ended was refused if its witness is not
acceptable, and has committed if it is (`DecidedInv`), so it is enough to evaluate
`GuestAccepts` on the seven witnesses of `Controls` (`ControlsEvaluate`): which of
the two ways a control ends does not depend on its interleaving with anything.

The readers of a header. A result of theirs is a set of at most one value, and the
item read at a place depends only on the bytes from there to its end, so it is read
the same inside a longer string, further on (`ItemMoved`). Three arguments rest on
that. An encoded item is read back, whole and canonical, from the prefix that the
three length classes give it (`ReadEncoded`); a list is laid down item after item
(`JoinedInPlace`), and reading from the k-th place gives the items from the k-th
on, from the end backwards (`ItemsOfJoined`). A tail moves the end of the input
away from the end of the outer item, a cut likewise (`TailRead`, `CutRead`). For
`ReadersAgree` the header is arbitrary: a walk of alloy-rlp, which ignores the
length of the outer list, and the decoder of the witness builder, which checks it
but not that items are canonical, go abreast (`Abreast`): after k items the walk
stands, if anywhere, where the decoder has the rest of its list. So wherever both
find a fourth and a ninth item these are the same bytes. And skipping three items,
reading one and skipping four is skipping eight, so the verifier finds the guest's
number (`SkipAdds`, `GuestReads`). `ReadersComplete` adds that the walk through an
encoded list finds each item (`WalkOfWhole`).

The byte layouts: every field of a journal has a fixed place (`JournalsRoundTrip`),
so a pattern that occurs once occurs there, and is found there in every other
journal (`OffsetsAreStable`). The signed bytes are fields of fixed width one after
the other, and two that are equal are so field by field.

Sums. A sum over a finite set is defined by a recursive function, and the
library's induction theorems take an operator as a parameter. `SumProofs` gets
induction from the least element of a set of naturals instead, and shows by it
that the sum exists, is unique, and is the same in any order. A listing in
ascending order exists for every finite set of addresses, and a left fold along
it is the sum over the set; a fold of saturating additions is that sum cut off at
the largest u128.

prove-web: neither of `OneProveAtATime` and `ProvingIsDriven` is inductive alone.
The invariant ties four things together: the slot is taken exactly while a worker
or a preparation runs, a job on disk that says "proving" has its signatures
beside it, the resume list names only such jobs, and what a worker is at agrees
with the job it runs. A crash in the middle of a write is a case of its own. For
`JobsSurvive` and `ProvedOnce` two more facts are needed (`KeepInv`): a job in
memory is the one in its file, or what rehydration made of it and did not save;
and a worker proves only while there is no `response.json`.

The flow: every step of the composition is a step or a stutter of prove-web and
of the service, so what is proved of either holds in it. `FlowInv` then joins the
two: challenges tell jobs apart, what the service holds or has accepted of a
challenge is the answer in that job's directory, and a reply on its way to a job
speaks of that job's session. `FirstVerdictIsFinal` needs who may still claim:
while prove-web has not crashed, the service has nothing of a job before its
submission, at most one handler while the job waits, and no claim of a job that
was shown as rejected. After a crash the same answer may be submitted a second
time, so the property speaks of runs without one.

Submitter: the queue is duplicate-free and holds exactly the pipelines that wait
or send; only its head sends. What a card says follows from the stage
its pipeline stands at, and what stands in the mempool or on chain from the cards.
`Upsert` writes whatever stage it is given; what keeps a card from moving back is
that each place of a pipeline allows few stages (`PlaceInv`). Behind the cache,
`ViewInv` orders what is shown, what is cached, what a fetch carries and what the
submitter holds, each no later than the next. Misses share one fetch (`OneFetch`),
so no two answers are under way that could overtake each other; and a fetch that
a clear overlaps is marked, which is the one exception of `ClearShows`.

Attestation: all that was signed was signed with the key that the file holds in
whole, and nothing replaces a whole file (`KeyInv`); the two ends of a
connection stand at matching places (`EndsInv`); without a fault nothing is torn
(`CauseInv`). Nonces: what a proof has spent was handed out and is in the store no
more (`NonceInv`). Identity: a commitment once read stays the token's, since the
slot is set once, and a run that goes on from it has that commitment
(`IdentityInv`). `IdentityStays` takes from `RunInv` who signed the challenge and who
the identity message, which may be two accounts of a browser and two keys of a list,
and signatures of two keys are two secrets (`SecretsDiffer`); so the equivalence
holds in both directions, and with `IdentityInv` a run that saw the signer's
commitment has the signer's secret.

A run of the prover: `RunInv` says, stage by stage, how many blocks are fetched
and bundles made, that the i-th of each is of the i-th block of the challenge and
shows what the notary signed of it, whose signatures a browser run holds, and
where its secret comes from. `ResponseVerifies` follows: each check of
`verify_submission` is one of these facts, or fails for a cause that the property
names. `PreflightInv` adds that what is fetched was served from some state of the
chain, that every block but a last, poor one passed the preflight, and that a run
is refused only on a witness the guest does not accept. `PreflightIsExact` then
compares two sums of the same balances: the preflight's, which saturates at a
u128, and the guest's. They are on the same side of every u128 threshold
(`TotalIsSum`, `SaturatedAdd`).

Every safety invariant and every action property that a run checks is a theorem.
Only model-checked: liveness under fairness (`AnswersAreJudged`, `SettleReports`,
`ProofsEnd`, `PipelinesEnd`, `RunsEnd`), which the prover does not handle, and the
four findings, which are single counterexamples.

What a recursive definition computes is proved from its defining equation: the
folds and the recursive function of `Items` are shown to have a run, a function
that gives each step from the one before (`FoldSteps`, `SkipRun`, `JoinedRun`,
`ItemsRun`), and facts about runs follow by induction on the naturals. Encodings whose
length takes three bytes or more stay outside, in the theorems on encodings as in
the runs; `ReadersAgree` is about any bytes.

## 5. Plan

Done: `Chains`, `BlockSelection`, `Submission`, `Verifier` with `ChallengeOnce`,
`ProverWeb`, `ProofFlow`, `Submitter`, `PipelineView`, `Guest` with the byte
formats, `Prover`, `SigningWizard`, `Attestation`, `ReserveService`, `Proving`, and
the theorems of section 4. What would add most from here:

1. The forward as a composition: `Verifier` feeding `Submitter`, each answer's
   bundles recorded at most once.
2. The event scan of `sepolia-registry.mjs` against the set of events up to its
   cursor, and the job table of `por-mcp.mjs`.
3. Encodings whose length takes three bytes or more.

## 6. Not modelled, and why

Formatting, logging and HTTP plumbing; the MPC-TLS and zkVM libraries (idealised
as above); the read-only routes; rendering; deployment scripts; the mock registry,
which is test scaffolding. Further:

- `por_verify.rs` composes the checks of `verify.rs` that `Submission` models and
  keeps no state of its own.
- Of `por-zk/`: the Noir circuit and the layout of its inputs, the SIWE page, and
  the verifier of the first generation, which the second replaced.
- Time-outs of curl and of the attestation's sockets: there are none in the code;
  a peer that accepts and stays silent holds a run for ever, and the fairness of
  `Proving` excludes it.
- The registry adapters and the MCP tools: their tables feed displays and start
  provers, and no check of a proof rests on them but the owner of an agent, which is an input of
  `Verifier` and `Prover`.
- Browser runs with several wallets, and the polling of the page.
- The gateway's contract: what the comments and calls in `src/` say of it. A
  validation is recorded only under a commitment that is set.

`PROJECT.json` gives a reason per component.
