----------------------------- MODULE Submitter ------------------------------
(***************************************************************************)
(* The marketplace submitter (app/web/submitter.mjs): each bundle of a     *)
(* verified answer runs through a pipeline of its own -- Kurier, the relay *)
(* of the aggregation to Base, the agent's identity commitment, the        *)
(* recording of the validation -- and all pipelines send from one wallet,  *)
(* one transaction at a time (withTxLock).                                 *)
(*                                                                         *)
(* An action is the code between two awaits.  Kurier, the relay, the       *)
(* mempool and the gateway contract are outside; they are what the calls   *)
(* and comments of the submitter say they are.                             *)
(***************************************************************************)
EXTENDS Naturals, Sequences, FiniteSets, Functions

CONSTANTS
  Pipelines,      \* one per bundle; a bundle is submitted once
  Agents,         \* marketplace agent ids
  AgentOf,        \* AgentOf[p]: the agent in the bundle's journal, or NoAgent
  CommitmentOf,   \* CommitmentOf[p]: the identity in its journal, or ZERO32
  Commitments,    \* the identities there are
  OwnerIdentities,  \* those an agent's owner may register by itself
  NoAgent, ZERO32,
  Restarts        \* can the submitter restart

ASSUME JournalAssumption ==
  /\ AgentOf \in [Pipelines -> Agents \cup {NoAgent}]
  /\ CommitmentOf \in [Pipelines -> Commitments \cup {ZERO32}]
  /\ NoAgent \notin Agents /\ ZERO32 \notin Commitments
  /\ OwnerIdentities \subseteq Commitments
  /\ Restarts \in BOOLEAN

VARIABLES
  jobs,         \* the Map the UI polls: pipeline -> its card
  at,           \* where each running pipeline stands (its next await)
  txChain,      \* withTxLock: who sends, and who waits to send
  submitted,    \* history: the bundles received
  mempool,      \* external: transactions sent and not yet mined, by nonce
  mined,        \* external: transaction -> did it succeed
  agentCommitments  \* external: the gateway's set-once slots

submitterVars == <<jobs, at, txChain, submitted, mempool, mined, agentCommitments>>
chain == <<mempool, mined, agentCommitments>>

-----------------------------------------------------------------------------
Terminal == {"VERIFIED", "FAILED"}
PipelineStages ==
  {"SUBMITTED", "FINALIZED", "AGGREGATED", "RELAYING", "RECORDING"} \cup Terminal

Causes == {"none", "taken", "refused", "gave up", "other"}

Card == [stage : PipelineStages, error : Causes]

Tx == [by : Pipelines, kind : {"register", "record"}]

RegisterTx(p) == [by |-> p, kind |-> "register"]
RecordTx(p)   == [by |-> p, kind |-> "record"]

Drop(f, S) == Restrict(f, DOMAIN f \ S)

Upsert(p, stage) == jobs' = [jobs EXCEPT ![p].stage = stage]

Init ==
  /\ jobs = [p \in {} |-> NoAgent]
  /\ at = [p \in {} |-> NoAgent]
  /\ txChain = << >>
  /\ submitted = {}
  /\ mempool = << >>
  /\ mined = [t \in {} |-> FALSE]
  /\ agentCommitments = [a \in Agents |-> ZERO32]

-----------------------------------------------------------------------------
(***************************************************************************)
(* POST /submit: every bundle of the response starts a pipeline, which     *)
(* runs up to its request to Kurier.                                       *)
(***************************************************************************)
SubmitResponse(bundles) ==
  /\ bundles # {}
  /\ bundles \cap submitted = {}
  /\ submitted' = submitted \cup bundles
  /\ jobs' = [p \in DOMAIN jobs \cup bundles |->
                IF p \in bundles THEN [stage |-> "SUBMITTED", error |-> "none"]
                ELSE jobs[p]]
  /\ at' = [p \in DOMAIN at \cup bundles |->
              IF p \in bundles THEN "kurier" ELSE at[p]]
  /\ UNCHANGED <<txChain, chain>>

Stands(p, place) == p \in DOMAIN at /\ at[p] = place

Goto(p, place) == at' = [at EXCEPT ![p] = place]

(* catch: the pipeline ends as FAILED.  A send it held is over. *)
FailWith(p, cause) ==
  /\ jobs' = [jobs EXCEPT ![p] = [stage |-> "FAILED", error |-> cause]]
  /\ at' = Drop(at, {p})

KurierTakes(p) ==
  /\ Stands(p, "kurier")
  /\ Goto(p, "poll")
  /\ UNCHANGED <<jobs, txChain, submitted, chain>>

KurierFinalizes(p) ==            \* a poll that has a txHash
  /\ Stands(p, "poll")
  /\ Upsert(p, "FINALIZED")
  /\ UNCHANGED <<at, txChain, submitted, chain>>

KurierAggregates(p) ==           \* AGGREGATED, the leaf preflight, RELAYING
  /\ Stands(p, "poll")
  /\ Upsert(p, "RELAYING")
  /\ Goto(p, "relay")
  /\ UNCHANGED <<txChain, submitted, chain>>

Relayed(p) ==
  /\ Stands(p, "relay")
  /\ Goto(p, "commit")
  /\ UNCHANGED <<jobs, txChain, submitted, chain>>

(***************************************************************************)
(* ensureCommitment: the slot is read before the send lock is asked for.   *)
(***************************************************************************)
NeedsCommitment(p) ==
  /\ AgentOf[p] # NoAgent
  /\ CommitmentOf[p] # ZERO32
  /\ agentCommitments[AgentOf[p]] = ZERO32

(* Queues for the lock.  Nobody leaves the queue but its head. *)
Enqueue(p, place) == txChain' = Append(txChain, p) /\ Goto(p, place)

Sends(p) == txChain # << >> /\ Head(txChain) = p

CommitmentNeeded(p) ==
  /\ Stands(p, "commit")
  /\ NeedsCommitment(p)
  /\ Enqueue(p, "register")
  /\ UNCHANGED <<jobs, submitted, chain>>

CommitmentThere(p) ==
  /\ Stands(p, "commit")
  /\ ~NeedsCommitment(p)
  /\ Upsert(p, "RECORDING")
  /\ Goto(p, "fee")
  /\ UNCHANGED <<txChain, submitted, chain>>

(***************************************************************************)
(* The gateway, external: a slot is set once; a validation is recorded     *)
(* only for the identity in the agent's slot, once it is set.              *)
(***************************************************************************)
GatewayTakes(tx) ==
  /\ AgentOf[tx.by] # NoAgent
  /\ LET slot == agentCommitments[AgentOf[tx.by]]
     IN IF tx.kind = "register" THEN slot = ZERO32
        ELSE slot = CommitmentOf[tx.by] /\ slot # ZERO32

(* simulateContract and writeContract, at the head of the lock. *)
Send(p, tx, place) ==
  /\ Sends(p)
  /\ GatewayTakes(tx)
  /\ mempool' = Append(mempool, tx)
  /\ Goto(p, place)
  /\ UNCHANGED <<jobs, txChain, submitted, mined, agentCommitments>>

SimulationReverts(p, tx, cause) ==
  /\ Sends(p)
  /\ ~GatewayTakes(tx)
  /\ FailWith(p, cause)
  /\ txChain' = Tail(txChain)
  /\ UNCHANGED <<submitted, chain>>

Register(p) ==
  /\ Stands(p, "register")
  /\ \/ Send(p, RegisterTx(p), "registering")
     \/ SimulationReverts(p, RegisterTx(p), "taken")

(* A receipt, whatever it says: its status is not looked at. *)
Registered(p) ==
  /\ Stands(p, "registering")
  /\ RegisterTx(p) \in DOMAIN mined
  /\ Upsert(p, "RECORDING")
  /\ Goto(p, "fee")
  /\ txChain' = Tail(txChain)
  /\ UNCHANGED <<submitted, chain>>

FeeRead(p) ==
  /\ Stands(p, "fee")
  /\ Enqueue(p, "record")
  /\ UNCHANGED <<jobs, submitted, chain>>

\* Seeded fault: the send does not take its turn.
RecordAtOnce(p) ==
  /\ Stands(p, "record")
  /\ GatewayTakes(RecordTx(p))
  /\ mempool' = Append(mempool, RecordTx(p))
  /\ Goto(p, "recording")
  /\ UNCHANGED <<jobs, txChain, submitted, mined, agentCommitments>>

Record(p) ==
  /\ Stands(p, "record")
  /\ \/ Send(p, RecordTx(p), "recording")
     \/ SimulationReverts(p, RecordTx(p), "refused")

\* Seeded fault: any receipt counts as success.
RecordedAnyway(p) ==
  /\ Stands(p, "recording")
  /\ RecordTx(p) \in DOMAIN mined
  /\ Upsert(p, "VERIFIED") /\ at' = Drop(at, {p})
  /\ txChain' = Tail(txChain)
  /\ UNCHANGED <<submitted, chain>>

Recorded(p) ==
  /\ Stands(p, "recording")
  /\ RecordTx(p) \in DOMAIN mined
  /\ IF mined[RecordTx(p)]
     THEN Upsert(p, "VERIFIED") /\ at' = Drop(at, {p})
     ELSE FailWith(p, "refused")
  /\ txChain' = Tail(txChain)
  /\ UNCHANGED <<submitted, chain>>

(***************************************************************************)
(* What throws besides: Kurier refuses, a poll loop runs out, the leaf     *)
(* matches no version, an RPC call fails -- before the pipeline asks for   *)
(* the lock, or while it simulates at its head.                            *)
(***************************************************************************)
Fails(p) ==
  /\ \/ p \in DOMAIN at /\ at[p] \in {"kurier", "poll", "relay", "commit", "fee"}
        /\ txChain' = txChain
     \/ p \in DOMAIN at /\ at[p] \in {"register", "record"} /\ Sends(p)
        /\ txChain' = Tail(txChain)
  /\ FailWith(p, "other")
  /\ UNCHANGED <<submitted, chain>>

\* Seeded fault: a send that fails leaves the chain of sends broken.
GivesUpKeepsLock(p) ==
  /\ Stands(p, "registering") \/ Stands(p, "recording")
  /\ FailWith(p, "gave up")
  /\ UNCHANGED <<txChain, submitted, chain>>

(* waitForTransactionReceipt gives up; the transaction stays in the mempool. *)
GivesUp(p) ==
  /\ Stands(p, "registering") \/ Stands(p, "recording")
  /\ FailWith(p, "gave up")
  /\ txChain' = Tail(txChain)
  /\ UNCHANGED <<submitted, chain>>

-----------------------------------------------------------------------------
(* POST /pipeline/clear-failed *)

\* Seeded fault: clearing takes every card that is not VERIFIED.
ClearUnverified ==
  /\ jobs' = Drop(jobs, {p \in DOMAIN jobs : jobs[p].stage # "VERIFIED"})
  /\ UNCHANGED <<at, txChain, submitted, chain>>

ClearFailed ==
  /\ jobs' = Drop(jobs, {p \in DOMAIN jobs : jobs[p].stage = "FAILED"})
  /\ UNCHANGED <<at, txChain, submitted, chain>>

(* pruneDone, from the timer or a poll; which cards are old enough is open. *)
PruneDone(old) ==
  /\ old \subseteq {p \in DOMAIN jobs : jobs[p].stage = "VERIFIED"}
  /\ jobs' = Drop(jobs, old)
  /\ UNCHANGED <<at, txChain, submitted, chain>>

(* Everything but the chain is in memory. *)
Restart ==
  /\ Restarts
  /\ jobs' = [p \in {} |-> NoAgent]
  /\ at' = [p \in {} |-> NoAgent]
  /\ txChain' = << >>
  /\ UNCHANGED <<submitted, chain>>

-----------------------------------------------------------------------------
(***************************************************************************)
(* The chain, external: the wallet's transactions are mined in the order   *)
(* of their nonces; one may revert for reasons of its own (a fee that has  *)
(* changed since it was read).  "First-claim-wins": an agent's owner may   *)
(* register an identity without the submitter.                             *)
(***************************************************************************)
Mine ==
  /\ mempool # << >>
  /\ mempool' = Tail(mempool)
  /\ LET tx == Head(mempool)
     IN \E ok \in {FALSE, GatewayTakes(tx)} :
          /\ mined' = [t \in DOMAIN mined \cup {tx} |->
                         IF t = tx THEN ok ELSE mined[t]]
          /\ agentCommitments' =
               IF ok /\ tx.kind = "register"
               THEN [agentCommitments EXCEPT ![AgentOf[tx.by]] = CommitmentOf[tx.by]]
               ELSE agentCommitments
  /\ UNCHANGED <<jobs, at, txChain, submitted>>

OwnerRegisters(a, commitment) ==
  /\ agentCommitments[a] = ZERO32
  /\ agentCommitments' = [agentCommitments EXCEPT ![a] = commitment]
  /\ UNCHANGED <<jobs, at, txChain, submitted, mempool, mined>>

-----------------------------------------------------------------------------
RunPipeline(p) ==
  \/ KurierTakes(p) \/ KurierAggregates(p) \/ Relayed(p)
  \/ CommitmentNeeded(p) \/ CommitmentThere(p)
  \/ Register(p) \/ Registered(p) \/ FeeRead(p) \/ Record(p) \/ Recorded(p)
  \/ Fails(p) \/ GivesUp(p)

Next ==
  \/ \E bundles \in SUBSET Pipelines : SubmitResponse(bundles)
  \/ \E p \in Pipelines : RunPipeline(p) \/ KurierFinalizes(p)
  \/ ClearFailed
  \/ \E old \in SUBSET Pipelines : PruneDone(old)
  \/ Restart
  \/ Mine
  \/ \E a \in Agents, k \in OwnerIdentities : OwnerRegisters(a, k)

SubmitterSpec == Init /\ [][Next]_submitterVars

(***************************************************************************)
(* Every await of a pipeline comes back: the polls are bounded loops, the  *)
(* RPC client and its waits give up.  The chain and Kurier owe nothing.    *)
(***************************************************************************)
FairSubmitterSpec ==
  SubmitterSpec /\ \A p \in Pipelines : WF_submitterVars(RunPipeline(p))

-----------------------------------------------------------------------------
Places == {"kurier", "poll", "relay", "commit", "register", "registering",
           "fee", "record", "recording"}

(***************************************************************************)
(* The shape of the submitter's memory and of the chain.                   *)
(***************************************************************************)
SubmitterTypeOK ==
  /\ submitted \subseteq Pipelines
  /\ DOMAIN jobs \subseteq submitted
  /\ jobs \in [DOMAIN jobs -> Card]
  /\ DOMAIN at \subseteq DOMAIN jobs
  /\ at \in [DOMAIN at -> Places]
  /\ txChain \in Seq(DOMAIN at)
  /\ mempool \in Seq(Tx)
  /\ DOMAIN mined \subseteq Tx
  /\ mined \in [DOMAIN mined -> BOOLEAN]
  /\ agentCommitments \in [Agents -> Commitments \cup {ZERO32}]

(***************************************************************************)
(* "Serialize on-chain sends across concurrently-running bundles": at most *)
(* one pipeline is between its send and its receipt, it is the one at the  *)
(* head of the lock, and a transaction with no pipeline waiting for it was *)
(* given up or lost its submitter in a restart.                            *)
(***************************************************************************)
Awaits(p) ==
  IF Stands(p, "registering") THEN {RegisterTx(p)}
  ELSE IF Stands(p, "recording") THEN {RecordTx(p)} ELSE {}

OneSendAtATime ==
  /\ \A p \in DOMAIN at : Awaits(p) # {} => Sends(p)
  /\ \A i \in DOMAIN mempool :
       LET p == mempool[i].by IN
         \/ mempool[i] \in Awaits(p)
         \/ p \in DOMAIN jobs /\ jobs[p].error = "gave up"
         \/ p \notin DOMAIN jobs

(***************************************************************************)
(* "VERIFIED" means recorded: the transaction succeeded, under the         *)
(* identity the proof presents.  And a failure that is not a given-up wait *)
(* is one: nothing of it is on chain or will be.                           *)
(***************************************************************************)
Recordings(p) ==
  (RecordTx(p) \in DOMAIN mined /\ mined[RecordTx(p)])
    \/ \E i \in DOMAIN mempool : mempool[i] = RecordTx(p)

CardsAreTrue ==
  \A p \in DOMAIN jobs :
     /\ jobs[p].stage = "VERIFIED" =>
          /\ RecordTx(p) \in DOMAIN mined /\ mined[RecordTx(p)]
          /\ agentCommitments[AgentOf[p]] = CommitmentOf[p]
     /\ jobs[p].stage = "FAILED" /\ jobs[p].error # "gave up" => ~Recordings(p)

(***************************************************************************)
(* A card never moves back, a card that is over does not change, and a     *)
(* card goes away only when it is over or the submitter restarts.          *)
(***************************************************************************)
StageRank(stage) ==
  CASE stage = "SUBMITTED" -> 0 [] stage = "FINALIZED" -> 1
    [] stage = "AGGREGATED" -> 2 [] stage = "RELAYING" -> 3
    [] stage = "RECORDING" -> 4 [] OTHER -> 5

CardsMoveForward ==
  [][\A p \in DOMAIN jobs :
       LET over == jobs[p].stage \in Terminal
       IN IF p \in DOMAIN jobs'
          THEN /\ StageRank(jobs'[p].stage) >= StageRank(jobs[p].stage)
               /\ over => jobs'[p] = jobs[p]
          ELSE over \/ DOMAIN at' = {}]_submitterVars

(***************************************************************************)
(* Every pipeline ends, in the order of no one's convenience: one that     *)
(* fails or waits in vain does not hold up the sends behind it.            *)
(***************************************************************************)
PipelinesEnd ==
  \A p \in Pipelines : (p \in DOMAIN at) ~> (p \notin DOMAIN at)

(***************************************************************************)
(* The comment on ensureCommitment: "No-op when: already registered".  No  *)
(* pipeline fails to register the very identity its agent already has.     *)
(***************************************************************************)
RegisteredIsNoOp ==
  \A p \in DOMAIN jobs :
     jobs[p].error = "taken" => agentCommitments[AgentOf[p]] # CommitmentOf[p]

=============================================================================
