-------------------------- MODULE SubmitterProofs ---------------------------
(***************************************************************************)
(* The marketplace submitter, for any number of bundles, agents and        *)
(* identities: sends do not overlap, the cards tell what is on chain and   *)
(* move forward only.  At the end, what readers see of them through the    *)
(* read-proxy, for any number of readers and fetches.                      *)
(***************************************************************************)
EXTENDS PipelineView, SequenceTheorems, TLAPS

-----------------------------------------------------------------------------
(***************************************************************************)
(* Queues without repetitions: one joins at the end, the first one leaves. *)
(***************************************************************************)
LEMMA JoinQueue ==
  ASSUME NEW S, NEW s \in Seq(S), NEW x \in S
  PROVE  /\ Append(s, x) \in Seq(S) /\ Append(s, x) # << >>
         /\ Range(Append(s, x)) = Range(s) \cup {x}
         /\ s # << >> => Head(Append(s, x)) = Head(s)
         /\ IsInjective(s) /\ x \notin Range(s) => IsInjective(Append(s, x))
<1>. DEFINE t == Append(s, x)
<1>1. /\ t \in Seq(S) /\ Len(s) \in Nat /\ Len(t) = Len(s) + 1
      /\ DOMAIN s = 1..Len(s) /\ DOMAIN t = 1..(Len(s) + 1)
      /\ \A i \in 1..Len(s) : t[i] = s[i]
      /\ t[Len(s) + 1] = x
  OBVIOUS
<1>. HIDE DEF t
<1>2. \A i \in DOMAIN t : i \in DOMAIN s \/ i = Len(s) + 1
  BY <1>1
<1>3. Range(t) = Range(s) \cup {x}
  <2>1. ASSUME NEW y \in Range(t) PROVE y \in Range(s) \cup {x}
    BY <1>1, <1>2, <2>1 DEF Range
  <2>2. ASSUME NEW y \in Range(s) PROVE y \in Range(t)
    <3>1. PICK i \in DOMAIN s : y = s[i]
      BY <2>2 DEF Range
    <3>2. i \in DOMAIN t /\ t[i] = y
      BY <1>1, <3>1
    <3>. QED
      BY <3>2 DEF Range
  <2>3. x \in Range(t)
    <3>1. Len(s) + 1 \in DOMAIN t
      BY <1>1
    <3>. QED
      BY <1>1, <3>1 DEF Range
  <2>. QED
    BY <2>1, <2>2, <2>3
<1>4. t # << >>
  BY <1>1
<1>5. s # << >> => Head(t) = Head(s)
  BY <1>1
<1>6. IsInjective(s) /\ x \notin Range(s) => IsInjective(t)
  <2>. SUFFICES ASSUME IsInjective(s), x \notin Range(s),
                       NEW i \in DOMAIN t, NEW j \in DOMAIN t, t[i] = t[j]
                PROVE  i = j
    BY DEF IsInjective
  <2>1. \A k \in DOMAIN s : t[k] = s[k] /\ s[k] # x
    BY <1>1 DEF Range
  <2>. QED
    BY <1>1, <1>2, <2>1 DEF IsInjective
<1>. QED
  BY <1>1, <1>3, <1>4, <1>5, <1>6 DEF t

LEMMA LeaveQueue ==
  ASSUME NEW S, NEW s \in Seq(S), s # << >>, IsInjective(s)
  PROVE  /\ Tail(s) \in Seq(S) /\ Head(s) \in S /\ Head(s) \in Range(s)
         /\ Range(Tail(s)) = Range(s) \ {Head(s)}
         /\ IsInjective(Tail(s))
<1>. DEFINE t == Tail(s)
<1>1. /\ t \in Seq(S) /\ Head(s) \in S /\ Len(s) \in Nat \ {0} /\ Len(t) = Len(s) - 1
      /\ DOMAIN s = 1..Len(s) /\ DOMAIN t = 1..(Len(s) - 1)
      /\ \A i \in 1..(Len(s) - 1) : t[i] = s[i + 1]
      /\ Head(s) = s[1]
  BY HeadTailProperties, LenProperties
<1>. HIDE DEF t
<1>2. \A i \in DOMAIN t : i + 1 \in DOMAIN s /\ i + 1 # 1
  BY <1>1
<1>3. \A i \in DOMAIN s : i # 1 => i - 1 \in DOMAIN t /\ t[i - 1] = s[i]
  BY <1>1
<1>4. 1 \in DOMAIN s
  BY <1>1
<1>5. Range(t) = Range(s) \ {s[1]}
  <2>1. ASSUME NEW y \in Range(t) PROVE y \in Range(s) \ {s[1]}
    <3>1. PICK i \in DOMAIN t : y = t[i]
      BY <2>1 DEF Range
    <3>2. y = s[i + 1] /\ s[i + 1] # s[1]
      BY <1>1, <1>2, <1>4, <3>1 DEF IsInjective
    <3>. QED
      BY <1>2, <3>2 DEF Range
  <2>2. ASSUME NEW y \in Range(s) \ {s[1]} PROVE y \in Range(t)
    <3>1. PICK i \in DOMAIN s : y = s[i]
      BY <2>2 DEF Range
    <3>2. i # 1
      BY <2>2, <3>1
    <3>. QED
      BY <1>3, <3>1, <3>2 DEF Range
  <2>. QED
    BY <2>1, <2>2
<1>6. IsInjective(t)
  <2>. SUFFICES ASSUME NEW i \in DOMAIN t, NEW j \in DOMAIN t, t[i] = t[j]
                PROVE  i = j
    BY DEF IsInjective
  <2>1. s[i + 1] = s[j + 1]
    BY <1>1
  <2>2. i + 1 = j + 1
    BY <1>2, <2>1 DEF IsInjective
  <2>. QED
    BY <1>1, <2>2
<1>. QED
  BY <1>1, <1>4, <1>5, <1>6 DEF t, Range

-----------------------------------------------------------------------------
(***************************************************************************)
(* The invariant.  The lock is a queue of pipelines that stand where a     *)
(* send is made, each once, and who has sent is at its head; a transaction *)
(* is pending or mined, not both, and one by a running pipeline is the one *)
(* it waits for; a slot of the gateway that a recording relied on is set,  *)
(* and so never changes again.                                             *)
(***************************************************************************)
Queued == {"register", "registering", "record", "recording"}
Sent == {"registering", "recording"}

TypeInv ==
  /\ submitted \subseteq Pipelines
  /\ DOMAIN jobs \subseteq submitted
  /\ jobs \in [DOMAIN jobs -> Card]
  /\ DOMAIN at \subseteq DOMAIN jobs
  /\ at \in [DOMAIN at -> Places]
  /\ mempool \in Seq(Tx)
  /\ DOMAIN mined \subseteq Tx
  /\ mined \in [DOMAIN mined -> BOOLEAN]
  /\ agentCommitments \in [Agents -> Commitments \cup {ZERO32}]

QueueInv ==
  /\ txChain \in Seq(Pipelines)
  /\ IsInjective(txChain)
  /\ \A p \in Range(txChain) : p \in DOMAIN at /\ at[p] \in Queued
  /\ \A p \in DOMAIN at : at[p] \in Sent => Sends(p)

RunningInv ==
  \A p \in DOMAIN at : jobs[p].error = "none" /\ jobs[p].stage \notin Terminal

Pending == Range(mempool)

Known == Pending \cup DOMAIN mined

PoolInv ==
  /\ IsInjective(mempool)
  /\ Pending \cap DOMAIN mined = {}
  /\ \A tx \in Known : tx.by \in submitted

SentInv ==
  /\ \A p \in DOMAIN at :
       /\ RecordTx(p) \in Known => at[p] = "recording"
       /\ RegisterTx(p) \in Known => at[p] \in {"registering", "fee", "record", "recording"}
  /\ \A tx \in Pending :
       \/ tx \in Awaits(tx.by)
       \/ tx.by \in DOMAIN jobs /\ jobs[tx.by].error = "gave up"
       \/ tx.by \notin DOMAIN jobs

RecordedOk(p) == RecordTx(p) \in DOMAIN mined /\ mined[RecordTx(p)]

SlotInv ==
  \A p \in Pipelines : RecordedOk(p) =>
     /\ AgentOf[p] \in Agents
     /\ agentCommitments[AgentOf[p]] = CommitmentOf[p]
     /\ CommitmentOf[p] # ZERO32

CardInv ==
  \A p \in DOMAIN jobs :
     /\ jobs[p].stage = "VERIFIED" => RecordedOk(p)
     /\ jobs[p].stage = "FAILED" /\ jobs[p].error # "gave up" =>
          ~RecordedOk(p) /\ RecordTx(p) \notin Pending

ChainInv == PoolInv /\ SlotInv

CardsInv == RunningInv /\ SentInv /\ CardInv

SubInv == TypeInv /\ QueueInv /\ ChainInv /\ CardsInv

-----------------------------------------------------------------------------
LEMMA TxFacts ==
  /\ \A p \in Pipelines : RegisterTx(p) \in Tx /\ RecordTx(p) \in Tx
  /\ \A p : RegisterTx(p).by = p /\ RecordTx(p).by = p
  /\ \A p : RegisterTx(p).kind = "register" /\ RecordTx(p).kind = "record"
  /\ \A tx \in Tx : /\ tx.by \in Pipelines
                    /\ tx = RegisterTx(tx.by) \/ tx = RecordTx(tx.by)
                    /\ tx.kind = "register" => tx = RegisterTx(tx.by)
                    /\ tx.kind = "record" => tx = RecordTx(tx.by)
  /\ \A p, q : RegisterTx(p) # RecordTx(q)
BY DEF Tx, RegisterTx, RecordTx

LEMMA PendingTx == ASSUME TypeInv PROVE Pending \subseteq Tx /\ Known \subseteq Tx
<1>1. DOMAIN mempool = 1..Len(mempool) /\ \A i \in 1..Len(mempool) : mempool[i] \in Tx
  BY LenProperties, ElementOfSeq DEF TypeInv
<1>. QED
  BY <1>1 DEF Pending, Known, Range, TypeInv

LEMMA EmptyFunction ==
  ASSUME NEW x
  PROVE  DOMAIN [y \in {} |-> x] = {} /\ \A S : [y \in {} |-> x] \in [{} -> S]
OBVIOUS

LEMMA EmptyQueue ==
  ASSUME NEW S
  PROVE  << >> \in Seq(S) /\ Range(<< >>) = {} /\ IsInjective(<< >>)
BY DEF Range, IsInjective

LEMMA InitInv == Init => SubInv
<1>. SUFFICES ASSUME Init PROVE SubInv
  OBVIOUS
<1>1. /\ DOMAIN jobs = {} /\ DOMAIN at = {} /\ DOMAIN mined = {}
      /\ jobs \in [{} -> Card] /\ at \in [{} -> Places] /\ mined \in [{} -> BOOLEAN]
  BY EmptyFunction, Zenon DEF Init
<1>2. /\ submitted = {} /\ txChain = << >> /\ mempool = << >>
      /\ agentCommitments = [a \in Agents |-> ZERO32]
  BY DEF Init
<1>3. Pending = {} /\ Known = {}
  BY <1>1, <1>2, EmptyQueue DEF Pending, Known
<1>4. TypeInv
  <2>1. agentCommitments \in [Agents -> Commitments \cup {ZERO32}]
    BY <1>2
  <2>2. mempool \in Seq(Tx)
    BY <1>2, EmptyQueue, Zenon
  <2>. QED
    BY <1>1, <1>2, <2>1, <2>2, Zenon DEF TypeInv
<1>5. QueueInv
  BY <1>1, <1>2, EmptyQueue DEF QueueInv
<1>6. PoolInv /\ SlotInv
  BY <1>1, <1>2, <1>3, EmptyQueue DEF PoolInv, SlotInv, RecordedOk
<1>7. CardsInv
  BY <1>1, <1>3 DEF CardsInv, RunningInv, SentInv, CardInv
<1>. QED
  BY <1>4, <1>5, <1>6, <1>7 DEF SubInv, ChainInv

-----------------------------------------------------------------------------
(***************************************************************************)
(* What the invariant says of one running pipeline.                        *)
(***************************************************************************)
LEMMA OwnPending ==
  ASSUME NEW p \in DOMAIN at, SubInv
  PROVE  /\ p \in DOMAIN jobs /\ p \in Pipelines /\ jobs[p] \in Card /\ at[p] \in Places
         /\ jobs[p].error = "none" /\ jobs[p].stage \notin Terminal
         /\ RegisterTx(p) \in Pending => at[p] = "registering"
         /\ RecordTx(p) \in Pending => at[p] = "recording"
<1>1. /\ p \in DOMAIN jobs /\ p \in Pipelines /\ jobs[p] \in Card /\ at[p] \in Places
      /\ jobs[p].error = "none" /\ jobs[p].stage \notin Terminal
  BY DEF SubInv, TypeInv, CardsInv, RunningInv
<1>2. ASSUME NEW tx \in Pending, tx.by = p PROVE tx \in Awaits(p)
  BY <1>1, <1>2 DEF SubInv, CardsInv, SentInv
<1>3. RegisterTx(p) \in Pending => at[p] = "registering"
  BY <1>2, TxFacts DEF Awaits, Stands
<1>4. RecordTx(p) \in Pending => at[p] = "recording"
  BY <1>2, TxFacts DEF Awaits, Stands
<1>. QED
  BY <1>1, <1>3, <1>4

(***************************************************************************)
(* A running pipeline moves on, and the chain stays: it may leave a place  *)
(* where it waits only when the transaction is not pending any more.       *)
(***************************************************************************)
LEMMA MoveInv ==
  ASSUME NEW p \in DOMAIN at, NEW place \in Places, SubInv,
         UNCHANGED <<submitted, chain>>,
         at' = [at EXCEPT ![p] = place],
         \/ jobs' = jobs
         \/ \E stage \in PipelineStages \ Terminal : jobs' = [jobs EXCEPT ![p].stage = stage],
         RecordTx(p) \in Known => place = "recording",
         RegisterTx(p) \in Known => place \in {"registering", "fee", "record", "recording"},
         RegisterTx(p) \in Pending => place = "registering"
  PROVE  TypeInv' /\ ChainInv' /\ CardsInv'
<1>. USE DEF chain
<1>1. Pending' = Pending /\ Known' = Known
  BY DEF Pending, Known
<1>2. /\ p \in DOMAIN jobs /\ p \in Pipelines /\ jobs[p] \in Card
      /\ jobs[p].error = "none" /\ jobs[p].stage \notin Terminal
      /\ jobs \in [DOMAIN jobs -> Card] /\ at \in [DOMAIN at -> Places]
  BY OwnPending DEF SubInv, TypeInv
<1>3. /\ at' \in [DOMAIN at -> Places] /\ DOMAIN at' = DOMAIN at /\ at'[p] = place
      /\ \A q \in DOMAIN at : q # p => at'[q] = at[q]
  BY <1>2
<1>4. /\ jobs' \in [DOMAIN jobs -> Card] /\ DOMAIN jobs' = DOMAIN jobs
      /\ jobs'[p].error = "none" /\ jobs'[p].stage \notin Terminal
      /\ \A q \in DOMAIN jobs : q # p => jobs'[q] = jobs[q]
  BY <1>2 DEF Card
<1>5. TypeInv'
  BY <1>3, <1>4 DEF SubInv, TypeInv
<1>6. ChainInv'
  BY <1>1 DEF SubInv, ChainInv, PoolInv, SlotInv, RecordedOk
<1>7. RunningInv'
  <2>1. ASSUME NEW q \in DOMAIN at'
        PROVE  jobs'[q].error = "none" /\ jobs'[q].stage \notin Terminal
    <3>1. q \in DOMAIN jobs /\ q \in DOMAIN at
      BY <1>3 DEF SubInv, TypeInv
    <3>2. q # p => jobs'[q] = jobs[q]
      BY <1>4, <3>1
    <3>. QED
      BY <1>4, <3>1, <3>2 DEF SubInv, CardsInv, RunningInv
  <2>. QED
    BY <2>1 DEF RunningInv
<1>8. SentInv'
  <2>1. ASSUME NEW q \in DOMAIN at
        PROVE  /\ RecordTx(q) \in Known => at'[q] = "recording"
               /\ RegisterTx(q) \in Known =>
                    at'[q] \in {"registering", "fee", "record", "recording"}
    BY <1>3 DEF SubInv, CardsInv, SentInv
  <2>2. ASSUME NEW tx \in Pending
        PROVE  \/ tx \in Awaits(tx.by)'
               \/ tx.by \in DOMAIN jobs' /\ jobs'[tx.by].error = "gave up"
               \/ tx.by \notin DOMAIN jobs'
    <3>1. CASE tx.by = p
      <4>1. tx = RegisterTx(p) \/ tx = RecordTx(p)
        BY <3>1, TxFacts, PendingTx DEF SubInv
      <4>2. tx = RegisterTx(p) => place = "registering"
        OBVIOUS
      <4>3. tx = RecordTx(p) => place = "recording"
        BY DEF Known
      <4>. QED
        BY <1>3, <3>1, <4>1, <4>2, <4>3 DEF Awaits, Stands
    <3>2. CASE tx.by # p
      <4>1. Awaits(tx.by)' = Awaits(tx.by)
        BY <1>3, <3>2 DEF Awaits, Stands
      <4>2. tx.by \in DOMAIN jobs => jobs'[tx.by] = jobs[tx.by]
        BY <1>4, <3>2
      <4>. QED
        BY <1>4, <4>1, <4>2 DEF SubInv, CardsInv, SentInv
    <3>. QED
      BY <3>1, <3>2
  <2>. QED
    BY <1>1, <1>3, <2>1, <2>2 DEF SentInv
<1>9. CardInv'
  <2>1. \A q : RecordedOk(q)' = RecordedOk(q)
    BY DEF RecordedOk
  <2>2. ASSUME NEW q \in DOMAIN jobs'
        PROVE  /\ jobs'[q].stage = "VERIFIED" => RecordedOk(q)
               /\ jobs'[q].stage = "FAILED" /\ jobs'[q].error # "gave up" =>
                    ~RecordedOk(q) /\ RecordTx(q) \notin Pending
    BY <1>4 DEF SubInv, CardsInv, CardInv, Terminal
  <2>. QED
    BY <1>1, <2>1, <2>2 DEF CardInv
<1>. QED
  BY <1>5, <1>6, <1>7, <1>8, <1>9 DEF CardsInv

(***************************************************************************)
(* A running pipeline ends, with a card that is true.                      *)
(***************************************************************************)
LEMMA EndInv ==
  ASSUME NEW p \in DOMAIN at, NEW card \in Card, SubInv,
         UNCHANGED <<submitted, chain>>,
         at' = Drop(at, {p}),
         jobs' = [jobs EXCEPT ![p] = card],
         \/ card.error = "gave up" /\ card.stage = "FAILED"
         \/ /\ RegisterTx(p) \notin Pending /\ RecordTx(p) \notin Pending
            /\ card.stage = "VERIFIED" => RecordedOk(p)
            /\ card.stage = "FAILED" => ~RecordedOk(p)
  PROVE  TypeInv' /\ ChainInv' /\ CardsInv'
<1>. USE DEF chain
<1>1. Pending' = Pending /\ Known' = Known
  BY DEF Pending, Known
<1>2. /\ p \in DOMAIN jobs /\ p \in Pipelines
      /\ jobs \in [DOMAIN jobs -> Card] /\ at \in [DOMAIN at -> Places]
  BY OwnPending DEF SubInv, TypeInv
<1>3. /\ at' \in [DOMAIN at \ {p} -> Places] /\ DOMAIN at' = DOMAIN at \ {p}
      /\ \A q \in DOMAIN at : q # p => at'[q] = at[q]
  BY <1>2 DEF Drop, Restrict
<1>4. /\ jobs' \in [DOMAIN jobs -> Card] /\ DOMAIN jobs' = DOMAIN jobs
      /\ jobs'[p] = card
      /\ \A q \in DOMAIN jobs : q # p => jobs'[q] = jobs[q]
  BY <1>2
<1>5. TypeInv'
  BY <1>3, <1>4 DEF SubInv, TypeInv
<1>6. ChainInv'
  BY <1>1 DEF SubInv, ChainInv, PoolInv, SlotInv, RecordedOk
<1>7. RunningInv'
  <2>1. ASSUME NEW q \in DOMAIN at'
        PROVE  jobs'[q].error = "none" /\ jobs'[q].stage \notin Terminal
    <3>1. q \in DOMAIN at /\ q # p
      BY <1>3
    <3>2. jobs'[q] = jobs[q]
      BY <1>4, <3>1 DEF SubInv, TypeInv
    <3>. QED
      BY <3>1, <3>2 DEF SubInv, CardsInv, RunningInv
  <2>. QED
    BY <2>1 DEF RunningInv
<1>8. SentInv'
  <2>1. ASSUME NEW q \in DOMAIN at'
        PROVE  /\ RecordTx(q) \in Known => at'[q] = "recording"
               /\ RegisterTx(q) \in Known =>
                    at'[q] \in {"registering", "fee", "record", "recording"}
    BY <1>3 DEF SubInv, CardsInv, SentInv
  <2>2. ASSUME NEW tx \in Pending
        PROVE  \/ tx \in Awaits(tx.by)'
               \/ tx.by \in DOMAIN jobs' /\ jobs'[tx.by].error = "gave up"
               \/ tx.by \notin DOMAIN jobs'
    <3>1. CASE tx.by = p
      <4>1. tx = RegisterTx(p) \/ tx = RecordTx(p)
        BY <3>1, TxFacts, PendingTx DEF SubInv
      <4>. QED
        BY <1>2, <1>4, <3>1, <4>1
    <3>2. CASE tx.by # p
      <4>1. Awaits(tx.by)' = Awaits(tx.by)
        BY <1>3, <3>2 DEF Awaits, Stands
      <4>2. tx.by \in DOMAIN jobs => jobs'[tx.by] = jobs[tx.by]
        BY <1>4, <3>2
      <4>. QED
        BY <1>4, <4>1, <4>2 DEF SubInv, CardsInv, SentInv
    <3>. QED
      BY <3>1, <3>2
  <2>. QED
    BY <1>1, <2>1, <2>2 DEF SentInv
<1>9. CardInv'
  <2>1. \A q : RecordedOk(q)' = RecordedOk(q)
    BY DEF RecordedOk
  <2>2. ASSUME NEW q \in DOMAIN jobs'
        PROVE  /\ jobs'[q].stage = "VERIFIED" => RecordedOk(q)
               /\ jobs'[q].stage = "FAILED" /\ jobs'[q].error # "gave up" =>
                    ~RecordedOk(q) /\ RecordTx(q) \notin Pending
    BY <1>4 DEF SubInv, CardsInv, CardInv
  <2>. QED
    BY <1>1, <2>1, <2>2 DEF CardInv
<1>. QED
  BY <1>5, <1>6, <1>7, <1>8, <1>9 DEF CardsInv

-----------------------------------------------------------------------------
(***************************************************************************)
(* The lock, when a pipeline moves, asks for it, leaves it or ends.        *)
(***************************************************************************)
LEMMA Waiting ==
  ASSUME NEW p \in DOMAIN at, SubInv, at[p] \notin Queued
  PROVE  p \notin Range(txChain)
BY DEF SubInv, QueueInv

LEMMA QueueStays ==
  ASSUME NEW p \in DOMAIN at, NEW place \in Places, SubInv,
         txChain' = txChain, at' = [at EXCEPT ![p] = place],
         p \in Range(txChain) => place \in Queued,
         place \in Sent => Sends(p)
  PROVE  QueueInv'
<1>1. /\ DOMAIN at' = DOMAIN at /\ at'[p] = place
      /\ \A q \in DOMAIN at : q # p => at'[q] = at[q]
  BY DEF SubInv, TypeInv
<1>2. \A q : Sends(q)' = Sends(q)
  BY DEF Sends
<1>. QED
  BY <1>1, <1>2 DEF SubInv, QueueInv

LEMMA QueueJoined ==
  ASSUME NEW p \in DOMAIN at, NEW place \in Queued \ Sent, SubInv,
         at[p] \notin Queued, Enqueue(p, place)
  PROVE  QueueInv'
<1>1. /\ DOMAIN at' = DOMAIN at /\ at'[p] = place
      /\ \A q \in DOMAIN at : q # p => at'[q] = at[q]
      /\ txChain' = Append(txChain, p)
  BY DEF SubInv, TypeInv, Enqueue, Goto
<1>2. p \in Pipelines /\ p \notin Range(txChain)
  BY Waiting, OwnPending
<1>3. /\ txChain' \in Seq(Pipelines) /\ txChain' # << >>
      /\ Range(txChain') = Range(txChain) \cup {p}
      /\ txChain # << >> => Head(txChain') = Head(txChain)
      /\ IsInjective(txChain')
  BY <1>1, <1>2, JoinQueue DEF SubInv, QueueInv
<1>4. ASSUME NEW q \in Range(txChain') PROVE q \in DOMAIN at' /\ at'[q] \in Queued
  BY <1>1, <1>2, <1>3 DEF SubInv, QueueInv
<1>5. ASSUME NEW q \in DOMAIN at', at'[q] \in Sent PROVE Sends(q)'
  <2>1. q # p /\ at[q] \in Sent /\ q \in DOMAIN at
    BY <1>1, <1>5
  <2>2. Sends(q)
    BY <2>1 DEF SubInv, QueueInv
  <2>. QED
    BY <1>3, <2>2 DEF Sends
<1>. QED
  BY <1>3, <1>4, <1>5 DEF QueueInv

LEMMA QueueLeft ==
  ASSUME NEW p \in DOMAIN at, SubInv, Sends(p), txChain' = Tail(txChain),
         \/ at' = Drop(at, {p})
         \/ \E place \in Places \ Sent : at' = [at EXCEPT ![p] = place]
  PROVE  QueueInv'
<1>1. /\ DOMAIN at \ {p} \subseteq DOMAIN at' /\ DOMAIN at' \subseteq DOMAIN at
      /\ p \in DOMAIN at' => at'[p] \notin Sent
      /\ \A q \in DOMAIN at : q # p => at'[q] = at[q]
  BY DEF SubInv, TypeInv, Drop, Restrict
<1>2. /\ txChain' \in Seq(Pipelines) /\ IsInjective(txChain')
      /\ Range(txChain') = Range(txChain) \ {p}
  BY LeaveQueue DEF SubInv, QueueInv, Sends
<1>3. ASSUME NEW q \in Range(txChain') PROVE q \in DOMAIN at' /\ at'[q] \in Queued
  BY <1>1, <1>2 DEF SubInv, QueueInv
<1>4. ASSUME NEW q \in DOMAIN at', at'[q] \in Sent PROVE Sends(q)'
  <2>1. q # p /\ at[q] \in Sent /\ q \in DOMAIN at
    BY <1>1, <1>4
  <2>2. Sends(q)
    BY <2>1 DEF SubInv, QueueInv
  <2>. QED
    BY <2>1, <2>2 DEF Sends
<1>. QED
  BY <1>2, <1>3, <1>4 DEF QueueInv

LEMMA QueueSpared ==
  ASSUME NEW p \in DOMAIN at, SubInv, at[p] \notin Queued,
         txChain' = txChain, at' = Drop(at, {p})
  PROVE  QueueInv'
<1>1. /\ DOMAIN at' = DOMAIN at \ {p}
      /\ \A q \in DOMAIN at : q # p => at'[q] = at[q]
  BY DEF SubInv, TypeInv, Drop, Restrict
<1>2. p \notin Range(txChain)
  BY Waiting
<1>3. \A q : Sends(q)' = Sends(q)
  BY DEF Sends
<1>. QED
  BY <1>1, <1>2, <1>3 DEF SubInv, QueueInv

-----------------------------------------------------------------------------
(***************************************************************************)
(* The steps of a pipeline, from Kurier to the fee.                        *)
(***************************************************************************)
LEMMA PlainSteps ==
  ASSUME NEW p \in Pipelines, SubInv,
         \/ KurierTakes(p) \/ KurierAggregates(p) \/ Relayed(p) \/ CommitmentThere(p)
         \/ KurierFinalizes(p)
  PROVE  SubInv'
<1>1. PICK place \in {"poll", "relay", "commit", "fee"} :
        /\ p \in DOMAIN at /\ at[p] \in {"kurier", "poll", "relay", "commit"}
        /\ at' = [at EXCEPT ![p] = place]
        /\ \/ jobs' = jobs
           \/ \E stage \in PipelineStages \ Terminal : jobs' = [jobs EXCEPT ![p].stage = stage]
        /\ UNCHANGED <<txChain, submitted, chain>>
  <2>1. at = [at EXCEPT ![p] = at[p]]
    BY DEF SubInv, TypeInv
  <2>2. {"FINALIZED", "RELAYING", "RECORDING"} \subseteq PipelineStages \ Terminal
    BY DEF PipelineStages, Terminal
  <2>. QED
    BY <2>1, <2>2 DEF KurierTakes, KurierAggregates, Relayed, CommitmentThere,
                      KurierFinalizes, Stands, Goto, Upsert
<1>2. at[p] \notin Queued /\ place \in Places /\ place \notin Sent
  BY <1>1 DEF Queued, Sent, Places
<1>3. RecordTx(p) \notin Known /\ RegisterTx(p) \notin Known
  BY <1>1 DEF SubInv, CardsInv, SentInv
<1>4. QueueInv'
  BY <1>1, <1>2, QueueStays, Waiting
<1>5. TypeInv' /\ ChainInv' /\ CardsInv'
  BY <1>1, <1>2, <1>3, MoveInv DEF Known
<1>. QED
  BY <1>4, <1>5 DEF SubInv

LEMMA EnqueueSteps ==
  ASSUME NEW p \in Pipelines, SubInv, CommitmentNeeded(p) \/ FeeRead(p)
  PROVE  SubInv'
<1>1. PICK place \in Queued \ Sent :
        /\ p \in DOMAIN at /\ Enqueue(p, place)
        /\ \/ at[p] = "commit" /\ place = "register"
           \/ at[p] = "fee" /\ place = "record"
        /\ UNCHANGED <<jobs, submitted, chain>>
  BY DEF CommitmentNeeded, FeeRead, Stands, Queued, Sent
<1>2. at[p] \notin Queued /\ place \in Places
  BY <1>1 DEF Queued, Places
<1>3. /\ RecordTx(p) \notin Known /\ RegisterTx(p) \notin Pending
      /\ RegisterTx(p) \in Known => place = "record"
  BY <1>1, OwnPending DEF SubInv, CardsInv, SentInv
<1>4. QueueInv'
  BY <1>1, <1>2, QueueJoined
<1>5. TypeInv' /\ ChainInv' /\ CardsInv'
  BY <1>1, <1>2, <1>3, MoveInv DEF Enqueue, Goto
<1>. QED
  BY <1>4, <1>5 DEF SubInv

-----------------------------------------------------------------------------
(***************************************************************************)
(* At the head of the lock: a transaction is sent, which nobody has sent   *)
(* before; or its simulation reverts.                                      *)
(***************************************************************************)
LEMMA SendStep ==
  ASSUME NEW p \in Pipelines, SubInv, NEW tx, NEW place,
         \/ Stands(p, "register") /\ tx = RegisterTx(p) /\ place = "registering"
         \/ Stands(p, "record") /\ tx = RecordTx(p) /\ place = "recording",
         Send(p, tx, place)
  PROVE  SubInv'
<1>1. /\ p \in DOMAIN at /\ Sends(p) /\ mempool' = Append(mempool, tx)
      /\ at' = [at EXCEPT ![p] = place]
      /\ UNCHANGED <<jobs, txChain, submitted, mined, agentCommitments>>
      /\ place \in Places /\ place \in Sent /\ place \in Queued
  BY DEF Send, Goto, Stands, Places, Sent, Queued
<1>2. tx \in Tx /\ tx.by = p /\ tx \notin Known
  <2>1. /\ RegisterTx(p) \in Known => at[p] # "register"
        /\ RecordTx(p) \in Known => at[p] # "record"
    BY <1>1 DEF SubInv, CardsInv, SentInv
  <2>. QED
    BY <2>1, TxFacts DEF Stands
<1>3. /\ mempool' \in Seq(Tx) /\ Pending' = Pending \cup {tx} /\ IsInjective(mempool')
      /\ Known' = Known \cup {tx}
  <2>1. mempool \in Seq(Tx) /\ IsInjective(mempool) /\ tx \notin Range(mempool)
    BY <1>2 DEF SubInv, TypeInv, ChainInv, PoolInv, Known, Pending
  <2>2. /\ mempool' \in Seq(Tx) /\ IsInjective(mempool')
        /\ Range(mempool') = Range(mempool) \cup {tx}
    BY <1>1, <1>2, <2>1, JoinQueue
  <2>. QED
    BY <1>1, <2>2 DEF Pending, Known
<1>4. /\ at' \in [DOMAIN at -> Places] /\ DOMAIN at' = DOMAIN at /\ at'[p] = place
      /\ \A q \in DOMAIN at : q # p => at'[q] = at[q]
  BY <1>1 DEF SubInv, TypeInv
<1>5. QueueInv'
  BY <1>1, QueueStays
<1>6. TypeInv'
  BY <1>1, <1>3, <1>4 DEF SubInv, TypeInv
<1>7. PoolInv'
  <2>1. p \in submitted
    BY <1>1 DEF SubInv, TypeInv
  <2>. QED
    BY <1>1, <1>2, <1>3, <2>1 DEF SubInv, ChainInv, PoolInv, Known
<1>8. SlotInv'
  BY <1>1 DEF SubInv, ChainInv, SlotInv, RecordedOk
<1>9. RunningInv'
  BY <1>1, <1>4 DEF SubInv, CardsInv, RunningInv
<1>10. SentInv'
  <2>1. ASSUME NEW q \in DOMAIN at
        PROVE  /\ RecordTx(q) \in Known' => at'[q] = "recording"
               /\ RegisterTx(q) \in Known' =>
                    at'[q] \in {"registering", "fee", "record", "recording"}
    <3>1. CASE q = p
      <4>1. CASE tx = RegisterTx(p)
        <5>1. at[p] = "register" /\ place = "registering"
          BY <4>1, TxFacts DEF Stands
        <5>2. RecordTx(p) \notin Known'
          <6>1. RecordTx(p) \notin Known
            BY <1>1, <5>1 DEF SubInv, CardsInv, SentInv
          <6>2. RecordTx(p) # tx
            BY <4>1, TxFacts
          <6>. QED
            BY <1>3, <6>1, <6>2
        <5>. QED
          BY <1>4, <3>1, <5>1, <5>2
      <4>2. CASE tx = RecordTx(p)
        <5>1. place = "recording"
          BY <4>2, TxFacts
        <5>. QED
          BY <1>4, <3>1, <5>1
      <4>. QED
        BY <4>1, <4>2
    <3>2. CASE q # p
      <4>1. RecordTx(q) # tx /\ RegisterTx(q) # tx
        BY <1>2, <3>2, TxFacts
      <4>. QED
        BY <1>3, <1>4, <3>2, <4>1 DEF SubInv, CardsInv, SentInv
    <3>. QED
      BY <3>1, <3>2
  <2>2. ASSUME NEW t \in Pending'
        PROVE  \/ t \in Awaits(t.by)'
               \/ t.by \in DOMAIN jobs' /\ jobs'[t.by].error = "gave up"
               \/ t.by \notin DOMAIN jobs'
    <3>1. CASE t = tx
      <4>1. tx = RegisterTx(p) => place = "registering"
        BY TxFacts
      <4>2. tx = RecordTx(p) => place = "recording"
        BY TxFacts
      <4>. QED
        BY <1>2, <1>4, <3>1, <4>1, <4>2, <1>1 DEF Awaits, Stands
    <3>2. CASE t # tx
      <4>1. t \in Pending
        BY <1>3, <3>2
      <4>2. CASE t.by = p
        <5>1. t = RegisterTx(p) \/ t = RecordTx(p)
          BY <4>1, <4>2, TxFacts, PendingTx DEF SubInv
        <5>2. at[p] \in {"registering", "recording"}
          BY <1>1, <4>1, <5>1, OwnPending
        <5>. QED
          BY <5>2 DEF Stands
      <4>3. CASE t.by # p
        <5>1. Awaits(t.by)' = Awaits(t.by)
          BY <1>4, <4>3 DEF Awaits, Stands
        <5>. QED
          BY <1>1, <4>1, <5>1 DEF SubInv, CardsInv, SentInv
      <4>. QED
        BY <4>2, <4>3
    <3>. QED
      BY <3>1, <3>2
  <2>. QED
    BY <1>4, <2>1, <2>2 DEF SentInv
<1>11. CardInv'
  <2>1. \A q : RecordedOk(q)' = RecordedOk(q)
    BY <1>1 DEF RecordedOk
  <2>2. jobs[p].stage # "FAILED"
    BY <1>1 DEF SubInv, CardsInv, RunningInv, Terminal
  <2>3. \A q : q # p => RecordTx(q) # tx
    BY <1>2, TxFacts
  <2>. QED
    BY <1>1, <1>3, <2>1, <2>2, <2>3 DEF SubInv, CardsInv, CardInv
<1>. QED
  BY <1>5, <1>6, <1>7, <1>8, <1>9, <1>10, <1>11 DEF SubInv, ChainInv, CardsInv

(***************************************************************************)
(* A pipeline that fails where nothing of it is pending has failed truly:  *)
(* no recording of it can have succeeded before.                           *)
(***************************************************************************)
LEMMA FailedTruly ==
  ASSUME NEW p \in DOMAIN at, SubInv, at[p] \notin Sent
  PROVE  /\ RegisterTx(p) \notin Pending /\ RecordTx(p) \notin Pending
         /\ ~RecordedOk(p)
<1>1. RecordTx(p) \notin Known
  BY DEF SubInv, CardsInv, SentInv, Sent
<1>. QED
  BY <1>1, OwnPending DEF Sent, Known, RecordedOk

LEMMA FailureCards ==
  \A cause \in Causes : [stage |-> "FAILED", error |-> cause] \in Card
BY DEF Card, PipelineStages, Terminal

LEMMA HeadSteps ==
  ASSUME NEW p \in Pipelines, SubInv, Register(p) \/ Record(p) \/ Fails(p)
  PROVE  SubInv'
<1>1. CASE \/ Stands(p, "register") /\ Send(p, RegisterTx(p), "registering")
           \/ Stands(p, "record") /\ Send(p, RecordTx(p), "recording")
  BY <1>1, SendStep
<1>2. CASE \E cause \in {"taken", "refused", "other"} :
             /\ p \in DOMAIN at /\ at[p] \notin Sent
             /\ FailWith(p, cause)
             /\ \/ at[p] \notin Queued /\ txChain' = txChain
                \/ Sends(p) /\ txChain' = Tail(txChain)
             /\ UNCHANGED <<submitted, chain>>
  <2>1. PICK cause \in Causes :
          /\ p \in DOMAIN at /\ at[p] \notin Sent
          /\ FailWith(p, cause)
          /\ \/ at[p] \notin Queued /\ txChain' = txChain
             \/ Sends(p) /\ txChain' = Tail(txChain)
          /\ UNCHANGED <<submitted, chain>>
    BY <1>2 DEF Causes
  <2>2. QueueInv'
    BY <2>1, QueueSpared, QueueLeft DEF FailWith
  <2>. DEFINE card == [stage |-> "FAILED", error |-> cause]
  <2>3. card \in Card /\ card.stage = "FAILED"
    BY FailureCards
  <2>4. RegisterTx(p) \notin Pending /\ RecordTx(p) \notin Pending /\ ~RecordedOk(p)
    BY <2>1, FailedTruly
  <2>5. at' = Drop(at, {p}) /\ jobs' = [jobs EXCEPT ![p] = card]
    BY <2>1 DEF FailWith
  <2>. HIDE DEF card
  <2>6. TypeInv' /\ ChainInv' /\ CardsInv'
    BY <2>1, <2>3, <2>4, <2>5, EndInv
  <2>. QED
    BY <2>2, <2>6 DEF SubInv
<1>. QED
  BY <1>1, <1>2 DEF Register, Record, Fails, SimulationReverts, Stands, Queued, Sent

(***************************************************************************)
(* After the send: a receipt, or the wait for it is given up.              *)
(***************************************************************************)
LEMMA RegisteredStep ==
  ASSUME NEW p \in Pipelines, SubInv, Registered(p)
  PROVE  SubInv'
<1>1. /\ p \in DOMAIN at /\ at[p] = "registering" /\ Sends(p)
      /\ RegisterTx(p) \in DOMAIN mined
      /\ jobs' = [jobs EXCEPT ![p].stage = "RECORDING"]
      /\ at' = [at EXCEPT ![p] = "fee"]
      /\ txChain' = Tail(txChain) /\ UNCHANGED <<submitted, chain>>
  BY DEF Registered, Stands, Upsert, Goto, SubInv, QueueInv, Sent
<1>2. "fee" \in Places \ Sent /\ "RECORDING" \in PipelineStages \ Terminal
  BY DEF Places, Sent, PipelineStages, Terminal
<1>3. RegisterTx(p) \notin Pending /\ RecordTx(p) \notin Known
  BY <1>1 DEF SubInv, ChainInv, PoolInv, CardsInv, SentInv
<1>4. QueueInv'
  BY <1>1, <1>2, QueueLeft
<1>5. TypeInv' /\ ChainInv' /\ CardsInv'
  BY <1>1, <1>2, <1>3, MoveInv
<1>. QED
  BY <1>4, <1>5 DEF SubInv

LEMMA EndSteps ==
  ASSUME NEW p \in Pipelines, SubInv, Recorded(p) \/ GivesUp(p)
  PROVE  SubInv'
<1>1. PICK card \in Card :
        /\ p \in DOMAIN at /\ at[p] \in Sent
        /\ at' = Drop(at, {p}) /\ jobs' = [jobs EXCEPT ![p] = card]
        /\ txChain' = Tail(txChain) /\ UNCHANGED <<submitted, chain>>
        /\ \/ card.error = "gave up" /\ card.stage = "FAILED"
           \/ /\ at[p] = "recording" /\ RecordTx(p) \in DOMAIN mined
              /\ card.stage = "VERIFIED" => RecordedOk(p)
              /\ card.stage = "FAILED" => ~RecordedOk(p)
  <2>1. CASE GivesUp(p)
    <3>. DEFINE card == [stage |-> "FAILED", error |-> "gave up"]
    <3>1. card \in Card
      BY FailureCards DEF Causes
    <3>. QED
      BY <2>1, <3>1 DEF GivesUp, Stands, FailWith, Sent
  <2>2. CASE Recorded(p) /\ mined[RecordTx(p)]
    <3>. DEFINE card == [stage |-> "VERIFIED", error |-> jobs[p].error]
    <3>1. p \in DOMAIN at /\ at[p] = "recording"
      BY <2>2 DEF Recorded, Stands
    <3>2. p \in DOMAIN jobs /\ jobs[p] \in Card /\ jobs \in [DOMAIN jobs -> Card]
      BY <3>1, OwnPending DEF SubInv, TypeInv
    <3>3. card \in Card
      BY <3>2 DEF Card, PipelineStages, Terminal
    <3>4. [jobs EXCEPT ![p].stage = "VERIFIED"] = [jobs EXCEPT ![p] = card]
      <4>1. [jobs[p] EXCEPT !.stage = "VERIFIED"] = card
        BY <3>2 DEF Card
      <4>. HIDE DEF card
      <4>. QED
        BY <4>1
    <3>. QED
      BY <2>2, <3>1, <3>3, <3>4 DEF Recorded, Upsert, Sent, RecordedOk
  <2>3. CASE Recorded(p) /\ ~mined[RecordTx(p)]
    <3>. DEFINE card == [stage |-> "FAILED", error |-> "refused"]
    <3>1. card \in Card
      BY FailureCards DEF Causes
    <3>. QED
      BY <2>3, <3>1 DEF Recorded, Stands, FailWith, Sent, RecordedOk
  <2>. QED
    BY <2>1, <2>2, <2>3
<1>2. Sends(p)
  BY <1>1 DEF SubInv, QueueInv
<1>3. QueueInv'
  BY <1>1, <1>2, QueueLeft
<1>4. at[p] = "recording" /\ RecordTx(p) \in DOMAIN mined =>
        RegisterTx(p) \notin Pending /\ RecordTx(p) \notin Pending
  BY <1>1, OwnPending DEF SubInv, ChainInv, PoolInv
<1>5. TypeInv' /\ ChainInv' /\ CardsInv'
  BY <1>1, <1>4, EndInv
<1>. QED
  BY <1>3, <1>5 DEF SubInv

-----------------------------------------------------------------------------
(***************************************************************************)
(* What is not a pipeline's step: a response, a cleaning, a restart.       *)
(***************************************************************************)
LEMMA SubmitStep ==
  ASSUME NEW bundles \in SUBSET Pipelines, SubInv, SubmitResponse(bundles)
  PROVE  SubInv'
<1>. USE DEF SubmitResponse, chain
<1>1. Pending' = Pending /\ Known' = Known
  BY DEF Pending, Known
<1>2. bundles \cap DOMAIN jobs = {} /\ bundles \cap DOMAIN at = {}
  BY DEF SubInv, TypeInv
<1>3. /\ DOMAIN jobs' = DOMAIN jobs \cup bundles /\ DOMAIN at' = DOMAIN at \cup bundles
      /\ \A p \in DOMAIN jobs : jobs'[p] = jobs[p]
      /\ \A p \in DOMAIN at : at'[p] = at[p]
      /\ \A p \in bundles : /\ jobs'[p] = [stage |-> "SUBMITTED", error |-> "none"]
                            /\ at'[p] = "kurier"
  BY <1>2
<1>4. [stage |-> "SUBMITTED", error |-> "none"] \in Card /\ "kurier" \in Places
  BY DEF Card, PipelineStages, Causes, Places
<1>5. TypeInv'
  <2>1. jobs' \in [DOMAIN jobs' -> Card]
    BY <1>4 DEF SubInv, TypeInv
  <2>2. at' \in [DOMAIN at' -> Places]
    BY <1>4 DEF SubInv, TypeInv
  <2>. QED
    BY <1>3, <2>1, <2>2 DEF SubInv, TypeInv
<1>6. QueueInv'
  <2>1. \A p \in bundles : at'[p] \notin Sent
    BY <1>3 DEF Sent
  <2>2. \A p : Sends(p)' = Sends(p)
    BY DEF Sends
  <2>. QED
    BY <1>3, <2>1, <2>2 DEF SubInv, QueueInv
<1>7. ChainInv'
  BY <1>1 DEF SubInv, ChainInv, PoolInv, SlotInv, RecordedOk
<1>8. RunningInv'
  BY <1>3 DEF SubInv, TypeInv, CardsInv, RunningInv, Terminal
<1>9. SentInv'
  <2>1. \A p \in bundles : RecordTx(p) \notin Known /\ RegisterTx(p) \notin Known
    BY TxFacts DEF SubInv, ChainInv, PoolInv
  <2>2. ASSUME NEW p \in DOMAIN at'
        PROVE  /\ RecordTx(p) \in Known => at'[p] = "recording"
               /\ RegisterTx(p) \in Known =>
                    at'[p] \in {"registering", "fee", "record", "recording"}
    BY <1>3, <2>1 DEF SubInv, CardsInv, SentInv
  <2>3. ASSUME NEW tx \in Pending
        PROVE  \/ tx \in Awaits(tx.by)'
               \/ tx.by \in DOMAIN jobs' /\ jobs'[tx.by].error = "gave up"
               \/ tx.by \notin DOMAIN jobs'
    <3>1. tx.by \notin bundles
      BY DEF SubInv, ChainInv, PoolInv, Known
    <3>2. Awaits(tx.by)' = Awaits(tx.by)
      BY <1>3, <3>1 DEF Awaits, Stands
    <3>. QED
      BY <1>3, <3>1, <3>2 DEF SubInv, CardsInv, SentInv
  <2>. QED
    BY <1>1, <2>2, <2>3 DEF SentInv
<1>10. CardInv'
  <2>1. \A p : RecordedOk(p)' = RecordedOk(p)
    BY DEF RecordedOk
  <2>. QED
    BY <1>1, <1>3, <2>1 DEF SubInv, CardsInv, CardInv
<1>. QED
  BY <1>5, <1>6, <1>7, <1>8, <1>9, <1>10 DEF SubInv, CardsInv

LEMMA CleanStep ==
  ASSUME SubInv, NEW old, \A p \in old : p \in DOMAIN jobs /\ jobs[p].stage \in Terminal,
         jobs' = Drop(jobs, old), UNCHANGED <<at, txChain, submitted, chain>>
  PROVE  SubInv'
<1>. USE DEF chain
<1>1. Pending' = Pending /\ Known' = Known /\ \A p : RecordedOk(p)' = RecordedOk(p)
  BY DEF Pending, Known, RecordedOk
<1>2. /\ DOMAIN jobs' = DOMAIN jobs \ old /\ jobs' \in [DOMAIN jobs' -> Card]
      /\ \A p \in DOMAIN jobs' : jobs'[p] = jobs[p]
  BY DEF Drop, Restrict, SubInv, TypeInv
<1>3. \A p \in DOMAIN at : p \in DOMAIN jobs'
  BY <1>2 DEF SubInv, TypeInv, CardsInv, RunningInv
<1>4. TypeInv'
  BY <1>2, <1>3 DEF SubInv, TypeInv
<1>5. QueueInv'
  BY DEF SubInv, QueueInv, Sends
<1>6. ChainInv'
  BY <1>1 DEF SubInv, ChainInv, PoolInv, SlotInv
<1>7. RunningInv'
  BY <1>2, <1>3 DEF SubInv, CardsInv, RunningInv
<1>8. SentInv'
  <2>1. \A p : Awaits(p)' = Awaits(p)
    BY DEF Awaits, Stands
  <2>. QED
    BY <1>1, <1>2, <2>1 DEF SubInv, CardsInv, SentInv
<1>9. CardInv'
  BY <1>1, <1>2 DEF SubInv, CardsInv, CardInv
<1>. QED
  BY <1>4, <1>5, <1>6, <1>7, <1>8, <1>9 DEF SubInv, CardsInv

LEMMA RestartStep == ASSUME SubInv, Restart PROVE SubInv'
<1>. USE DEF chain
<1>1. /\ DOMAIN jobs' = {} /\ DOMAIN at' = {}
      /\ jobs' \in [{} -> Card] /\ at' \in [{} -> Places]
  BY EmptyFunction, Zenon DEF Restart
<1>2. txChain' = << >> /\ UNCHANGED <<submitted, chain>>
  BY DEF Restart
<1>3. Pending' = Pending /\ Known' = Known /\ \A p : RecordedOk(p)' = RecordedOk(p)
  BY <1>2 DEF Pending, Known, RecordedOk
<1>4. TypeInv'
  <2>1. DOMAIN jobs' \subseteq submitted' /\ DOMAIN at' \subseteq DOMAIN jobs'
    BY <1>1, Zenon
  <2>2. jobs' \in [DOMAIN jobs' -> Card] /\ at' \in [DOMAIN at' -> Places]
    BY <1>1, Zenon
  <2>. QED
    BY <1>2, <2>1, <2>2, Zenon DEF SubInv, TypeInv
<1>5. QueueInv'
  BY <1>1, <1>2, EmptyQueue DEF QueueInv
<1>6. ChainInv'
  BY <1>2, <1>3 DEF SubInv, ChainInv, PoolInv, SlotInv
<1>7. CardsInv'
  BY <1>1 DEF CardsInv, RunningInv, SentInv, CardInv
<1>. QED
  BY <1>4, <1>5, <1>6, <1>7 DEF SubInv

-----------------------------------------------------------------------------
(***************************************************************************)
(* The chain.  A transaction moves from pending to mined; a slot changes   *)
(* only while it is not set, and no recording has succeeded on such a one. *)
(***************************************************************************)
LEMMA SlotsKeep ==
  ASSUME SubInv, NEW a \in Agents, NEW k \in Commitments, agentCommitments[a] = ZERO32,
         agentCommitments' = [agentCommitments EXCEPT ![a] = k]
  PROVE  /\ agentCommitments' \in [Agents -> Commitments \cup {ZERO32}]
         /\ \A p \in Pipelines : RecordedOk(p) =>
              agentCommitments'[AgentOf[p]] = agentCommitments[AgentOf[p]]
BY DEF SubInv, TypeInv, ChainInv, SlotInv

LEMMA OwnerStep ==
  ASSUME SubInv, NEW a \in Agents, NEW k \in OwnerIdentities, OwnerRegisters(a, k)
  PROVE  SubInv'
<1>1. /\ agentCommitments' \in [Agents -> Commitments \cup {ZERO32}]
      /\ \A p \in Pipelines : RecordedOk(p) =>
           agentCommitments'[AgentOf[p]] = agentCommitments[AgentOf[p]]
  BY SlotsKeep, JournalAssumption DEF OwnerRegisters
<1>2. UNCHANGED <<jobs, at, txChain, submitted, mempool, mined>>
  BY DEF OwnerRegisters
<1>3. /\ Pending' = Pending /\ Known' = Known
      /\ \A p : RecordedOk(p)' = RecordedOk(p) /\ Awaits(p)' = Awaits(p)
  BY <1>2 DEF Pending, Known, RecordedOk, Awaits, Stands
<1>4. TypeInv'
  BY <1>1, <1>2 DEF SubInv, TypeInv
<1>5. QueueInv'
  BY <1>2 DEF SubInv, QueueInv, Sends
<1>6. ChainInv'
  BY <1>1, <1>2, <1>3 DEF SubInv, ChainInv, PoolInv, SlotInv
<1>7. CardsInv'
  BY <1>2, <1>3 DEF SubInv, CardsInv, RunningInv, SentInv, CardInv
<1>. QED
  BY <1>4, <1>5, <1>6, <1>7 DEF SubInv

LEMMA MineStep == ASSUME SubInv, Mine PROVE SubInv'
<1>. DEFINE tx == Head(mempool)
<1>1. PICK ok \in {FALSE, GatewayTakes(tx)} :
        /\ mempool # << >> /\ mempool' = Tail(mempool)
        /\ mined' = [t \in DOMAIN mined \cup {tx} |-> IF t = tx THEN ok ELSE mined[t]]
        /\ agentCommitments' =
             IF ok /\ tx.kind = "register"
             THEN [agentCommitments EXCEPT ![AgentOf[tx.by]] = CommitmentOf[tx.by]]
             ELSE agentCommitments
        /\ UNCHANGED <<jobs, at, txChain, submitted>>
  BY DEF Mine
<1>2. /\ mempool' \in Seq(Tx) /\ tx \in Tx /\ tx \in Pending
      /\ Pending' = Pending \ {tx} /\ IsInjective(mempool')
  BY <1>1, LeaveQueue DEF SubInv, TypeInv, ChainInv, PoolInv, Pending
<1>3. ok \in BOOLEAN /\ (ok => GatewayTakes(tx))
  BY <1>1 DEF GatewayTakes
<1>. HIDE DEF tx
<1>4. /\ DOMAIN mined' = DOMAIN mined \cup {tx} /\ tx \notin DOMAIN mined
      /\ mined'[tx] = ok
      /\ \A t \in DOMAIN mined : mined'[t] = mined[t]
      /\ mined' \in [DOMAIN mined' -> BOOLEAN]
  BY <1>1, <1>2, <1>3 DEF SubInv, TypeInv, ChainInv, PoolInv
<1>5. Known' = Known
  BY <1>2, <1>4 DEF Known
<1>6. /\ \A p : RecordedOk(p) => RecordedOk(p)'
      /\ \A p : RecordedOk(p)' => RecordedOk(p) \/ (tx = RecordTx(p) /\ ok)
      /\ \A p : Awaits(p)' = Awaits(p)
  BY <1>1, <1>4 DEF RecordedOk, Awaits, Stands
<1>7. /\ tx.by \in Pipelines
      /\ ok => /\ AgentOf[tx.by] \in Agents
               /\ tx.kind = "register" => agentCommitments[AgentOf[tx.by]] = ZERO32
               /\ tx.kind = "record" =>
                    /\ agentCommitments[AgentOf[tx.by]] = CommitmentOf[tx.by]
                    /\ CommitmentOf[tx.by] # ZERO32
      /\ tx.kind \in {"register", "record"}
  BY <1>2, <1>3, TxFacts, JournalAssumption DEF GatewayTakes, Tx
<1>8. /\ agentCommitments' \in [Agents -> Commitments \cup {ZERO32}]
      /\ \A p \in Pipelines : RecordedOk(p) =>
           agentCommitments'[AgentOf[p]] = agentCommitments[AgentOf[p]]
  <2>1. CASE ok /\ tx.kind = "register"
    <3>1. CommitmentOf[tx.by] \in Commitments \cup {ZERO32}
      BY <1>7, JournalAssumption
    <3>2. agentCommitments' = [agentCommitments EXCEPT ![AgentOf[tx.by]] = CommitmentOf[tx.by]]
      BY <1>1, <2>1
    <3>3. \A p \in Pipelines : RecordedOk(p) => AgentOf[p] # AgentOf[tx.by]
      BY <1>7, <2>1 DEF SubInv, ChainInv, SlotInv
    <3>. QED
      BY <1>7, <2>1, <3>1, <3>2, <3>3 DEF SubInv, TypeInv, ChainInv, SlotInv
  <2>2. CASE ~(ok /\ tx.kind = "register")
    BY <1>1, <2>2 DEF SubInv, TypeInv
  <2>. QED
    BY <2>1, <2>2
<1>9. TypeInv'
  BY <1>1, <1>2, <1>4, <1>8 DEF SubInv, TypeInv
<1>10. QueueInv'
  BY <1>1 DEF SubInv, QueueInv, Sends
<1>11. PoolInv'
  <2>1. Pending' \cap DOMAIN mined' = {}
    BY <1>2, <1>4 DEF SubInv, ChainInv, PoolInv
  <2>. QED
    BY <1>1, <1>2, <1>5, <2>1 DEF SubInv, ChainInv, PoolInv
<1>12. SlotInv'
  <2>. SUFFICES ASSUME NEW p \in Pipelines, RecordedOk(p)'
                PROVE  /\ AgentOf[p] \in Agents
                       /\ agentCommitments'[AgentOf[p]] = CommitmentOf[p]
                       /\ CommitmentOf[p] # ZERO32
    BY DEF SlotInv
  <2>1. CASE RecordedOk(p)
    BY <1>8, <2>1 DEF SubInv, ChainInv, SlotInv
  <2>2. CASE tx = RecordTx(p) /\ ok
    <3>1. tx.by = p /\ tx.kind = "record"
      BY <2>2, TxFacts
    <3>2. agentCommitments' = agentCommitments
      BY <1>1, <3>1
    <3>. QED
      BY <1>7, <2>2, <3>1, <3>2
  <2>. QED
    BY <1>6, <2>1, <2>2
<1>13. RunningInv'
  BY <1>1 DEF SubInv, CardsInv, RunningInv
<1>14. SentInv'
  BY <1>1, <1>2, <1>5, <1>6 DEF SubInv, CardsInv, SentInv
<1>15. CardInv'
  <2>1. ASSUME NEW p \in DOMAIN jobs, jobs[p].stage = "FAILED", jobs[p].error # "gave up"
        PROVE  ~RecordedOk(p)' /\ RecordTx(p) \notin Pending'
    <3>1. ~RecordedOk(p) /\ RecordTx(p) \notin Pending
      BY <2>1 DEF SubInv, CardsInv, CardInv
    <3>. QED
      BY <1>2, <1>6, <3>1
  <2>. QED
    BY <1>1, <1>6, <2>1 DEF SubInv, CardsInv, CardInv
<1>. QED
  BY <1>9, <1>10, <1>11, <1>12, <1>13, <1>14, <1>15 DEF SubInv, ChainInv, CardsInv

-----------------------------------------------------------------------------
LEMMA SubmitterStep == SubInv /\ [Next]_submitterVars => SubInv'
<1>. SUFFICES ASSUME SubInv, [Next]_submitterVars PROVE SubInv'
  OBVIOUS
<1>1. ASSUME NEW bundles \in SUBSET Pipelines, SubmitResponse(bundles) PROVE SubInv'
  BY <1>1, SubmitStep
<1>2. ASSUME NEW p \in Pipelines, RunPipeline(p) \/ KurierFinalizes(p) PROVE SubInv'
  BY <1>2, PlainSteps, EnqueueSteps, HeadSteps, RegisteredStep, EndSteps DEF RunPipeline
<1>3. CASE ClearFailed
  BY <1>3, CleanStep DEF ClearFailed, Terminal
<1>4. ASSUME NEW old \in SUBSET Pipelines, PruneDone(old) PROVE SubInv'
  BY <1>4, CleanStep DEF PruneDone, Terminal
<1>5. CASE Restart
  BY <1>5, RestartStep
<1>6. CASE Mine
  BY <1>6, MineStep
<1>7. ASSUME NEW a \in Agents, NEW k \in OwnerIdentities, OwnerRegisters(a, k) PROVE SubInv'
  BY <1>7, OwnerStep
<1>8. CASE UNCHANGED submitterVars
  <2>. USE <1>8 DEF submitterVars
  <2>1. /\ Pending' = Pending /\ Known' = Known
        /\ \A p : RecordedOk(p)' = RecordedOk(p) /\ Awaits(p)' = Awaits(p)
    BY DEF Pending, Known, RecordedOk, Awaits, Stands
  <2>2. TypeInv' /\ QueueInv'
    BY DEF SubInv, TypeInv, QueueInv, Sends
  <2>3. ChainInv' /\ CardsInv'
    BY <2>1 DEF SubInv, ChainInv, PoolInv, SlotInv, CardsInv, RunningInv, SentInv, CardInv
  <2>. QED
    BY <2>2, <2>3 DEF SubInv
<1>. QED
  BY <1>1, <1>2, <1>3, <1>4, <1>5, <1>6, <1>7, <1>8 DEF Next

LEMMA SubmitterInvariant == SubmitterSpec => []SubInv
<1>1. Init => SubInv
  BY InitInv
<1>2. SubInv /\ [Next]_submitterVars => SubInv'
  BY SubmitterStep
<1>. QED
  BY <1>1, <1>2, PTL DEF SubmitterSpec

(***************************************************************************)
(* The submitter's memory and the chain keep their shape; a pipeline in    *)
(* the queue of the lock is running (withTxLock).                          *)
(***************************************************************************)
THEOREM SubmitterTypes == SubmitterSpec => []SubmitterTypeOK
<1>1. ASSUME SubInv PROVE SubmitterTypeOK
  <2>1. txChain \in Seq(DOMAIN at)
    <3>1. txChain \in [1..Len(txChain) -> DOMAIN at] /\ Len(txChain) \in Nat
      BY <1>1 DEF SubInv, QueueInv, Range
    <3>. QED
      BY <3>1, SeqDef
  <2>. QED
    BY <1>1, <2>1 DEF SubInv, TypeInv, SubmitterTypeOK
<1>. QED
  BY <1>1, SubmitterInvariant, PTL

(***************************************************************************)
(* "Serialize on-chain sends across concurrently-running bundles": however *)
(* many pipelines run, one at a time is between its send and its receipt,  *)
(* and it holds the lock.                                                  *)
(***************************************************************************)
THEOREM OneSend == SubmitterSpec => []OneSendAtATime
<1>1. ASSUME SubInv PROVE OneSendAtATime
  <2>1. ASSUME NEW p \in DOMAIN at, Awaits(p) # {} PROVE Sends(p)
    <3>1. at[p] \in Sent
      BY <2>1 DEF Awaits, Stands, Sent
    <3>. QED
      BY <1>1, <3>1 DEF SubInv, QueueInv
  <2>2. ASSUME NEW i \in DOMAIN mempool
        PROVE  \/ mempool[i] \in Awaits(mempool[i].by)
               \/ /\ mempool[i].by \in DOMAIN jobs
                  /\ jobs[mempool[i].by].error = "gave up"
               \/ mempool[i].by \notin DOMAIN jobs
    <3>1. mempool[i] \in Pending
      BY DEF Pending, Range
    <3>. QED
      BY <1>1, <3>1 DEF SubInv, CardsInv, SentInv
  <2>. QED
    BY <2>1, <2>2 DEF OneSendAtATime
<1>. QED
  BY <1>1, SubmitterInvariant, PTL

(***************************************************************************)
(* "VERIFIED" means recorded, under the identity that the proof presents,  *)
(* and a failure that is not a given-up wait leaves nothing on chain       *)
(* (runPipeline and its catch).                                            *)
(***************************************************************************)
THEOREM TrueCards == SubmitterSpec => []CardsAreTrue
<1>1. ASSUME SubInv PROVE CardsAreTrue
  <2>. SUFFICES ASSUME NEW p \in DOMAIN jobs
                PROVE  /\ jobs[p].stage = "VERIFIED" =>
                            /\ RecordTx(p) \in DOMAIN mined /\ mined[RecordTx(p)]
                            /\ agentCommitments[AgentOf[p]] = CommitmentOf[p]
                       /\ jobs[p].stage = "FAILED" /\ jobs[p].error # "gave up" =>
                            ~Recordings(p)
    BY DEF CardsAreTrue
  <2>1. p \in Pipelines
    BY <1>1 DEF SubInv, TypeInv
  <2>2. \A i \in DOMAIN mempool : mempool[i] \in Pending
    BY DEF Pending, Range
  <2>. QED
    BY <1>1, <2>1, <2>2 DEF SubInv, CardsInv, CardInv, ChainInv, SlotInv, RecordedOk, Recordings
<1>. QED
  BY <1>1, SubmitterInvariant, PTL

-----------------------------------------------------------------------------
(***************************************************************************)
(* Cards move forward.  Upsert writes whatever stage it is given; what     *)
(* keeps it from writing an earlier one is where the pipeline stands.      *)
(***************************************************************************)
StagesAt(place) ==
  CASE place = "kurier" -> {"SUBMITTED"}
    [] place = "poll" -> {"SUBMITTED", "FINALIZED"}
    [] place \in {"relay", "commit", "register", "registering"} -> {"RELAYING"}
    [] OTHER -> {"RECORDING"}

PlaceInv == \A p \in DOMAIN at : jobs[p].stage \in StagesAt(at[p])

PlacedInv == SubInv /\ PlaceInv

CardsMove ==
  \A p \in DOMAIN jobs :
    LET over == jobs[p].stage \in Terminal
    IN IF p \in DOMAIN jobs'
       THEN /\ StageRank(jobs'[p].stage) >= StageRank(jobs[p].stage)
            /\ over => jobs'[p] = jobs[p]
       ELSE over \/ DOMAIN at' = {}

(* A card that is new is of a bundle that is, so no card comes back. *)
NewCards ==
  /\ submitted \subseteq submitted'
  /\ \A p \in DOMAIN jobs' \ DOMAIN jobs : p \in submitted' \ submitted

Moved == PlaceInv' /\ CardsMove /\ NewCards

LEMMA RankFacts ==
  /\ \A stage : StageRank(stage) \in 0..5
  /\ \A stage \in Terminal : StageRank(stage) = 5
BY DEF StageRank, Terminal

LEMMA UpsertFacts ==
  /\ \A stage \in StagesAt("poll") :
       /\ StageRank("FINALIZED") >= StageRank(stage)
       /\ StageRank("RELAYING") >= StageRank(stage)
  /\ \A place \in {"commit", "registering"} : \A stage \in StagesAt(place) :
       StageRank("RECORDING") >= StageRank(stage)
  /\ "FINALIZED" \in StagesAt("poll") /\ "RELAYING" \in StagesAt("relay")
  /\ "RECORDING" \in StagesAt("fee")
BY DEF StagesAt, StageRank

(***************************************************************************)
(* A pipeline that moves on, one that ends, and cards that are left alone. *)
(***************************************************************************)
LEMMA CardMoves ==
  ASSUME PlacedInv, NEW p \in DOMAIN at, NEW place \in Places,
         at' = [at EXCEPT ![p] = place], UNCHANGED submitted,
         \/ jobs' = jobs /\ jobs[p].stage \in StagesAt(place)
         \/ \E stage \in StagesAt(place) :
               /\ jobs' = [jobs EXCEPT ![p].stage = stage]
               /\ StageRank(stage) >= StageRank(jobs[p].stage)
  PROVE  Moved
<1>1. /\ p \in DOMAIN jobs /\ jobs[p] \in Card /\ jobs[p].stage \notin Terminal
      /\ DOMAIN at \subseteq DOMAIN jobs
  BY OwnPending DEF PlacedInv, SubInv, TypeInv
<1>2. /\ DOMAIN at' = DOMAIN at /\ at'[p] = place
      /\ \A q \in DOMAIN at : q # p => at'[q] = at[q]
  BY DEF PlacedInv, SubInv, TypeInv
<1>3. /\ DOMAIN jobs' = DOMAIN jobs
      /\ \A q \in DOMAIN jobs : q # p => jobs'[q] = jobs[q]
      /\ jobs'[p].stage \in StagesAt(place)
      /\ StageRank(jobs'[p].stage) >= StageRank(jobs[p].stage)
  BY <1>1, RankFacts DEF Card
<1>4. PlaceInv'
  BY <1>1, <1>2, <1>3 DEF PlacedInv, PlaceInv
<1>5. CardsMove
  BY <1>1, <1>3, RankFacts DEF CardsMove
<1>. QED
  BY <1>3, <1>4, <1>5 DEF Moved, NewCards

LEMMA CardEnds ==
  ASSUME PlacedInv, NEW p \in DOMAIN at, at' = Drop(at, {p}), UNCHANGED submitted,
         DOMAIN jobs' = DOMAIN jobs, jobs'[p].stage \in Terminal,
         \A q \in DOMAIN jobs : q # p => jobs'[q] = jobs[q]
  PROVE  Moved
<1>1. p \in DOMAIN jobs /\ jobs[p].stage \notin Terminal /\ DOMAIN at \subseteq DOMAIN jobs
  BY OwnPending DEF PlacedInv, SubInv, TypeInv
<1>2. DOMAIN at' = DOMAIN at \ {p} /\ \A q \in DOMAIN at' : at'[q] = at[q]
  BY DEF Drop, Restrict
<1>3. PlaceInv'
  BY <1>1, <1>2 DEF PlacedInv, PlaceInv
<1>4. CardsMove
  BY <1>1, RankFacts DEF CardsMove
<1>. QED
  BY <1>3, <1>4 DEF Moved, NewCards

LEMMA CardsStay ==
  ASSUME PlacedInv, UNCHANGED <<at, submitted>>,
         DOMAIN jobs' \subseteq DOMAIN jobs,
         \A p \in DOMAIN jobs' : jobs'[p] = jobs[p],
         \A p \in DOMAIN jobs \ DOMAIN jobs' : jobs[p].stage \in Terminal
  PROVE  Moved
<1>1. DOMAIN at \subseteq DOMAIN jobs'
  BY OwnPending DEF PlacedInv
<1>2. PlaceInv'
  BY <1>1 DEF PlacedInv, PlaceInv
<1>3. CardsMove
  BY RankFacts DEF CardsMove
<1>. QED
  BY <1>2, <1>3 DEF Moved, NewCards

LEMMA SubmitMoves ==
  ASSUME PlacedInv, NEW bundles \in SUBSET Pipelines, SubmitResponse(bundles)
  PROVE  Moved
<1>1. /\ bundles \cap DOMAIN jobs = {} /\ DOMAIN at \subseteq DOMAIN jobs
      /\ submitted' = submitted \cup bundles /\ bundles \cap submitted = {}
  BY DEF SubmitResponse, PlacedInv, SubInv, TypeInv
<1>2. /\ DOMAIN jobs' = DOMAIN jobs \cup bundles /\ DOMAIN at' = DOMAIN at \cup bundles
      /\ \A p \in DOMAIN jobs : jobs'[p] = jobs[p]
      /\ \A p \in DOMAIN at : at'[p] = at[p]
      /\ \A p \in bundles : jobs'[p].stage = "SUBMITTED" /\ at'[p] = "kurier"
  BY <1>1 DEF SubmitResponse
<1>3. PlaceInv'
  BY <1>1, <1>2 DEF PlacedInv, PlaceInv, StagesAt
<1>4. CardsMove
  BY <1>2, RankFacts DEF CardsMove
<1>. QED
  BY <1>1, <1>2, <1>3, <1>4 DEF Moved, NewCards

LEMMA PipelineMoves ==
  ASSUME PlacedInv, NEW p \in Pipelines, RunPipeline(p) \/ KurierFinalizes(p)
  PROVE  Moved
<1>1. /\ p \in DOMAIN at => jobs[p].stage \in StagesAt(at[p])
      /\ jobs \in [DOMAIN jobs -> Card]
      /\ p \in DOMAIN at => p \in DOMAIN jobs
  BY DEF PlacedInv, PlaceInv, SubInv, TypeInv
<1>2. CASE KurierTakes(p)
  BY <1>1, <1>2, CardMoves DEF KurierTakes, Stands, Goto, StagesAt, Places
<1>3. CASE KurierFinalizes(p)
  <2>1. at' = [at EXCEPT ![p] = "poll"] /\ p \in DOMAIN at /\ at[p] = "poll"
    BY <1>3 DEF KurierFinalizes, Stands, PlacedInv, SubInv, TypeInv
  <2>. QED
    BY <1>1, <1>3, <2>1, CardMoves, UpsertFacts DEF KurierFinalizes, Upsert, Places
<1>4. CASE KurierAggregates(p)
  BY <1>1, <1>4, CardMoves, UpsertFacts DEF KurierAggregates, Upsert, Stands, Goto, Places
<1>5. CASE Relayed(p)
  BY <1>1, <1>5, CardMoves DEF Relayed, Stands, Goto, StagesAt, Places
<1>6. CASE CommitmentNeeded(p)
  BY <1>1, <1>6, CardMoves DEF CommitmentNeeded, Enqueue, Stands, Goto, StagesAt, Places
<1>7. CASE CommitmentThere(p)
  BY <1>1, <1>7, CardMoves, UpsertFacts DEF CommitmentThere, Upsert, Stands, Goto, Places
<1>8. CASE Registered(p)
  BY <1>1, <1>8, CardMoves, UpsertFacts DEF Registered, Upsert, Stands, Goto, Places
<1>9. CASE FeeRead(p)
  BY <1>1, <1>9, CardMoves DEF FeeRead, Enqueue, Stands, Goto, StagesAt, Places
<1>10. ASSUME p \in DOMAIN at, UNCHANGED submitted, NEW cause, FailWith(p, cause)
       PROVE  Moved
  <2>1. /\ at' = Drop(at, {p}) /\ DOMAIN jobs' = DOMAIN jobs
        /\ jobs'[p].stage \in Terminal
        /\ \A q \in DOMAIN jobs : q # p => jobs'[q] = jobs[q]
    BY <1>1, <1>10 DEF FailWith, Terminal
  <2>. QED
    BY <1>10, <2>1, CardEnds
<1>11. CASE Register(p)
  <2>1. CASE Send(p, RegisterTx(p), "registering")
    BY <1>1, <1>11, <2>1, CardMoves DEF Register, Send, Stands, Goto, StagesAt, Places
  <2>2. CASE SimulationReverts(p, RegisterTx(p), "taken")
    BY <1>10, <1>11, <2>2 DEF Register, SimulationReverts, Stands
  <2>. QED
    BY <1>11, <2>1, <2>2 DEF Register
<1>12. CASE Record(p)
  <2>1. CASE Send(p, RecordTx(p), "recording")
    BY <1>1, <1>12, <2>1, CardMoves DEF Record, Send, Stands, Goto, StagesAt, Places
  <2>2. CASE SimulationReverts(p, RecordTx(p), "refused")
    BY <1>10, <1>12, <2>2 DEF Record, SimulationReverts, Stands
  <2>. QED
    BY <1>12, <2>1, <2>2 DEF Record
<1>13. CASE Recorded(p)
  <2>1. p \in DOMAIN at /\ UNCHANGED submitted
    BY <1>13 DEF Recorded, Stands
  <2>2. CASE mined[RecordTx(p)]
    <3>1. at' = Drop(at, {p}) /\ jobs' = [jobs EXCEPT ![p].stage = "VERIFIED"]
      BY <1>13, <2>2 DEF Recorded, Upsert
    <3>2. /\ DOMAIN jobs' = DOMAIN jobs /\ jobs'[p].stage \in Terminal
          /\ \A q \in DOMAIN jobs : q # p => jobs'[q] = jobs[q]
      BY <1>1, <2>1, <3>1 DEF Card, Terminal
    <3>. QED
      BY <2>1, <3>1, <3>2, CardEnds
  <2>3. CASE ~mined[RecordTx(p)]
    BY <1>10, <1>13, <2>1, <2>3 DEF Recorded
  <2>. QED
    BY <2>2, <2>3
<1>14. CASE Fails(p)
  BY <1>10, <1>14 DEF Fails
<1>15. CASE GivesUp(p)
  BY <1>10, <1>15 DEF GivesUp, Stands
<1>. QED
  BY <1>2, <1>3, <1>4, <1>5, <1>6, <1>7, <1>8, <1>9, <1>11, <1>12, <1>13, <1>14, <1>15
     DEF RunPipeline

LEMMA CardsMoved == ASSUME PlacedInv, [Next]_submitterVars PROVE Moved
<1>1. CASE ClearFailed
  BY <1>1, CardsStay DEF ClearFailed, Drop, Restrict, Terminal
<1>2. ASSUME NEW old, PruneDone(old) PROVE Moved
  BY <1>2, CardsStay DEF PruneDone, Drop, Restrict, Terminal
<1>3. CASE Restart
  <2>1. DOMAIN jobs' = {} /\ DOMAIN at' = {} /\ UNCHANGED submitted
    BY <1>3, EmptyFunction, Zenon DEF Restart
  <2>. QED
    BY <2>1 DEF Moved, PlaceInv, CardsMove, NewCards
<1>4. CASE Mine
  BY <1>4, CardsStay DEF Mine
<1>5. ASSUME NEW a, NEW k, OwnerRegisters(a, k) PROVE Moved
  BY <1>5, CardsStay DEF OwnerRegisters
<1>6. CASE UNCHANGED submitterVars
  BY <1>6, CardsStay DEF submitterVars
<1>. QED
  BY <1>1, <1>2, <1>3, <1>4, <1>5, <1>6, SubmitMoves, PipelineMoves DEF Next

LEMMA PlacedInit == Init => PlacedInv
<1>1. Init => DOMAIN at = {}
  BY EmptyFunction, Zenon DEF Init
<1>. QED
  BY <1>1, InitInv DEF PlacedInv, PlaceInv

LEMMA PlacedInvariant == SubmitterSpec => []PlacedInv
<1>1. PlacedInv /\ [Next]_submitterVars => PlacedInv'
  BY SubmitterStep, CardsMoved DEF PlacedInv, Moved
<1>. QED
  BY <1>1, PlacedInit, PTL DEF SubmitterSpec

(***************************************************************************)
(* The UI's cards (upsert, prune, clear-failed): none moves back, none     *)
(* that is over changes, and none goes before it is over except in a       *)
(* restart.                                                                *)
(***************************************************************************)
THEOREM ForwardCards == SubmitterSpec => CardsMoveForward
<1>1. PlacedInv /\ [Next]_submitterVars => [CardsMove]_submitterVars
  BY CardsMoved DEF Moved
<1>. QED
  BY <1>1, PlacedInvariant, PTL DEF SubmitterSpec, CardsMoveForward, CardsMove

-----------------------------------------------------------------------------
(***************************************************************************)
(* The invariant.  A card is nowhere further than in the submitter: what   *)
(* was last shown comes no later than what an answered fetch brings, which *)
(* comes no later than the submitter's card; the cache holds what was last *)
(* shown.  That the misses share one fetch is what keeps an older answer   *)
(* from arriving after a newer one.  A card that the submitter no longer   *)
(* has does not come back, so these relations need no card on both sides.  *)
(***************************************************************************)
NoLater(card, than) == StageRank(than.stage) >= StageRank(card.stage)

AllNoLater(cards, than) ==
  \A p \in DOMAIN cards \cap DOMAIN than : NoLater(cards[p], than[p])

OneFetch == \A f, g \in DOMAIN inflight : f = g

FetchOrdered(fetch) ==
  /\ DOMAIN fetch.cards \subseteq submitted
  /\ AllNoLater(fetch.cards, jobs)
  /\ AllNoLater(shown, fetch.cards)

CacheIsShown ==
  cache # None =>
    \A p \in DOMAIN cache.cards : p \in DOMAIN shown /\ shown[p] = cache.cards[p]

OrderInv ==
  /\ OneFetch
  /\ DOMAIN shown \subseteq submitted
  /\ AllNoLater(shown, jobs)
  /\ \A f \in DOMAIN inflight : FetchOrdered(inflight[f])
  /\ CacheIsShown

(***************************************************************************)
(* And for the cleared cards: they have left the submitter, and a fetch    *)
(* that no clear overlaps was answered without them.                       *)
(***************************************************************************)
FetchClear(fetch) ==
  ~fetch.overlaps => clearing = None /\ DOMAIN fetch.cards \cap gone = {}

ClearedInv ==
  /\ gone \subseteq submitted \ DOMAIN jobs
  /\ clearing # None => clearing \subseteq submitted \ DOMAIN jobs
  /\ \A f \in DOMAIN inflight : FetchClear(inflight[f])
  /\ ClearShows

Fetch == [answered : BOOLEAN, cards : UNION {[S -> Card] : S \in SUBSET Pipelines},
          overlaps : BOOLEAN]

FetchType == inflight \in [DOMAIN inflight -> Fetch]

ViewInv == PlacedInv /\ FetchType /\ OrderInv /\ ClearedInv

ShownMoves ==
  \A p \in DOMAIN shown : StageRank(shown'[p].stage) >= StageRank(shown[p].stage)

-----------------------------------------------------------------------------
(***************************************************************************)
(* A step of the submitter: cards move forward, and none comes back.       *)
(***************************************************************************)
LEMMA JobsAhead ==
  ASSUME PlacedInv, Moved, NEW cards, DOMAIN cards \subseteq submitted,
         AllNoLater(cards, jobs)
  PROVE  AllNoLater(cards, jobs')
<1>. SUFFICES ASSUME NEW p \in DOMAIN cards \cap DOMAIN jobs'
              PROVE  NoLater(cards[p], jobs'[p])
  BY DEF AllNoLater
<1>1. p \in DOMAIN jobs
  BY DEF Moved, NewCards
<1>2. /\ StageRank(jobs'[p].stage) >= StageRank(jobs[p].stage)
      /\ StageRank(jobs[p].stage) >= StageRank(cards[p].stage)
  BY <1>1 DEF Moved, CardsMove, AllNoLater, NoLater
<1>. QED
  BY <1>2, RankFacts DEF NoLater

LEMMA GoneStays ==
  ASSUME PlacedInv, Moved, NEW cards, cards \subseteq submitted \ DOMAIN jobs
  PROVE  cards \subseteq submitted' \ DOMAIN jobs'
BY DEF Moved, NewCards

LEMMA PipelineStep ==
  ASSUME ViewInv, [Next]_submitterVars, UNCHANGED viewVars
  PROVE  ViewInv' /\ ShownMoves
<1>. USE DEF viewVars
<1>1. PlacedInv' /\ Moved
  BY SubmitterStep, CardsMoved DEF ViewInv, PlacedInv, Moved
<1>2. FetchType'
  BY DEF ViewInv, FetchType
<1>3. OrderInv'
  <2>1. ASSUME NEW f \in DOMAIN inflight PROVE FetchOrdered(inflight[f])'
    <3>1. /\ DOMAIN inflight[f].cards \subseteq submitted
          /\ AllNoLater(inflight[f].cards, jobs) /\ AllNoLater(shown, inflight[f].cards)
      BY DEF ViewInv, OrderInv, FetchOrdered
    <3>2. AllNoLater(inflight[f].cards, jobs')
      BY <1>1, <3>1, JobsAhead DEF ViewInv
    <3>. QED
      BY <1>1, <3>1, <3>2 DEF FetchOrdered, AllNoLater, Moved, NewCards
  <2>2. AllNoLater(shown, jobs')
    BY <1>1, JobsAhead DEF ViewInv, OrderInv
  <2>. QED
    BY <1>1, <2>1, <2>2
       DEF ViewInv, OrderInv, OneFetch, CacheIsShown, AllNoLater, Moved, NewCards
<1>4. ClearedInv'
  <2>1. gone \subseteq submitted' \ DOMAIN jobs'
    BY <1>1, GoneStays DEF ViewInv, ClearedInv
  <2>2. clearing # None => clearing \subseteq submitted' \ DOMAIN jobs'
    BY <1>1, GoneStays DEF ViewInv, ClearedInv
  <2>. QED
    BY <2>1, <2>2 DEF ViewInv, ClearedInv, FetchClear, ClearShows
<1>5. ShownMoves
  BY RankFacts DEF ShownMoves
<1>. QED
  BY <1>1, <1>2, <1>3, <1>4, <1>5 DEF ViewInv

(***************************************************************************)
(* The proxy's own steps, which leave the submitter alone.                 *)
(***************************************************************************)
LEMMA SameCards ==
  ASSUME PlacedInv, UNCHANGED submitterVars
  PROVE  PlacedInv'
BY SubmitterStep, CardsMoved DEF PlacedInv, Moved

LEMMA PollStep ==
  ASSUME ViewInv, NEW r, PollHit(r) \/ PollJoins(r) \/ CacheAges
  PROVE  ViewInv' /\ ShownMoves
<1>1. UNCHANGED <<submitterVars, inflight, clearing, gone>>
  BY DEF PollHit, PollJoins, CacheAges
<1>2. PlacedInv'
  BY <1>1, SameCards DEF ViewInv
<1>3. /\ DOMAIN shown' = DOMAIN shown /\ \A p \in DOMAIN shown : shown'[p] = shown[p]
      /\ cache' # None => cache # None /\ cache'.cards = cache.cards
                          /\ cache'.overlaps = cache.overlaps
  <2>1. CASE PollHit(r)
    BY <2>1 DEF PollHit, Fresh, Show, ViewInv, OrderInv, CacheIsShown
  <2>2. CASE PollJoins(r)
    BY <2>2 DEF PollJoins
  <2>3. CASE CacheAges
    <3>1. cache' = [cache EXCEPT !.fresh = FALSE] /\ UNCHANGED shown
      BY <2>3 DEF CacheAges
    <3>2. cache'.cards = cache.cards /\ cache'.overlaps = cache.overlaps
      BY <3>1
    <3>. QED
      BY <2>3, <3>1, <3>2 DEF CacheAges
  <2>. QED
    BY <2>1, <2>2, <2>3
<1>4. FetchType'
  BY <1>1 DEF ViewInv, FetchType
<1>5. OrderInv'
  BY <1>1, <1>3 DEF submitterVars, ViewInv, OrderInv, OneFetch, CacheIsShown, AllNoLater,
                    FetchOrdered
<1>6. ClearedInv'
  BY <1>1, <1>3 DEF submitterVars, ViewInv, ClearedInv, FetchClear, ClearShows
<1>7. ShownMoves
  BY <1>3, RankFacts DEF ShownMoves
<1>. QED
  BY <1>2, <1>4, <1>5, <1>6, <1>7 DEF ViewInv

(* A fetch that is asked for holds no card yet, and is the only one. *)
LEMMA FetchStep ==
  ASSUME ViewInv, NEW r, PollFetches(r)
  PROVE  ViewInv' /\ ShownMoves
<1>1. UNCHANGED <<submitterVars, cache, clearing, shown, gone>>
  BY DEF PollFetches
<1>2. PlacedInv'
  BY <1>1, SameCards DEF ViewInv
<1>3. /\ NewFetch \in Fetch /\ DOMAIN NewFetch.cards = {}
      /\ NewFetch.overlaps = (clearing # None)
  <2>1. DOMAIN NoCards = {} /\ NoCards \in [{} -> Card]
    BY EmptyFunction, Zenon DEF NoCards
  <2>2. NoCards \in UNION {[S -> Card] : S \in SUBSET Pipelines}
    BY <2>1
  <2>. QED
    BY <2>1, <2>2 DEF NewFetch, Fetch
<1>4. PICK f : inflight' = [x \in {f} |-> NewFetch]
  BY DEF PollFetches
<1>5. DOMAIN inflight' = {f} /\ inflight'[f] = NewFetch
  BY <1>4
<1>6. FetchType'
  BY <1>3, <1>4 DEF FetchType
<1>7. OrderInv'
  <2>1. FetchOrdered(NewFetch)'
    <3>1. /\ NewFetch.cards = NoCards /\ NewFetch'.cards = NoCards /\ DOMAIN NoCards = {}
      BY <1>3 DEF NewFetch, NoCards
    <3>. QED
      BY <3>1 DEF FetchOrdered, AllNoLater
  <2>2. NewFetch' = NewFetch
    BY <1>1 DEF NewFetch
  <2>3. \A x \in DOMAIN inflight' : inflight'[x] = NewFetch'
    BY <1>5, <2>2
  <2>. QED
    BY <1>1, <1>5, <2>1, <2>3
       DEF submitterVars, ViewInv, OrderInv, OneFetch, CacheIsShown, AllNoLater, FetchOrdered
<1>8. ClearedInv'
  BY <1>1, <1>3, <1>5 DEF submitterVars, ViewInv, ClearedInv, FetchClear, ClearShows
<1>9. ShownMoves
  BY <1>1, RankFacts DEF ShownMoves
<1>. QED
  BY <1>2, <1>6, <1>7, <1>8, <1>9 DEF ViewInv

(***************************************************************************)
(* The submitter answers with its cards of this moment: they are as far as *)
(* it is, and none of them was cleared.                                    *)
(***************************************************************************)
LEMMA AnswerStep ==
  ASSUME ViewInv, NEW f, FetchAnswered(f)
  PROVE  ViewInv' /\ ShownMoves
<1>1. /\ f \in DOMAIN inflight /\ UNCHANGED <<cache, waiting, clearing, shown, gone>>
      /\ inflight' = [inflight EXCEPT ![f].answered = TRUE, ![f].cards = jobs']
  BY DEF FetchAnswered
<1>2. Next
  <2>1. PICK old \in SUBSET DOMAIN jobs : PruneDone(old)
    BY DEF FetchAnswered
  <2>2. old \in SUBSET Pipelines
    BY DEF ViewInv, PlacedInv, SubInv, TypeInv
  <2>. QED
    BY <2>1, <2>2 DEF Next
<1>3. PlacedInv' /\ Moved
  BY <1>2, SubmitterStep, CardsMoved DEF ViewInv, PlacedInv, Moved
<1>4. /\ DOMAIN jobs' \subseteq submitted' /\ jobs' \in [DOMAIN jobs' -> Card]
      /\ submitted' \subseteq Pipelines
  BY <1>3 DEF PlacedInv, SubInv, TypeInv
<1>5. /\ DOMAIN inflight' = {f} /\ DOMAIN inflight = {f}
      /\ inflight'[f] = [inflight[f] EXCEPT !.answered = TRUE, !.cards = jobs']
      /\ inflight[f] \in Fetch
  BY <1>1 DEF ViewInv, OrderInv, OneFetch, FetchType
<1>6. /\ inflight'[f].cards = jobs' /\ inflight'[f].overlaps = inflight[f].overlaps
      /\ inflight'[f] \in Fetch
  <2>1. jobs' \in UNION {[S -> Card] : S \in SUBSET Pipelines}
    BY <1>4
  <2>. QED
    BY <1>5, <2>1 DEF Fetch
<1>7. FetchType'
  <2>1. inflight' = [x \in {f} |-> inflight'[x]]
    BY <1>1, <1>5
  <2>. QED
    BY <1>5, <1>6, <2>1 DEF FetchType
<1>8. AllNoLater(shown, jobs')
  BY <1>3, JobsAhead DEF ViewInv, OrderInv
<1>9. OrderInv'
  <2>1. AllNoLater(jobs', jobs')
    BY RankFacts DEF AllNoLater, NoLater
  <2>2. FetchOrdered(inflight[f])'
    BY <1>1, <1>4, <1>6, <1>8, <2>1 DEF FetchOrdered, AllNoLater
  <2>3. \A x \in DOMAIN inflight' : FetchOrdered(inflight[x])'
    BY <1>5, <2>2 DEF FetchOrdered
  <2>4. DOMAIN shown' \subseteq submitted' /\ AllNoLater(shown, jobs)'
    BY <1>1, <1>3, <1>8 DEF ViewInv, OrderInv, AllNoLater, Moved, NewCards
  <2>. QED
    BY <1>1, <1>5, <2>3, <2>4 DEF ViewInv, OrderInv, OneFetch, CacheIsShown
<1>10. ClearedInv'
  <2>1. gone \subseteq submitted' \ DOMAIN jobs'
    BY <1>3, GoneStays DEF ViewInv, ClearedInv
  <2>2. clearing # None => clearing \subseteq submitted' \ DOMAIN jobs'
    BY <1>3, GoneStays DEF ViewInv, ClearedInv
  <2>3. FetchClear(inflight[f])'
    BY <1>1, <1>5, <1>6, <2>1 DEF ViewInv, ClearedInv, FetchClear
  <2>. QED
    BY <1>1, <1>5, <2>1, <2>2, <2>3 DEF ViewInv, ClearedInv, FetchClear, ClearShows
<1>11. ShownMoves
  BY <1>1, RankFacts DEF ShownMoves
<1>. QED
  BY <1>3, <1>7, <1>9, <1>10, <1>11 DEF ViewInv

(* What arrives, be it an answer or the empty list of a failed fetch. *)
LEMMA ArriveStep ==
  ASSUME ViewInv, NEW f, FetchArrives(f)
  PROVE  ViewInv' /\ ShownMoves
<1>1. /\ f \in DOMAIN inflight /\ UNCHANGED <<submitterVars, clearing, gone>>
      /\ inflight' = Drop(inflight, {f})
  BY DEF FetchArrives
<1>2. PICK cards \in {inflight[f].cards, NoCards} :
        /\ cache' = [cards |-> cards, fresh |-> TRUE, overlaps |-> inflight[f].overlaps]
        /\ Show(cards)
  BY DEF FetchArrives
<1>3. DOMAIN inflight' = {} /\ DOMAIN inflight = {f}
  <2>1. DOMAIN inflight = {f}
    BY <1>1 DEF ViewInv, OrderInv, OneFetch
  <2>. QED
    BY <1>1, <2>1 DEF Drop, Restrict
<1>4. /\ DOMAIN cards \subseteq submitted /\ AllNoLater(cards, jobs)
      /\ AllNoLater(shown, cards)
      /\ ~inflight[f].overlaps => DOMAIN cards \cap gone = {}
  <2>1. CASE cards = inflight[f].cards
    BY <1>1, <2>1 DEF ViewInv, OrderInv, FetchOrdered, ClearedInv, FetchClear
  <2>2. CASE cards = NoCards
    <3>1. DOMAIN cards = {}
      BY <2>2, EmptyFunction, Zenon DEF NoCards
    <3>. QED
      BY <3>1 DEF AllNoLater
  <2>. QED
    BY <2>1, <2>2
<1>5. /\ DOMAIN shown' = DOMAIN shown \cup DOMAIN cards
      /\ \A p \in DOMAIN cards : shown'[p] = cards[p]
      /\ \A p \in DOMAIN shown \ DOMAIN cards : shown'[p] = shown[p]
  BY <1>2 DEF Show
<1>6. PlacedInv'
  BY <1>1, SameCards DEF ViewInv
<1>7. FetchType'
  BY <1>3, <1>1 DEF FetchType, Drop, Restrict
<1>8. OrderInv'
  <2>1. DOMAIN shown' \subseteq submitted' /\ OneFetch'
    BY <1>1, <1>3, <1>4, <1>5 DEF submitterVars, ViewInv, OrderInv, OneFetch
  <2>2. AllNoLater(shown, jobs)'
    BY <1>1, <1>4, <1>5 DEF submitterVars, ViewInv, OrderInv, AllNoLater
  <2>3. CacheIsShown'
    BY <1>2, <1>5 DEF CacheIsShown
  <2>. QED
    BY <1>3, <2>1, <2>2, <2>3 DEF OrderInv
<1>9. ClearedInv'
  <2>1. ClearShows'
    BY <1>1, <1>2, <1>4 DEF ClearShows
  <2>. QED
    BY <1>1, <1>3, <2>1 DEF submitterVars, ViewInv, ClearedInv
<1>10. ShownMoves
  BY <1>4, <1>5, RankFacts DEF ShownMoves, AllNoLater, NoLater
<1>. QED
  BY <1>6, <1>7, <1>8, <1>9, <1>10 DEF ViewInv

-----------------------------------------------------------------------------
(***************************************************************************)
(* A clear takes its cards out of the submitter and marks every fetch that *)
(* is under way; its reply empties the cache.                              *)
(***************************************************************************)
LEMMA ForwardStep ==
  ASSUME ViewInv, ClearForwarded
  PROVE  ViewInv' /\ ShownMoves
<1>1. /\ ClearFailed /\ UNCHANGED <<cache, waiting, shown, gone>>
      /\ clearing' = {p \in DOMAIN jobs : jobs[p].stage = "FAILED"}
      /\ inflight' = [f \in DOMAIN inflight |-> [inflight[f] EXCEPT !.overlaps = TRUE]]
  BY DEF ClearForwarded
<1>2. PlacedInv' /\ Moved
  BY <1>1, SubmitterStep, CardsMoved DEF ViewInv, PlacedInv, Moved, Next
<1>3. clearing' \subseteq submitted' \ DOMAIN jobs'
  BY <1>1 DEF ClearFailed, Drop, Restrict, ViewInv, PlacedInv, SubInv, TypeInv
<1>4. /\ DOMAIN inflight' = DOMAIN inflight
      /\ \A f \in DOMAIN inflight :
            /\ inflight'[f] \in Fetch /\ inflight'[f].cards = inflight[f].cards
            /\ inflight'[f].overlaps
  BY <1>1 DEF ViewInv, FetchType, Fetch
<1>5. FetchType'
  BY <1>1, <1>4 DEF FetchType
<1>6. OrderInv'
  <2>1. ASSUME NEW f \in DOMAIN inflight PROVE FetchOrdered(inflight[f])'
    <3>1. /\ DOMAIN inflight[f].cards \subseteq submitted
          /\ AllNoLater(inflight[f].cards, jobs) /\ AllNoLater(shown, inflight[f].cards)
      BY DEF ViewInv, OrderInv, FetchOrdered
    <3>2. AllNoLater(inflight[f].cards, jobs')
      BY <1>2, <3>1, JobsAhead DEF ViewInv
    <3>. QED
      BY <1>1, <1>2, <1>4, <3>1, <3>2 DEF FetchOrdered, AllNoLater, Moved, NewCards
  <2>2. AllNoLater(shown, jobs')
    BY <1>2, JobsAhead DEF ViewInv, OrderInv
  <2>3. DOMAIN shown' \subseteq submitted' /\ AllNoLater(shown, jobs)'
    BY <1>1, <1>2, <2>2 DEF ViewInv, OrderInv, AllNoLater, Moved, NewCards
  <2>. QED
    BY <1>1, <1>4, <2>1, <2>3 DEF ViewInv, OrderInv, OneFetch, CacheIsShown
<1>7. ClearedInv'
  <2>1. gone \subseteq submitted' \ DOMAIN jobs'
    BY <1>2, GoneStays DEF ViewInv, ClearedInv
  <2>. QED
    BY <1>1, <1>3, <1>4, <2>1 DEF ViewInv, ClearedInv, FetchClear, ClearShows
<1>8. ShownMoves
  BY <1>1, RankFacts DEF ShownMoves
<1>. QED
  BY <1>2, <1>5, <1>6, <1>7, <1>8 DEF ViewInv

LEMMA RepliedStep ==
  ASSUME ViewInv, ClearReplied
  PROVE  ViewInv' /\ ShownMoves
<1>1. /\ clearing # None /\ cache' = None /\ gone' = gone \cup clearing /\ clearing' = None
      /\ UNCHANGED <<submitterVars, inflight, waiting, shown>>
  BY DEF ClearReplied
<1>2. PlacedInv'
  BY <1>1, SameCards DEF ViewInv
<1>3. FetchType'
  BY <1>1 DEF ViewInv, FetchType
<1>4. OrderInv'
  BY <1>1 DEF submitterVars, ViewInv, OrderInv, OneFetch, CacheIsShown, AllNoLater, FetchOrdered
<1>5. ClearedInv'
  BY <1>1 DEF submitterVars, ViewInv, ClearedInv, FetchClear, ClearShows
<1>6. ShownMoves
  BY <1>1, RankFacts DEF ShownMoves
<1>. QED
  BY <1>2, <1>3, <1>4, <1>5, <1>6 DEF ViewInv

-----------------------------------------------------------------------------
LEMMA ViewInit0 == ViewInit => ViewInv
<1>. SUFFICES ASSUME ViewInit PROVE ViewInv
  OBVIOUS
<1>1. PlacedInv
  BY PlacedInit DEF ViewInit
<1>2. DOMAIN inflight = {} /\ DOMAIN shown = {} /\ inflight \in [{} -> Fetch]
  BY EmptyFunction, Zenon DEF ViewInit, NoCards
<1>3. cache = None /\ clearing = None /\ gone = {}
  BY DEF ViewInit
<1>4. FetchType
  BY <1>2, Zenon DEF FetchType
<1>5. OrderInv
  BY <1>2, <1>3 DEF OrderInv, OneFetch, AllNoLater, CacheIsShown
<1>6. ClearedInv
  BY <1>2, <1>3 DEF ClearedInv, ClearShows
<1>. QED
  BY <1>1, <1>4, <1>5, <1>6 DEF ViewInv

LEMMA ViewStep ==
  ASSUME ViewInv, [View \/ Pipeline]_allVars
  PROVE  ViewInv' /\ ShownMoves
<1>1. ASSUME Pipeline \/ UNCHANGED allVars PROVE ViewInv' /\ ShownMoves
  <2>1. [Next]_submitterVars /\ UNCHANGED viewVars
    BY <1>1 DEF Pipeline, Next, allVars
  <2>. QED
    BY <2>1, PipelineStep
<1>2. CASE View
  BY <1>2, PollStep, FetchStep, AnswerStep, ArriveStep, ForwardStep, RepliedStep DEF View
<1>. QED
  BY <1>1, <1>2

LEMMA ViewInvariant == ViewSpec => []ViewInv
<1>1. ViewInv /\ [View \/ Pipeline]_allVars => ViewInv'
  BY ViewStep
<1>. QED
  BY <1>1, ViewInit0, PTL DEF ViewSpec

(***************************************************************************)
(* The pipeline panel never runs backwards, for any number of readers and  *)
(* of fetches that could be under way (cached() of server.mjs).            *)
(***************************************************************************)
THEOREM ShownForward == ViewSpec => ShownMovesForward
<1>1. ViewInv /\ [View \/ Pipeline]_allVars => [ShownMoves]_allVars
  BY ViewStep
<1>. QED
  BY <1>1, ViewInvariant, PTL DEF ViewSpec, ShownMovesForward, ShownMoves

(***************************************************************************)
(* A cleared card is not in the cache, unless it came with a fetch that    *)
(* the clear overlapped (clearFailedPipeline of server.mjs).               *)
(***************************************************************************)
THEOREM ClearIsShown == ViewSpec => []ClearShows
BY ViewInvariant, PTL DEF ViewInv, ClearedInv

=============================================================================
