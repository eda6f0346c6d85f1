--------------------------- MODULE VerifierProofs ---------------------------
(***************************************************************************)
(* Theorems about Verifier, for any number of challenges, requests and     *)
(* responses, any configuration and any clock.  Each property is           *)
(* strengthened to an inductive one:                                       *)
(*   TypeOK       (inductive as it stands)                                 *)
(*   AnswerInv    what the states of a session say about its handlers;     *)
(*   EvidenceInv  what is known of the answers that were accepted;         *)
(*   ForwardInv,  what is known of the background tasks.                   *)
(*   SettleReportHonest (inductive as it stands)                           *)
(* Each rests on the ones before it.  They are also what the refinement of *)
(* ChallengeOnce needs, which comes last.                                  *)
(***************************************************************************)
EXTENDS Verifier, FiniteSetTheorems, TLAPS

-----------------------------------------------------------------------------
(* The data a challenge is made of. *)

LEMMA SelectType ==
  ASSUME NEW draw \in [1..BLOCK_COUNT -> Nat], NEW head \in Nat,
         NEW window \in Nat, CanSelect(head, window)
  PROVE  SelectBlocks(draw, head, window) \in [1..BLOCK_COUNT -> Int]
<1>1. Segment(window) \in Nat \ {0}
  BY DEF CanSelect, Segment, BLOCK_COUNT
<1>2. ASSUME NEW i \in 1..BLOCK_COUNT
      PROVE  (head - window) + (i - 1) * Segment(window)
                + (draw[i] % Segment(window)) \in Int
  BY <1>1 DEF BLOCK_COUNT
<1>. QED
  BY <1>2 DEF SelectBlocks

LEMMA ChainType ==
  /\ \A spec \in CHAINS : spec.chainId \in Nat /\ spec.blockTime \in Nat
  /\ \A selector, mode : ResolveChain(selector, mode) \subseteq CHAINS
<1>1. \A spec \in CHAINS : spec.chainId \in Nat /\ spec.blockTime \in Nat
  BY DEF CHAINS, Mainnet, Testnet
<1>2. \A selector, mode : ResolveChain(selector, mode) \subseteq CHAINS
  BY DEF ResolveChain, ChainSpec
<1>. QED
  BY <1>1, <1>2

LEMMA WindowType ==
  ASSUME NEW chainId
  PROVE  WindowBlocks(WindowDays, chainId, SlotOverride) \in Nat
<1>1. BlockTime(chainId, SlotOverride) \in Nat
  <2>1. CASE SlotOverride # NoOverride
    BY <2>1, InputAssumption DEF BlockTime
  <2>2. CASE SlotOverride = NoOverride /\ IsSupported(chainId)
    <3>1. (CHOOSE c \in ChainSpec(chainId) : TRUE) \in ChainSpec(chainId)
      BY <2>2 DEF IsSupported
    <3>. QED
      BY <2>2, <3>1, ChainType DEF BlockTime, ChainSpec
  <2>3. CASE SlotOverride = NoOverride /\ ~IsSupported(chainId)
    BY <2>3 DEF BlockTime
  <2>. QED
    BY <2>1, <2>2, <2>3
<1>2. AtLeastOne(BlockTime(chainId, SlotOverride)) \in Nat \ {0}
  BY <1>1 DEF AtLeastOne
<1>3. (WindowDays * 86400) \in Nat
  BY InputAssumption
<1>4. \A n \in Nat, d \in Nat \ {0} : n \div d \in Nat
  OBVIOUS
<1>. QED
  BY <1>2, <1>3, <1>4 DEF WindowBlocks, AtLeastOne

-----------------------------------------------------------------------------
(* Type correctness. *)

LEMMA InitType == Init => TypeOK
BY DEF Init, TypeOK, Live

LEMMA IssueType ==
  ASSUME TypeOK, IssueAny
  PROVE  TypeOK'
<1>1. PICK c \in Challenges, agent \in Agents, lookup \in Lookups,
           threshold \in Thresholds, selector \in Selectors,
           head \in Heads, draw \in Draws :
           Issue(c, agent, lookup, threshold, selector, head, draw)
  BY DEF IssueAny
<1>2. PICK spec \in ResolveChain(selector, TestnetMode) :
        /\ CanSelect(head, WindowBlocks(WindowDays, spec.chainId, SlotOverride))
        /\ sessions' = With(sessions, c,
             [challenge |-> NewChallenge(c, agent, threshold, spec.chainId,
                                         head, draw),
              owner |-> lookup.owner, state |-> "issued",
              verdict |-> NoVerdict, kurier |-> NoKurier])
  BY <1>1 DEF Issue
<1>. DEFINE ch == NewChallenge(c, agent, threshold, spec.chainId, head, draw)
            s  == [challenge |-> ch, owner |-> lookup.owner, state |-> "issued",
                   verdict |-> NoVerdict, kurier |-> NoKurier]
<1>3. ch \in Challenge
  <2>1. /\ threshold \in Nat /\ head \in Nat /\ draw \in [1..BLOCK_COUNT -> Nat]
        /\ now \in Nat /\ now + TTL_SECONDS \in Nat
    BY InputAssumption DEF TypeOK
  <2>2. spec.chainId \in Nat
    BY ChainType
  <2>3. SelectBlocks(draw, head, WindowBlocks(WindowDays, spec.chainId, SlotOverride))
          \in [1..BLOCK_COUNT -> Int]
    BY <1>2, <2>1, WindowType, SelectType
  <2>4. Nonce[c] \in Range(Nonce)
    BY NonceAssumption DEF Range
  <2>. QED
    BY <2>1, <2>2, <2>3, <2>4 DEF NewChallenge, Challenge
<1>4. s \in Session
  BY <1>3 DEF Session, Lookups, States, NoVerdict, NoKurier, KurierState, BLOCK_COUNT
<1>5. /\ DOMAIN sessions' = Live \cup {c}
      /\ sessions' \in [Live \cup {c} -> Session]
  <2>1. sessions' = With(sessions, c, s)
    BY <1>2
  <2>2. sessions \in [DOMAIN sessions -> Session]
    BY DEF TypeOK, Live
  <2>. HIDE DEF s
  <2>3. /\ DOMAIN With(sessions, c, s) = DOMAIN sessions \cup {c}
        /\ With(sessions, c, s) \in [DOMAIN sessions \cup {c} -> Session]
    BY <1>4, <2>2 DEF With
  <2>. QED
    BY <2>1, <2>3 DEF Live
<1>6. /\ issuedIds' = issuedIds \cup {c}
      /\ UNCHANGED <<now, handlers, settling, forwarding, delivered, accepted>>
  BY <1>1 DEF Issue
<1>. QED
  BY <1>5, <1>6 DEF TypeOK, Live

LEMMA SetStateType ==
  ASSUME TypeOK, NEW c \in Live, NEW state \in States,
         sessions' = SetState(c, state),
         UNCHANGED <<now, issuedIds, tasks, accepted>>,
         DOMAIN handlers' \subseteq Requests,
         handlers' \in [DOMAIN handlers' -> Handler]
  PROVE  TypeOK'
<1>1. sessions[c] \in Session
  BY DEF TypeOK
<1>2. [sessions[c] EXCEPT !.state = state] \in Session
  BY <1>1 DEF Session
<1>3. sessions' \in [Live -> Session] /\ DOMAIN sessions' = Live
  BY <1>2 DEF SetState, TypeOK, Live
<1>. QED
  BY <1>3 DEF TypeOK, Live, tasks

LEMMA SubmitType ==
  ASSUME TypeOK, Submit
  PROVE  TypeOK'
<1>1. PICK c \in Challenges :
        \/ SubmitUnknown(c)
        \/ SubmitLate(c)
        \/ SubmitAnswered(c)
        \/ \E q \in Requests, response \in Responses : SubmitClaim(q, c, response)
  BY DEF Submit
<1>2. CASE SubmitUnknown(c) \/ SubmitAnswered(c)
  BY <1>2 DEF SubmitUnknown, SubmitAnswered, vars, TypeOK, Live
<1>3. CASE SubmitLate(c)
  BY <1>3, SetStateType DEF SubmitLate, States, TypeOK
<1>4. ASSUME NEW q \in Requests, NEW response \in Responses, SubmitClaim(q, c, response)
      PROVE  TypeOK'
  <2>. DEFINE h == [id |-> c, response |-> response, at |-> now,
                    snap |-> Snapshot(sessions[c].challenge, sessions[c].owner)]
  <2>1. /\ c \in Live
        /\ sessions' = SetState(c, "submitted")
        /\ handlers' = With(handlers, q, h)
        /\ UNCHANGED <<now, issuedIds, tasks, accepted>>
    BY <1>4 DEF SubmitClaim
  <2>2. h \in Handler
    <3>1. sessions[c] \in Session
      BY <2>1 DEF TypeOK
    <3>. QED
      BY <3>1 DEF Handler, Session, Snapshot, TypeOK
  <2>3. /\ handlers' \in [DOMAIN handlers \cup {q} -> Handler]
        /\ DOMAIN handlers' = DOMAIN handlers \cup {q}
    <3>. HIDE DEF h
    <3>. QED
      BY <2>1, <2>2 DEF With, TypeOK
  <2>. QED
    BY <2>1, <2>3, SetStateType DEF States, TypeOK
<1>. QED
  BY <1>1, <1>2, <1>3, <1>4

LEMMA FinishType ==
  ASSUME TypeOK, NEW q \in Requests, Finish(q) \/ DropHandler(q)
  PROVE  TypeOK'
<1>. DEFINE h == handlers[q]
            c == h.id
<1>1. /\ handlers' = Without(handlers, q)
      /\ q \in DOMAIN handlers
      /\ UNCHANGED <<now, issuedIds, delivered>>
  BY DEF Finish, FinishVerified, FinishRejected, DropHandler, tasks
<1>2. /\ DOMAIN handlers' \subseteq Requests
      /\ handlers' \in [DOMAIN handlers' -> Handler]
  BY <1>1 DEF Without, Restrict, TypeOK
<1>3. h \in Handler /\ c \in Challenges
  BY <1>1 DEF TypeOK, Handler
<1>4. CASE FinishVerified(q)
  <2>1. /\ sessions' = [sessions EXCEPT ![c].state = "verified",
                                        ![c].verdict = "verified",
                                        ![c].kurier = IF KurierOn THEN Pending ELSE @]
        /\ settling' = settling \cup
             Spawned(KurierOn, [id |-> c, by |-> q, jobs |-> 0, allOk |-> TRUE])
        /\ forwarding' = forwarding \cup Spawned(SubmitterOn, [id |-> c, by |-> q])
        /\ accepted' = With(accepted, c, [response |-> h.response, at |-> h.at])
    BY <1>4 DEF FinishVerified
  <2>2. sessions' \in [Live -> Session] /\ DOMAIN sessions' = Live
    <3>1. CASE c \in Live
      <4>1. sessions[c] \in Session
        BY <3>1 DEF TypeOK
      <4>. DEFINE k == IF KurierOn THEN Pending ELSE sessions[c].kurier
      <4>3. k \in KurierState
        <5>1. sessions[c].kurier \in KurierState
          BY <4>1 DEF Session
        <5>2. Pending \in KurierState
          BY DEF KurierState, Pending, BLOCK_COUNT
        <5>. QED
          BY <5>1, <5>2
      <4>2. [sessions[c] EXCEPT !.state = "verified", !.verdict = "verified",
               !.kurier = k] \in Session
        <5>. HIDE DEF k
        <5>. QED
          BY <4>1, <4>3 DEF Session, States, Verdicts
      <4>. QED
        BY <2>1, <3>1, <4>1, <4>2 DEF TypeOK, Live
    <3>2. CASE c \notin Live
      BY <2>1, <3>2 DEF TypeOK, Live
    <3>. QED
      BY <3>1, <3>2
  <2>3. settling' \subseteq SettleTask /\ forwarding' \subseteq ForwardTask
    <3>1. /\ [id |-> c, by |-> q, jobs |-> 0, allOk |-> TRUE] \in SettleTask
          /\ [id |-> c, by |-> q] \in ForwardTask
      BY <1>3 DEF SettleTask, ForwardTask, BLOCK_COUNT
    <3>2. \A on, task, S : task \in S => Spawned(on, task) \subseteq S
      BY DEF Spawned
    <3>. QED
      BY <2>1, <3>1, <3>2 DEF TypeOK
  <2>4. /\ DOMAIN accepted' \subseteq Challenges
        /\ accepted' \in [DOMAIN accepted' -> Evidence]
    <3>1. [response |-> h.response, at |-> h.at] \in Evidence
      BY <1>3 DEF Handler, Evidence
    <3>. DEFINE e == [response |-> h.response, at |-> h.at]
    <3>2. accepted' = With(accepted, c, e)
      BY <2>1
    <3>. HIDE DEF e, c
    <3>. QED
      BY <1>3, <3>1, <3>2 DEF With, TypeOK, e
  <2>. QED
    BY <1>1, <1>2, <2>2, <2>3, <2>4 DEF TypeOK, Live
<1>5. CASE FinishRejected(q)
  <2>1. /\ sessions' = [sessions EXCEPT ![c].state = "rejected", ![c].verdict = "rejected"]
        /\ UNCHANGED <<tasks, accepted>>
    BY <1>5 DEF FinishRejected
  <2>2. sessions' \in [Live -> Session] /\ DOMAIN sessions' = Live
    <3>1. CASE c \in Live
      <4>1. sessions[c] \in Session
        BY <3>1 DEF TypeOK
      <4>2. [sessions[c] EXCEPT !.state = "rejected", !.verdict = "rejected"] \in Session
        BY <4>1 DEF Session, States, Verdicts
      <4>. QED
        BY <2>1, <3>1, <4>1, <4>2 DEF TypeOK, Live
    <3>2. CASE c \notin Live
      BY <2>1, <3>2 DEF TypeOK, Live
    <3>. QED
      BY <3>1, <3>2
  <2>. QED
    BY <1>1, <1>2, <2>1, <2>2 DEF TypeOK, Live, tasks
<1>6. CASE DropHandler(q)
  BY <1>2, <1>6 DEF DropHandler, TypeOK, Live, tasks
<1>. QED
  BY <1>4, <1>5, <1>6 DEF Finish

LEMMA SettleType ==
  ASSUME TypeOK, NEW t \in settling, Settle(t) \/ SettlePanic(t)
  PROVE  TypeOK'
<1>1. t \in SettleTask
  BY DEF TypeOK
<1>2. CASE SettleBundle(t)
  <2>1. PICK allOk \in {t.allOk, FALSE} :
          settling' = (settling \ {t}) \cup
                        {[t EXCEPT !.jobs = @ + 1, !.allOk = allOk]}
    BY <1>2 DEF SettleBundle
  <2>2. [t EXCEPT !.jobs = @ + 1, !.allOk = allOk] \in SettleTask
    <3>1. t.jobs + 1 \in 0..BLOCK_COUNT
      <4>1. t.jobs \in 0..BLOCK_COUNT
        BY <1>1 DEF SettleTask
      <4>2. t.jobs < BLOCK_COUNT
        BY <1>2 DEF SettleBundle
      <4>. QED
        BY <4>1, <4>2 DEF BLOCK_COUNT
    <3>2. allOk \in BOOLEAN
      <4>1. t.allOk \in BOOLEAN
        BY <1>1, Zenon DEF SettleTask
      <4>. QED
        BY <2>1, <4>1, Zenon
    <3>. QED
      BY <1>1, <3>1, <3>2 DEF SettleTask
  <2>. QED
    BY <1>2, <2>1, <2>2 DEF SettleBundle, TypeOK, Live
<1>3. CASE SettleReport(t)
  <2>1. CASE t.id \in Live
    <3>1. sessions[t.id] \in Session
      BY <2>1 DEF TypeOK
    <3>2. [sessions[t.id] EXCEPT
             !.kurier.status = IF t.allOk THEN "settled" ELSE "failed",
             !.kurier.jobs = t.jobs] \in Session
      BY <1>1, <3>1 DEF Session, KurierState, SettleTask
    <3>3. sessions' = [sessions EXCEPT ![t.id] =
            [sessions[t.id] EXCEPT
               !.kurier.status = IF t.allOk THEN "settled" ELSE "failed",
               !.kurier.jobs = t.jobs]]
      BY <1>3, <2>1 DEF SettleReport
    <3>. QED
      BY <1>3, <3>2, <3>3 DEF SettleReport, TypeOK, Live
  <2>2. CASE t.id \notin Live
    BY <1>3, <2>2 DEF SettleReport, TypeOK, Live
  <2>. QED
    BY <2>1, <2>2
<1>4. CASE SettlePanic(t)
  BY <1>4 DEF SettlePanic, TypeOK, Live
<1>. QED
  BY <1>2, <1>3, <1>4 DEF Settle

LEMMA ForwardType ==
  ASSUME TypeOK, NEW f \in forwarding, Forward(f)
  PROVE  TypeOK'
<1>1. f.id \in Challenges
  BY DEF TypeOK, ForwardTask
<1>. QED
  BY <1>1 DEF Forward, TypeOK, Live

LEMMA StatusType ==
  ASSUME TypeOK, NEW c \in Challenges, Status(c)
  PROVE  TypeOK'
<1>1. CASE sessions[c].state = "issued" /\ IsLate(c)
  BY <1>1, SetStateType DEF Status, States, TypeOK
<1>2. CASE ~(sessions[c].state = "issued" /\ IsLate(c))
  BY <1>2 DEF Status, TypeOK, Live, tasks
<1>. QED
  BY <1>1, <1>2

LEMMA NextType == TypeOK /\ [Next]_vars => TypeOK'
<1>. SUFFICES ASSUME TypeOK, [Next]_vars PROVE TypeOK'
  OBVIOUS
<1>1. CASE IssueAny
  BY <1>1, IssueType
<1>2. CASE Submit
  BY <1>2, SubmitType
<1>3. CASE \E q \in Requests : Finish(q) \/ DropHandler(q)
  BY <1>3, FinishType
<1>4. CASE \E t \in settling : Settle(t) \/ SettlePanic(t)
  BY <1>4, SettleType
<1>5. CASE \E f \in forwarding : Forward(f)
  BY <1>5, ForwardType
<1>6. CASE \E c \in Challenges : Status(c)
  BY <1>6, StatusType
<1>7. CASE Restart
  BY <1>7 DEF Restart, TypeOK, Live
<1>8. CASE Tick
  BY <1>8 DEF Tick, TypeOK, Live, tasks
<1>9. CASE UNCHANGED vars
  BY <1>9 DEF vars, TypeOK, Live
<1>. QED
  BY <1>1, <1>2, <1>3, <1>4, <1>5, <1>6, <1>7, <1>8, <1>9 DEF Next

(***************************************************************************)
(* The state of the service always has its declared shape.                 *)
(***************************************************************************)
THEOREM TypeCorrect == Spec => []TypeOK
BY InitType, NextType, PTL DEF Spec

-----------------------------------------------------------------------------
Unanswered(c) == sessions[c].state = "issued"

AnswerInv ==
  /\ \A c \in Live : Unanswered(c) => ~Decided(c) /\ ~BeingVerified(c)
  /\ OneAnswerPerChallenge

AcceptedAnswer(c) ==
  [snap |-> Snapshot(sessions[c].challenge, sessions[c].owner),
   response |-> accepted[c].response]

EvidenceInv ==
  /\ \A c \in Live :
       /\ sessions[c].challenge.nonce = Nonce[c]
       /\ Unanswered(c) => c \notin DOMAIN accepted
       /\ Verified(c) => /\ c \in DOMAIN accepted
                         /\ accepted[c].at <= sessions[c].challenge.expiresAt
                         /\ Accepts(AcceptedAnswer(c))
  /\ \A q \in DOMAIN handlers :
       /\ handlers[q].id \notin DOMAIN accepted
       /\ handlers[q].at <= handlers[q].snap.challenge.expiresAt
  /\ \A c \in DOMAIN accepted :
       /\ c \in issuedIds
       /\ \A i \in 1..BLOCK_COUNT :
            accepted[c].response.bundles[i].journal.nonce = Nonce[c]

-----------------------------------------------------------------------------
(***************************************************************************)
(* What the steps do to the sessions, one lemma per kind of step.          *)
(***************************************************************************)
LEMMA IssueEffect ==
  ASSUME TypeOK, IssueAny
  PROVE  \E c \in Challenges :
           /\ c \notin issuedIds
           /\ c \notin Live
           /\ issuedIds' = issuedIds \cup {c}
           /\ Live' = Live \cup {c}
           /\ \A d \in Live : sessions'[d] = sessions[d]
           /\ sessions'[c].challenge.nonce = Nonce[c]
           /\ sessions'[c].state = "issued"
           /\ sessions'[c].verdict = NoVerdict
           /\ sessions'[c].kurier = NoKurier
           /\ UNCHANGED <<now, handlers, settling, forwarding, delivered, accepted>>
<1>1. PICK c \in Challenges, agent \in Agents, lookup \in Lookups,
           threshold \in Thresholds, selector \in Selectors, head \in Heads,
           draw \in Draws :
           Issue(c, agent, lookup, threshold, selector, head, draw)
  BY DEF IssueAny
<1>2. PICK spec \in ResolveChain(selector, TestnetMode) :
        sessions' = With(sessions, c,
            [challenge |-> NewChallenge(c, agent, threshold, spec.chainId,
                                        head, draw),
             owner |-> lookup.owner, state |-> "issued",
             verdict |-> NoVerdict, kurier |-> NoKurier])
  BY <1>1 DEF Issue
<1>. DEFINE s == [challenge |-> NewChallenge(c, agent, threshold, spec.chainId,
                                             head, draw),
                  owner |-> lookup.owner, state |-> "issued",
                  verdict |-> NoVerdict, kurier |-> NoKurier]
<1>3. /\ s.challenge.nonce = Nonce[c] /\ s.state = "issued"
      /\ s.verdict = NoVerdict /\ s.kurier = NoKurier
  BY DEF NewChallenge
<1>4. /\ c \notin issuedIds
      /\ issuedIds' = issuedIds \cup {c}
      /\ UNCHANGED <<now, handlers, settling, forwarding, delivered, accepted>>
  BY <1>1 DEF Issue
<1>5. c \notin Live
  BY <1>4 DEF TypeOK
<1>6. sessions' = With(sessions, c, s)
  BY <1>2
<1>. HIDE DEF s
<1>7. /\ Live' = Live \cup {c}
      /\ \A d \in Live : sessions'[d] = sessions[d]
      /\ sessions'[c] = s
  BY <1>5, <1>6 DEF With, Live
<1>. QED
  BY <1>3, <1>4, <1>5, <1>7

LEMMA SetStateEffect ==
  ASSUME TypeOK, NEW c \in Live, NEW state, sessions' = SetState(c, state)
  PROVE  /\ Live' = Live
         /\ \A d \in Live :
              /\ sessions'[d].challenge = sessions[d].challenge
              /\ sessions'[d].owner = sessions[d].owner
              /\ sessions'[d].verdict = sessions[d].verdict
              /\ sessions'[d].kurier = sessions[d].kurier
              /\ sessions'[d].state = IF d = c THEN state ELSE sessions[d].state
<1>1. DOMAIN sessions' = Live
  BY DEF SetState, Live
<1>2. ASSUME NEW d \in Live
      PROVE  sessions'[d] = IF d = c THEN [sessions[d] EXCEPT !.state = state]
                                     ELSE sessions[d]
  BY DEF SetState, Live
<1>3. \A d \in Live : sessions[d] \in Session
  BY DEF TypeOK
<1>. QED
  BY <1>1, <1>2, <1>3 DEF Live, Session

LEMMA FinishEffect ==
  ASSUME TypeOK, NEW q \in Requests, Finish(q), handlers[q].id \in Live
  PROVE  LET c == handlers[q].id IN
         /\ Live' = Live
         /\ \A d \in Live :
              /\ sessions'[d].challenge = sessions[d].challenge
              /\ sessions'[d].owner = sessions[d].owner
              /\ d # c => sessions'[d] = sessions[d]
         /\ sessions'[c].state = sessions'[c].verdict
         /\ \/ /\ FinishVerified(q)
               /\ sessions'[c].verdict = "verified"
               /\ sessions'[c].kurier = IF KurierOn THEN Pending
                                                    ELSE sessions[c].kurier
            \/ /\ FinishRejected(q)
               /\ sessions'[c].verdict = "rejected"
               /\ sessions'[c].kurier = sessions[c].kurier
<1>. DEFINE c == handlers[q].id
<1>1. sessions[c] \in Session /\ \A d \in Live : sessions[d] \in Session
  BY DEF TypeOK
<1>2. CASE FinishVerified(q)
  <2>. DEFINE k == IF KurierOn THEN Pending ELSE sessions[c].kurier
  <2>1. sessions' = [sessions EXCEPT ![c] =
           [sessions[c] EXCEPT !.state = "verified", !.verdict = "verified",
                               !.kurier = k]]
    BY <1>2 DEF FinishVerified
  <2>. HIDE DEF k
  <2>2. /\ Live' = Live
        /\ \A d \in Live : d # c => sessions'[d] = sessions[d]
        /\ sessions'[c] = [sessions[c] EXCEPT !.state = "verified",
                             !.verdict = "verified", !.kurier = k]
    BY <2>1 DEF Live
  <2>3. /\ sessions'[c].challenge = sessions[c].challenge
        /\ sessions'[c].owner = sessions[c].owner
        /\ sessions'[c].state = "verified" /\ sessions'[c].verdict = "verified"
        /\ sessions'[c].kurier = k
    BY <1>1, <2>2 DEF Session
  <2>. QED
    BY <1>2, <2>2, <2>3 DEF k
<1>3. CASE FinishRejected(q)
  <2>1. sessions' = [sessions EXCEPT ![c] =
           [sessions[c] EXCEPT !.state = "rejected", !.verdict = "rejected"]]
    BY <1>3 DEF FinishRejected
  <2>2. /\ Live' = Live
        /\ \A d \in Live : d # c => sessions'[d] = sessions[d]
        /\ sessions'[c] = [sessions[c] EXCEPT !.state = "rejected",
                                              !.verdict = "rejected"]
    BY <2>1 DEF Live
  <2>3. /\ sessions'[c].challenge = sessions[c].challenge
        /\ sessions'[c].owner = sessions[c].owner
        /\ sessions'[c].kurier = sessions[c].kurier
        /\ sessions'[c].state = "rejected" /\ sessions'[c].verdict = "rejected"
    BY <1>1, <2>2 DEF Session
  <2>. QED
    BY <1>3, <2>2, <2>3
<1>. QED
  BY <1>2, <1>3 DEF Finish

LEMMA ReportEffect ==
  ASSUME TypeOK, NEW t \in settling, SettleReport(t)
  PROVE  /\ Live' = Live
         /\ \A d \in Live :
              /\ sessions'[d].challenge = sessions[d].challenge
              /\ sessions'[d].owner = sessions[d].owner
              /\ sessions'[d].state = sessions[d].state
              /\ sessions'[d].verdict = sessions[d].verdict
              /\ d # t.id => sessions'[d] = sessions[d]
              /\ d = t.id =>
                   /\ sessions'[d].kurier.enabled = sessions[d].kurier.enabled
                   /\ sessions'[d].kurier.status \in {"settled", "failed"}
                   /\ sessions'[d].kurier.jobs = BLOCK_COUNT
         /\ settling' = settling \ {t}
         /\ UNCHANGED <<now, issuedIds, handlers, forwarding, delivered, accepted>>
<1>1. \A d \in Live : sessions[d] \in Session
  BY DEF TypeOK
<1>2. CASE t.id \in Live
  <2>. DEFINE k == [sessions[t.id].kurier EXCEPT
                      !.status = IF t.allOk THEN "settled" ELSE "failed",
                      !.jobs = t.jobs]
  <2>1. sessions' = [sessions EXCEPT ![t.id] = [sessions[t.id] EXCEPT !.kurier = k]]
    BY <1>2 DEF SettleReport
  <2>2. sessions[t.id].kurier \in KurierState
    BY <1>1, <1>2 DEF Session
  <2>3. /\ k.enabled = sessions[t.id].kurier.enabled
        /\ k.status \in {"settled", "failed"}
        /\ k.jobs = BLOCK_COUNT
    BY <2>2 DEF KurierState, SettleReport
  <2>. HIDE DEF k
  <2>4. /\ Live' = Live
        /\ \A d \in Live : d # t.id => sessions'[d] = sessions[d]
        /\ sessions'[t.id] = [sessions[t.id] EXCEPT !.kurier = k]
    BY <1>2, <2>1 DEF Live
  <2>5. /\ sessions'[t.id].challenge = sessions[t.id].challenge
        /\ sessions'[t.id].owner = sessions[t.id].owner
        /\ sessions'[t.id].state = sessions[t.id].state
        /\ sessions'[t.id].verdict = sessions[t.id].verdict
        /\ sessions'[t.id].kurier = k
    BY <1>1, <1>2, <2>4 DEF Session
  <2>. QED
    BY <2>3, <2>4, <2>5 DEF SettleReport
<1>3. CASE t.id \notin Live
  BY <1>3 DEF SettleReport, Live
<1>. QED
  BY <1>2, <1>3

-----------------------------------------------------------------------------
(***************************************************************************)
(* Steps that leave alone all that AnswerInv reads, the states but one     *)
(* excepted: that one leaves "issued".                                     *)
(***************************************************************************)
LEMMA AnswerFrame ==
  ASSUME AnswerInv,
         Live' = Live,
         DOMAIN handlers' \subseteq DOMAIN handlers,
         \A q \in DOMAIN handlers' : handlers'[q] = handlers[q],
         \A c \in Live :
            /\ sessions'[c].challenge = sessions[c].challenge
            /\ sessions'[c].owner = sessions[c].owner
            /\ sessions'[c].verdict = sessions[c].verdict
            /\ Unanswered(c)' => Unanswered(c)
  PROVE  AnswerInv'
<1>1. \A c \in Live : Unanswered(c)' => ~Decided(c)' /\ ~BeingVerified(c)'
  BY DEF AnswerInv, Decided, BeingVerified
<1>2. \A q \in DOMAIN handlers' :
        /\ handlers'[q].id \in Live'
        /\ ~Decided(handlers[q].id)'
        /\ handlers'[q].snap = Snapshot(sessions'[handlers'[q].id].challenge,
                                        sessions'[handlers'[q].id].owner)
        /\ \A r \in DOMAIN handlers' : handlers'[r].id = handlers'[q].id => r = q
  BY DEF AnswerInv, OneAnswerPerChallenge, Decided
<1>. QED
  BY <1>1, <1>2 DEF AnswerInv, OneAnswerPerChallenge, Decided

LEMMA IssueAnswer ==
  ASSUME TypeOK, AnswerInv, IssueAny
  PROVE  AnswerInv'
<1>1. PICK c \in Challenges :
        /\ c \notin Live
        /\ Live' = Live \cup {c}
        /\ \A d \in Live : sessions'[d] = sessions[d]
        /\ sessions'[c].verdict = NoVerdict
        /\ handlers' = handlers
  BY IssueEffect
<1>2. \A q \in DOMAIN handlers : handlers[q].id \in Live
  BY DEF AnswerInv, OneAnswerPerChallenge
<1>3. \A d \in Live' : Unanswered(d)' => ~Decided(d)' /\ ~BeingVerified(d)'
  BY <1>1, <1>2 DEF AnswerInv, Decided, BeingVerified, Unanswered
<1>4. OneAnswerPerChallenge'
  BY <1>1, <1>2 DEF AnswerInv, OneAnswerPerChallenge, Decided
<1>. QED
  BY <1>3, <1>4 DEF AnswerInv

LEMMA SetStateAnswer ==
  ASSUME TypeOK, AnswerInv, NEW c \in Live, NEW state \in States \ {"issued"},
         sessions' = SetState(c, state), UNCHANGED handlers
  PROVE  AnswerInv'
<1>1. \A d \in Live : Unanswered(d)' => Unanswered(d)
  BY SetStateEffect DEF Unanswered
<1>. QED
  BY <1>1, SetStateEffect, AnswerFrame

LEMMA ClaimAnswer ==
  ASSUME TypeOK, AnswerInv, NEW c \in Challenges, NEW q \in Requests,
         NEW response \in Responses, SubmitClaim(q, c, response)
  PROVE  AnswerInv'
<1>. DEFINE h == [id |-> c, response |-> response, at |-> now,
                  snap |-> Snapshot(sessions[c].challenge, sessions[c].owner)]
<1>1. /\ c \in Live /\ q \notin DOMAIN handlers
      /\ sessions[c].state = "issued"
      /\ sessions' = SetState(c, "submitted")
      /\ handlers' = With(handlers, q, h)
  BY DEF SubmitClaim
<1>2. ~Decided(c) /\ ~BeingVerified(c)
  BY <1>1 DEF AnswerInv, Unanswered
<1>3. /\ Live' = Live
      /\ \A d \in Live :
           /\ sessions'[d].challenge = sessions[d].challenge
           /\ sessions'[d].owner = sessions[d].owner
           /\ sessions'[d].verdict = sessions[d].verdict
           /\ Unanswered(d)' => Unanswered(d) /\ d # c
  BY <1>1, SetStateEffect DEF Unanswered
<1>4. h.id = c /\ h.snap = Snapshot(sessions[c].challenge, sessions[c].owner)
  OBVIOUS
<1>. HIDE DEF h
<1>5. /\ DOMAIN handlers' = DOMAIN handlers \cup {q}
      /\ \A r \in DOMAIN handlers : handlers'[r] = handlers[r]
      /\ handlers'[q] = h
  BY <1>1 DEF With
<1>6. \A d \in Live' : Unanswered(d)' => ~Decided(d)' /\ ~BeingVerified(d)'
  BY <1>3, <1>4, <1>5 DEF AnswerInv, Decided, BeingVerified
<1>7. ASSUME NEW r \in DOMAIN handlers'
      PROVE  /\ handlers'[r].id \in Live'
             /\ ~Decided(handlers[r].id)' \/ r = q
             /\ handlers'[r].snap = Snapshot(sessions'[handlers'[r].id].challenge,
                                             sessions'[handlers'[r].id].owner)
             /\ \A p \in DOMAIN handlers' : handlers'[p].id = handlers'[r].id => p = r
  <2>1. CASE r = q
    BY <1>1, <1>2, <1>3, <1>4, <1>5, <2>1 DEF BeingVerified
  <2>2. CASE r \in DOMAIN handlers
    BY <1>1, <1>2, <1>3, <1>4, <1>5, <2>2
    DEF AnswerInv, OneAnswerPerChallenge, Decided, BeingVerified
  <2>. QED
    BY <1>5, <2>1, <2>2
<1>8. \A r \in DOMAIN handlers' : ~Decided(handlers[r].id)'
  BY <1>2, <1>3, <1>4, <1>5, <1>7 DEF Decided
<1>. QED
  BY <1>6, <1>7, <1>8 DEF AnswerInv, OneAnswerPerChallenge, Decided

LEMMA FinishAnswer ==
  ASSUME TypeOK, AnswerInv, NEW q \in Requests, Finish(q)
  PROVE  AnswerInv'
<1>1. q \in DOMAIN handlers /\ handlers' = Without(handlers, q)
  BY DEF Finish, FinishVerified, FinishRejected
<1>2. PICK c \in Live : c = handlers[q].id
  BY <1>1 DEF AnswerInv, OneAnswerPerChallenge
<1>3. /\ DOMAIN handlers' = DOMAIN handlers \ {q}
      /\ \A r \in DOMAIN handlers' : handlers'[r] = handlers[r]
  BY <1>1 DEF Without, Restrict
<1>4. /\ Live' = Live
      /\ \A d \in Live :
           /\ sessions'[d].challenge = sessions[d].challenge
           /\ sessions'[d].owner = sessions[d].owner
           /\ d # c => sessions'[d] = sessions[d]
      /\ sessions'[c].state \in Verdicts
  BY <1>2, FinishEffect DEF Verdicts
<1>5. ~Unanswered(c)'
  BY <1>4 DEF Unanswered, Verdicts
<1>6. \A r \in DOMAIN handlers' : handlers[r].id # c
  BY <1>1, <1>2, <1>3 DEF AnswerInv, OneAnswerPerChallenge
<1>7. \A d \in Live' : Unanswered(d)' => ~Decided(d)' /\ ~BeingVerified(d)'
  BY <1>3, <1>4, <1>5 DEF AnswerInv, Unanswered, Decided, BeingVerified
<1>8. OneAnswerPerChallenge'
  BY <1>3, <1>4, <1>6 DEF AnswerInv, OneAnswerPerChallenge, Decided
<1>. QED
  BY <1>7, <1>8 DEF AnswerInv

LEMMA NextAnswer == TypeOK /\ AnswerInv /\ [Next]_vars => AnswerInv'
<1>. SUFFICES ASSUME TypeOK, AnswerInv, [Next]_vars PROVE AnswerInv'
  OBVIOUS
<1>1. CASE IssueAny
  BY <1>1, IssueAnswer
<1>2. CASE Submit
  <2>1. PICK c \in Challenges :
          \/ SubmitUnknown(c)
          \/ SubmitLate(c)
          \/ SubmitAnswered(c)
          \/ \E q \in Requests, response \in Responses : SubmitClaim(q, c, response)
    BY <1>2 DEF Submit
  <2>2. CASE SubmitUnknown(c) \/ SubmitAnswered(c)
    BY <2>2, AnswerFrame DEF SubmitUnknown, SubmitAnswered, vars, Unanswered, Live
  <2>3. CASE SubmitLate(c)
    BY <2>3, SetStateAnswer DEF SubmitLate, States
  <2>. QED
    BY <2>1, <2>2, <2>3, ClaimAnswer
<1>3. ASSUME NEW q \in Requests, DropHandler(q)
      PROVE  AnswerInv'
  <2>1. /\ DOMAIN handlers' \subseteq DOMAIN handlers
        /\ \A r \in DOMAIN handlers' : handlers'[r] = handlers[r]
        /\ UNCHANGED sessions
    BY <1>3 DEF DropHandler, Without, Restrict
  <2>. QED
    BY <2>1, AnswerFrame DEF Live, Unanswered
<1>4. ASSUME NEW t \in settling, SettleBundle(t) \/ SettlePanic(t)
      PROVE  AnswerInv'
  BY <1>4, AnswerFrame DEF SettleBundle, SettlePanic, Live, Unanswered
<1>5. ASSUME NEW t \in settling, SettleReport(t)
      PROVE  AnswerInv'
  <2>1. \A d \in Live : Unanswered(d)' => Unanswered(d)
    BY <1>5, ReportEffect DEF Unanswered
  <2>. QED
    BY <1>5, <2>1, ReportEffect, AnswerFrame
<1>6. CASE \E f \in forwarding : Forward(f)
  BY <1>6, AnswerFrame DEF Forward, Live, Unanswered
<1>7. ASSUME NEW c \in Challenges, Status(c)
      PROVE  AnswerInv'
  <2>1. CASE sessions[c].state = "issued" /\ IsLate(c)
    BY <1>7, <2>1, SetStateAnswer DEF Status, States
  <2>2. CASE ~(sessions[c].state = "issued" /\ IsLate(c))
    BY <1>7, <2>2, AnswerFrame DEF Status, Live, Unanswered
  <2>. QED
    BY <2>1, <2>2
<1>8. CASE Restart
  BY <1>8 DEF Restart, AnswerInv, OneAnswerPerChallenge, Live
<1>9. CASE Tick \/ UNCHANGED vars
  BY <1>9, AnswerFrame DEF Tick, vars, Live, Unanswered
<1>. QED
  BY <1>1, <1>2, <1>3, <1>4, <1>5, <1>6, <1>7, <1>8, <1>9, FinishAnswer
  DEF Next, Settle

LEMMA InitAnswer == Init => AnswerInv
BY DEF Init, AnswerInv, OneAnswerPerChallenge, Live

LEMMA AnswersInvariant == Spec => [](TypeOK /\ AnswerInv)
<1>1. Init => TypeOK /\ AnswerInv
  BY InitType, InitAnswer
<1>2. TypeOK /\ AnswerInv /\ [Next]_vars => (TypeOK /\ AnswerInv)'
  BY NextType, NextAnswer
<1>. QED
  BY <1>1, <1>2, PTL DEF Spec

(***************************************************************************)
(* "Atomically claim the challenge (Issued -> Submitted) so it can't be    *)
(* answered twice" (handle_submit): whatever the requests in flight, no    *)
(* two verify answers to one challenge, and a challenge with a verdict is  *)
(* never under verification again.                                         *)
(***************************************************************************)
THEOREM AnsweredOnce == Spec => []OneAnswerPerChallenge
<1>1. AnswerInv => OneAnswerPerChallenge
  BY DEF AnswerInv
<1>. QED
  BY <1>1, AnswersInvariant, PTL

-----------------------------------------------------------------------------
(***************************************************************************)
(* What an accepted answer consists of.  A permutation of the three block  *)
(* positions reaches each of them, so every challenged block is proved.    *)
(***************************************************************************)
LEMMA AcceptedNonce ==
  ASSUME NEW h, Accepts(h)
  PROVE  \A i \in 1..BLOCK_COUNT :
           h.response.bundles[i].journal.nonce = h.snap.challenge.nonce
BY DEF Accepts, VerifySubmission, BundleOk, BindsChallenge

LEMMA EveryBlockProved ==
  ASSUME NEW proved, NEW challenged, SameBlocks(proved, challenged)
  PROVE  \A b \in 1..BLOCK_COUNT : \E i \in 1..BLOCK_COUNT :
           proved[i] = challenged[b]
<1>1. PICK p \in [1..BLOCK_COUNT -> 1..BLOCK_COUNT] :
        /\ \A i, j \in 1..BLOCK_COUNT : p[i] = p[j] => i = j
        /\ \A i \in 1..BLOCK_COUNT : proved[i] = challenged[p[i]]
  BY DEF SameBlocks
<1>2. ASSUME NEW b \in 1..BLOCK_COUNT
      PROVE  \E i \in 1..BLOCK_COUNT : p[i] = b
  <2>1. 1 \in 1..3 /\ 2 \in 1..3 /\ 3 \in 1..3
    OBVIOUS
  <2>2. /\ p[1] \in 1..3 /\ p[2] \in 1..3 /\ p[3] \in 1..3
        /\ p[1] # p[2] /\ p[1] # p[3] /\ p[2] # p[3]
    BY <1>1, <2>1 DEF BLOCK_COUNT
  <2>3. p[1] = b \/ p[2] = b \/ p[3] = b
    BY <2>2 DEF BLOCK_COUNT
  <2>. QED
    BY <2>1, <2>3 DEF BLOCK_COUNT
<1>. QED
  BY <1>1, <1>2

LEMMA BundleProves ==
  ASSUME NEW bundle, NEW challenge, NEW block,
         BundleOk(bundle, challenge, Policy(AllowDebug, challenge),
                  ExpectedHost(challenge.chainId), AllowNoPresentation),
         bundle.journal.blockNumber = block
  PROVE  ProvesBlock(bundle, challenge, block)
<1>1. /\ bundle.genuine
      /\ bundle.journal.nonce = challenge.nonce
      /\ bundle.journal.agentId = Keccak(challenge.agent)
  BY DEF BundleOk, BindsChallenge
<1>2. /\ bundle.journal.threshold >= challenge.threshold
      /\ bundle.journal.chainId = challenge.chainId
  BY DEF BundleOk, CheckPolicy, Policy
<1>3. ~bundle.journal.debug \/ AllowDebug
  BY Zenon DEF BundleOk, CheckPolicy, Policy
<1>4. \/ bundle.presentation = NoPresentation /\ AllowNoPresentation
      \/ /\ bundle.presentation # NoPresentation
         /\ Attested(bundle.presentation, bundle.journal,
                     ExpectedHost(challenge.chainId))
  BY DEF BundleOk
<1>5. Attested(bundle.presentation, bundle.journal, ExpectedHost(challenge.chainId))
        => /\ bundle.presentation.authentic
           /\ bundle.presentation.header.number = block
           /\ bundle.journal.blockHash = Keccak(bundle.presentation.header)
           /\ \E spec \in CHAINS : /\ spec.chainId = challenge.chainId
                                   /\ spec.host = bundle.presentation.server
  BY DEF Attested, HeaderBlockNumber, ExpectedHost, ChainSpec
<1>. HIDE DEF Attested
<1>. QED
  BY <1>1, <1>2, <1>3, <1>4, <1>5, Zenon DEF ProvesBlock

LEMMA AcceptedProves ==
  ASSUME NEW h, Accepts(h)
  PROVE  /\ \A b \in 1..BLOCK_COUNT : \E i \in 1..BLOCK_COUNT :
              ProvesBlock(h.response.bundles[i], h.snap.challenge,
                          h.snap.challenge.blocks[b])
         /\ \/ h.snap.owner = NoOwner /\ AllowUnverifiedOwner
            \/ /\ h.response.ownerSig # BadSignature
               /\ h.response.ownerSig.signer = h.snap.owner
               /\ h.response.ownerSig.digest = ChallengeDigest(h.snap.challenge)
<1>. DEFINE proved == [i \in 1..BLOCK_COUNT |->
                         h.response.bundles[i].journal.blockNumber]
<1>1. \A i \in 1..BLOCK_COUNT :
        BundleOk(h.response.bundles[i], h.snap.challenge,
                 Policy(AllowDebug, h.snap.challenge),
                 ExpectedHost(h.snap.challenge.chainId), AllowNoPresentation)
  BY DEF Accepts, VerifySubmission
<1>2. SameBlocks(proved, h.snap.challenge.blocks)
  BY DEF Accepts, VerifySubmission
<1>3. \A b \in 1..BLOCK_COUNT : \E i \in 1..BLOCK_COUNT :
        h.response.bundles[i].journal.blockNumber = h.snap.challenge.blocks[b]
  <2>1. \A b \in 1..BLOCK_COUNT : \E i \in 1..BLOCK_COUNT :
          proved[i] = h.snap.challenge.blocks[b]
    <3>. HIDE DEF proved
    <3>. QED
      BY <1>2, EveryBlockProved
  <2>. QED
    BY <2>1
<1>4. OwnerOk(h.snap, h.response, AllowUnverifiedOwner)
  BY DEF Accepts, VerifySubmission
<1>5. \/ h.snap.owner = NoOwner /\ AllowUnverifiedOwner
      \/ RecoversTo(h.response.ownerSig, ChallengeDigest(h.snap.challenge),
                    h.snap.owner)
  BY <1>4, Zenon DEF OwnerOk
<1>. QED
  BY <1>1, <1>3, <1>5, BundleProves DEF RecoversTo

-----------------------------------------------------------------------------
(***************************************************************************)
(* Steps that accept no answer and claim no challenge.                     *)
(***************************************************************************)
LEMMA EvidenceFrame ==
  ASSUME EvidenceInv,
         Live' = Live,
         DOMAIN handlers' \subseteq DOMAIN handlers,
         \A q \in DOMAIN handlers' : handlers'[q] = handlers[q],
         \A c \in Live :
            /\ sessions'[c].challenge = sessions[c].challenge
            /\ sessions'[c].owner = sessions[c].owner
            /\ Verified(c)' => Verified(c)
            /\ Unanswered(c)' => Unanswered(c),
         UNCHANGED <<issuedIds, accepted>>
  PROVE  EvidenceInv'
<1>1. \A c \in Live : Verified(c)' =>
        /\ c \in DOMAIN accepted'
        /\ accepted'[c].at <= sessions'[c].challenge.expiresAt
        /\ Accepts(AcceptedAnswer(c))'
  BY DEF EvidenceInv, AcceptedAnswer, Accepts
<1>2. \A q \in DOMAIN handlers' :
        /\ handlers'[q].id \notin DOMAIN accepted'
        /\ handlers'[q].at <= handlers'[q].snap.challenge.expiresAt
  BY DEF EvidenceInv
<1>3. \A c \in DOMAIN accepted' :
        /\ c \in issuedIds'
        /\ \A i \in 1..BLOCK_COUNT :
             accepted'[c].response.bundles[i].journal.nonce = Nonce[c]
  BY DEF EvidenceInv
<1>4. \A c \in Live : /\ sessions'[c].challenge.nonce = Nonce[c]
                      /\ Unanswered(c)' => c \notin DOMAIN accepted'
  BY DEF EvidenceInv
<1>. QED
  BY <1>1, <1>2, <1>3, <1>4 DEF EvidenceInv

LEMMA IssueEvidence ==
  ASSUME TypeOK, EvidenceInv, IssueAny
  PROVE  EvidenceInv'
<1>1. PICK c \in Challenges :
        /\ c \notin issuedIds /\ c \notin Live
        /\ issuedIds' = issuedIds \cup {c}
        /\ Live' = Live \cup {c}
        /\ \A d \in Live : sessions'[d] = sessions[d]
        /\ sessions'[c].challenge.nonce = Nonce[c]
        /\ sessions'[c].verdict = NoVerdict
        /\ UNCHANGED <<handlers, accepted>>
  BY IssueEffect
<1>2. ~Verified(c)'
  BY <1>1 DEF Verified, NoVerdict
<1>3. c \notin DOMAIN accepted
  BY <1>1 DEF EvidenceInv
<1>4. \A d \in Live : /\ Verified(d)' => Verified(d)
                      /\ AcceptedAnswer(d)' = AcceptedAnswer(d)
                      /\ Unanswered(d)' => Unanswered(d)
  BY <1>1 DEF Verified, AcceptedAnswer, Unanswered
<1>5. \A d \in Live' : Verified(d)' =>
        /\ d \in DOMAIN accepted'
        /\ accepted'[d].at <= sessions'[d].challenge.expiresAt
        /\ Accepts(AcceptedAnswer(d))'
  BY <1>1, <1>2, <1>4 DEF EvidenceInv, Accepts
<1>6. \A d \in Live' : /\ sessions'[d].challenge.nonce = Nonce[d]
                       /\ Unanswered(d)' => d \notin DOMAIN accepted'
  BY <1>1, <1>3, <1>4 DEF EvidenceInv
<1>. QED
  BY <1>1, <1>5, <1>6 DEF EvidenceInv

LEMMA SetStateEvidence ==
  ASSUME TypeOK, EvidenceInv, NEW c \in Live, NEW state \in States \ {"issued"},
         sessions' = SetState(c, state), UNCHANGED <<issuedIds, handlers, accepted>>
  PROVE  EvidenceInv'
<1>1. \A d \in Live : /\ Unanswered(d)' => Unanswered(d)
                      /\ Verified(d)' => Verified(d)
  BY SetStateEffect DEF Unanswered, Verified
<1>. QED
  BY <1>1, SetStateEffect, EvidenceFrame

LEMMA ClaimEvidence ==
  ASSUME TypeOK, EvidenceInv, NEW c \in Challenges, NEW q \in Requests,
         NEW response \in Responses, SubmitClaim(q, c, response)
  PROVE  EvidenceInv'
<1>. DEFINE h == [id |-> c, response |-> response, at |-> now,
                  snap |-> Snapshot(sessions[c].challenge, sessions[c].owner)]
<1>1. /\ c \in Live /\ q \notin DOMAIN handlers /\ ~IsLate(c)
      /\ sessions[c].state = "issued"
      /\ sessions' = SetState(c, "submitted")
      /\ handlers' = With(handlers, q, h)
      /\ UNCHANGED <<issuedIds, accepted>>
  BY DEF SubmitClaim
<1>2. /\ Live' = Live
      /\ \A d \in Live :
           /\ sessions'[d].challenge = sessions[d].challenge
           /\ sessions'[d].owner = sessions[d].owner
           /\ Unanswered(d)' => Unanswered(d)
           /\ Verified(d)' => Verified(d)
  BY <1>1, SetStateEffect DEF Unanswered, Verified
<1>3. /\ h.id \notin DOMAIN accepted
      /\ h.at <= h.snap.challenge.expiresAt
  <2>1. sessions[c].challenge.expiresAt \in Nat /\ now \in Nat
    <3>1. sessions[c] \in Session
      BY <1>1 DEF TypeOK
    <3>2. sessions[c].challenge \in Challenge
      BY <3>1 DEF Session
    <3>. QED
      BY <3>2 DEF Challenge, TypeOK
  <2>2. now <= sessions[c].challenge.expiresAt
    BY <1>1, <2>1 DEF IsLate
  <2>3. c \notin DOMAIN accepted
    BY <1>1 DEF EvidenceInv, Unanswered
  <2>. QED
    BY <2>2, <2>3 DEF Snapshot
<1>. HIDE DEF h
<1>4. /\ DOMAIN handlers' = DOMAIN handlers \cup {q}
      /\ \A r \in DOMAIN handlers : handlers'[r] = handlers[r]
      /\ handlers'[q] = h
  BY <1>1 DEF With
<1>5. \A r \in DOMAIN handlers' :
        /\ handlers'[r].id \notin DOMAIN accepted'
        /\ handlers'[r].at <= handlers'[r].snap.challenge.expiresAt
  BY <1>1, <1>3, <1>4 DEF EvidenceInv
<1>6. \A d \in Live : Verified(d)' =>
        /\ d \in DOMAIN accepted'
        /\ accepted'[d].at <= sessions'[d].challenge.expiresAt
        /\ Accepts(AcceptedAnswer(d))'
  BY <1>1, <1>2 DEF EvidenceInv, AcceptedAnswer, Accepts
<1>7. \A d \in Live : /\ sessions'[d].challenge.nonce = Nonce[d]
                      /\ Unanswered(d)' => d \notin DOMAIN accepted'
  BY <1>1, <1>2 DEF EvidenceInv
<1>8. \A d \in DOMAIN accepted' :
        /\ d \in issuedIds'
        /\ \A i \in 1..BLOCK_COUNT :
             accepted'[d].response.bundles[i].journal.nonce = Nonce[d]
  BY <1>1 DEF EvidenceInv
<1>. QED
  BY <1>2, <1>5, <1>6, <1>7, <1>8 DEF EvidenceInv

LEMMA FinishEvidence ==
  ASSUME TypeOK, AnswerInv, EvidenceInv, NEW q \in Requests, Finish(q)
  PROVE  EvidenceInv'
<1>1. /\ q \in DOMAIN handlers /\ handlers' = Without(handlers, q)
      /\ UNCHANGED issuedIds
  BY DEF Finish, FinishVerified, FinishRejected
<1>2. PICK c \in Live : c = handlers[q].id
  BY <1>1 DEF AnswerInv, OneAnswerPerChallenge
<1>3. /\ DOMAIN handlers' = DOMAIN handlers \ {q}
      /\ \A r \in DOMAIN handlers' : handlers'[r] = handlers[r]
  BY <1>1 DEF Without, Restrict
<1>4. /\ Live' = Live
      /\ \A d \in Live :
           /\ sessions'[d].challenge = sessions[d].challenge
           /\ sessions'[d].owner = sessions[d].owner
           /\ d # c => sessions'[d] = sessions[d]
      /\ sessions'[c].state = sessions'[c].verdict
      /\ \/ FinishVerified(q) /\ sessions'[c].verdict = "verified"
         \/ FinishRejected(q) /\ sessions'[c].verdict = "rejected"
  BY <1>2, FinishEffect
<1>5. /\ ~Unanswered(c)'
      /\ \A d \in Live : Unanswered(d)' => Unanswered(d)
      /\ \A d \in Live : Verified(d)' /\ d # c => Verified(d)
  BY <1>4 DEF Unanswered, Verified
<1>6. CASE FinishRejected(q)
  <2>1. ~Verified(c)' /\ UNCHANGED accepted
    BY <1>4, <1>6 DEF Verified, FinishRejected, FinishVerified
  <2>. QED
    BY <1>1, <1>3, <1>4, <1>5, <2>1, EvidenceFrame
<1>7. CASE FinishVerified(q)
  <2>. DEFINE h == handlers[q]
              e == [response |-> h.response, at |-> h.at]
  <2>1. accepted' = With(accepted, c, e) /\ Accepts(h)
    BY <1>2, <1>7 DEF FinishVerified
  <2>2. e.response = h.response /\ e.at = h.at
    OBVIOUS
  <2>3. /\ h.snap = Snapshot(sessions[c].challenge, sessions[c].owner)
        /\ \A r \in DOMAIN handlers' : handlers[r].id # c
    BY <1>1, <1>2, <1>3 DEF AnswerInv, OneAnswerPerChallenge
  <2>4. h.snap.challenge = sessions[c].challenge
    BY <2>3 DEF Snapshot
  <2>5. h.at <= sessions[c].challenge.expiresAt
    BY <1>1, <2>4 DEF EvidenceInv
  <2>6. \A i \in 1..BLOCK_COUNT : h.response.bundles[i].journal.nonce = Nonce[c]
    BY <2>1, <2>4, AcceptedNonce DEF EvidenceInv
  <2>7. Accepts([snap |-> Snapshot(sessions'[c].challenge, sessions'[c].owner),
                 response |-> e.response])
    BY <1>4, <2>1, <2>2, <2>3 DEF Accepts
  <2>. HIDE DEF h, e
  <2>8. /\ DOMAIN accepted' = DOMAIN accepted \cup {c}
        /\ accepted'[c] = e
        /\ \A d \in DOMAIN accepted : d # c => accepted'[d] = accepted[d]
    BY <2>1 DEF With
  <2>9. c \in issuedIds
    BY DEF TypeOK
  <2>10. \A d \in DOMAIN accepted' :
           /\ d \in issuedIds'
           /\ \A i \in 1..BLOCK_COUNT :
                accepted'[d].response.bundles[i].journal.nonce = Nonce[d]
    BY <1>1, <2>2, <2>6, <2>8, <2>9 DEF EvidenceInv
  <2>11. \A r \in DOMAIN handlers' :
           /\ handlers'[r].id \notin DOMAIN accepted'
           /\ handlers'[r].at <= handlers'[r].snap.challenge.expiresAt
    BY <1>3, <2>3, <2>8 DEF EvidenceInv
  <2>12. ASSUME NEW d \in Live, Verified(d)'
         PROVE  /\ d \in DOMAIN accepted'
                /\ accepted'[d].at <= sessions'[d].challenge.expiresAt
                /\ Accepts(AcceptedAnswer(d))'
    <3>1. CASE d = c
      BY <1>4, <2>2, <2>5, <2>7, <2>8, <3>1 DEF AcceptedAnswer, Accepts
    <3>2. CASE d # c
      <4>1. Verified(d)
        BY <1>5, <2>12, <3>2
      <4>2. /\ d \in DOMAIN accepted
            /\ accepted'[d] = accepted[d]
            /\ AcceptedAnswer(d)' = AcceptedAnswer(d)
        BY <1>4, <2>8, <3>2, <4>1 DEF EvidenceInv, AcceptedAnswer
      <4>. QED
        BY <1>4, <2>8, <4>1, <4>2 DEF EvidenceInv, Accepts
    <3>. QED
      BY <3>1, <3>2
  <2>13. \A d \in Live : /\ sessions'[d].challenge.nonce = Nonce[d]
                         /\ Unanswered(d)' => d \notin DOMAIN accepted'
    BY <1>4, <1>5, <2>8 DEF EvidenceInv
  <2>. QED
    BY <1>4, <2>10, <2>11, <2>12, <2>13 DEF EvidenceInv
<1>. QED
  BY <1>6, <1>7 DEF Finish

LEMMA NextEvidence ==
  TypeOK /\ AnswerInv /\ EvidenceInv /\ [Next]_vars => EvidenceInv'
<1>. SUFFICES ASSUME TypeOK, AnswerInv, EvidenceInv, [Next]_vars
              PROVE  EvidenceInv'
  OBVIOUS
<1>1. CASE IssueAny
  BY <1>1, IssueEvidence
<1>2. CASE Submit
  <2>1. PICK c \in Challenges :
          \/ SubmitUnknown(c)
          \/ SubmitLate(c)
          \/ SubmitAnswered(c)
          \/ \E q \in Requests, response \in Responses : SubmitClaim(q, c, response)
    BY <1>2 DEF Submit
  <2>2. CASE SubmitUnknown(c) \/ SubmitAnswered(c)
    BY <2>2, EvidenceFrame
    DEF SubmitUnknown, SubmitAnswered, vars, Unanswered, Verified, Live
  <2>3. CASE SubmitLate(c)
    BY <2>3, SetStateEvidence DEF SubmitLate, States
  <2>. QED
    BY <2>1, <2>2, <2>3, ClaimEvidence
<1>3. ASSUME NEW q \in Requests, DropHandler(q)
      PROVE  EvidenceInv'
  <2>1. /\ DOMAIN handlers' \subseteq DOMAIN handlers
        /\ \A r \in DOMAIN handlers' : handlers'[r] = handlers[r]
        /\ UNCHANGED <<sessions, issuedIds, accepted>>
    BY <1>3 DEF DropHandler, Without, Restrict
  <2>. QED
    BY <2>1, EvidenceFrame DEF Live, Unanswered, Verified
<1>4. ASSUME NEW t \in settling, SettleBundle(t) \/ SettlePanic(t)
      PROVE  EvidenceInv'
  BY <1>4, EvidenceFrame DEF SettleBundle, SettlePanic, Live, Unanswered, Verified
<1>5. ASSUME NEW t \in settling, SettleReport(t)
      PROVE  EvidenceInv'
  <2>1. \A d \in Live : /\ Unanswered(d)' => Unanswered(d)
                        /\ Verified(d)' => Verified(d)
    BY <1>5, ReportEffect DEF Unanswered, Verified
  <2>. QED
    BY <1>5, <2>1, ReportEffect, EvidenceFrame
<1>6. CASE \E f \in forwarding : Forward(f)
  BY <1>6, EvidenceFrame DEF Forward, Live, Unanswered, Verified
<1>7. ASSUME NEW c \in Challenges, Status(c)
      PROVE  EvidenceInv'
  <2>1. CASE sessions[c].state = "issued" /\ IsLate(c)
    BY <1>7, <2>1, SetStateEvidence DEF Status, States
  <2>2. CASE ~(sessions[c].state = "issued" /\ IsLate(c))
    BY <1>7, <2>2, EvidenceFrame DEF Status, Live, Unanswered, Verified
  <2>. QED
    BY <2>1, <2>2
<1>8. CASE Restart
  BY <1>8 DEF Restart, EvidenceInv, Live
<1>9. CASE Tick \/ UNCHANGED vars
  BY <1>9, EvidenceFrame DEF Tick, vars, Live, Unanswered, Verified
<1>. QED
  BY <1>1, <1>2, <1>3, <1>4, <1>5, <1>6, <1>7, <1>8, <1>9, FinishEvidence
  DEF Next, Settle

LEMMA EvidenceInvariant == Spec => [](TypeOK /\ AnswerInv /\ EvidenceInv)
<1>1. Init => TypeOK /\ AnswerInv /\ EvidenceInv
  <2>1. Init => EvidenceInv
    BY DEF Init, EvidenceInv, Live
  <2>. QED
    BY <2>1, InitType, InitAnswer
<1>2. TypeOK /\ AnswerInv /\ EvidenceInv /\ [Next]_vars
        => (TypeOK /\ AnswerInv /\ EvidenceInv)'
  BY NextType, NextAnswer, NextEvidence
<1>. QED
  BY <1>1, <1>2, PTL DEF Spec

(***************************************************************************)
(* A "verified" verdict rests on evidence (verify_submission and the claim *)
(* before it): an answer in time, a genuine proof of every challenged      *)
(* block made for this challenge at its threshold and on its chain, and    *)
(* the registered owner's signature; each waived only by its dev escape.   *)
(***************************************************************************)
THEOREM VerdictIsBacked == Spec => []VerifiedIsBacked
<1>1. EvidenceInv => VerifiedIsBacked
  <2>. SUFFICES ASSUME EvidenceInv, NEW c \in Live, Verified(c)
                PROVE  LET s == sessions[c]
                           e == accepted[c]
                       IN /\ c \in DOMAIN accepted
                          /\ e.at <= s.challenge.expiresAt
                          /\ \A b \in 1..BLOCK_COUNT : \E i \in 1..BLOCK_COUNT :
                               ProvesBlock(e.response.bundles[i], s.challenge,
                                           s.challenge.blocks[b])
                          /\ \/ s.owner = NoOwner /\ AllowUnverifiedOwner
                             \/ /\ e.response.ownerSig # BadSignature
                                /\ e.response.ownerSig.signer = s.owner
                                /\ e.response.ownerSig.digest
                                     = ChallengeDigest(s.challenge)
    BY DEF VerifiedIsBacked
  <2>. DEFINE h == AcceptedAnswer(c)
  <2>1. /\ c \in DOMAIN accepted
        /\ accepted[c].at <= sessions[c].challenge.expiresAt
        /\ Accepts(h)
    BY DEF EvidenceInv
  <2>2. /\ h.snap.challenge = sessions[c].challenge
        /\ h.snap.owner = sessions[c].owner
        /\ h.response = accepted[c].response
    BY DEF AcceptedAnswer, Snapshot
  <2>. HIDE DEF h
  <2>. QED
    BY <2>1, <2>2, AcceptedProves
<1>. QED
  BY <1>1, EvidenceInvariant, PTL

(***************************************************************************)
(* The nonces of two challenges differ and every accepted bundle commits   *)
(* the nonce of its challenge (verify_submission), so no proof is ever     *)
(* accepted for two challenges, not even across a restart.                 *)
(***************************************************************************)
THEOREM NoReplay == Spec => []NoBundleCountsTwice
<1>1. TypeOK /\ EvidenceInv => NoBundleCountsTwice
  <2>. SUFFICES ASSUME TypeOK, EvidenceInv,
                       NEW c \in DOMAIN accepted, NEW d \in DOMAIN accepted, c # d,
                       NEW i \in 1..BLOCK_COUNT, NEW k \in 1..BLOCK_COUNT
                PROVE  accepted[c].response.bundles[i] # accepted[d].response.bundles[k]
    BY DEF NoBundleCountsTwice
  <2>1. /\ accepted[c].response.bundles[i].journal.nonce = Nonce[c]
        /\ accepted[d].response.bundles[k].journal.nonce = Nonce[d]
    BY DEF EvidenceInv
  <2>2. Nonce[c] # Nonce[d]
    BY NonceAssumption DEF TypeOK
  <2>. QED
    BY <2>1, <2>2
<1>. QED
  BY <1>1, EvidenceInvariant, PTL

-----------------------------------------------------------------------------
(***************************************************************************)
(* The background tasks.                                                   *)
(***************************************************************************)
ForwardInv ==
  /\ \A c \in Challenges :
       /\ delivered[c] \in {0, 1}
       /\ delivered[c] = 1 => c \in DOMAIN accepted
  /\ \A f \in forwarding :
       /\ delivered[f.id] = 0
       /\ f.id \in DOMAIN accepted
       /\ \A g \in forwarding : g.id = f.id => g = f

LEMMA NextForward ==
  TypeOK /\ AnswerInv /\ EvidenceInv /\ ForwardInv /\ [Next]_vars => ForwardInv'
<1>. SUFFICES ASSUME TypeOK, AnswerInv, EvidenceInv, ForwardInv, [Next]_vars
              PROVE  ForwardInv'
  OBVIOUS
<1>1. CASE UNCHANGED <<forwarding, delivered, accepted>>
  BY <1>1 DEF ForwardInv
<1>2. ASSUME NEW q \in Requests, FinishVerified(q)
      PROVE  ForwardInv'
  <2>1. PICK c \in Challenges : c = handlers[q].id
    BY <1>2 DEF FinishVerified, TypeOK, Handler
  <2>. DEFINE e == [response |-> handlers[q].response, at |-> handlers[q].at]
              task == [id |-> c, by |-> q]
  <2>2. /\ forwarding' = forwarding \cup Spawned(SubmitterOn, task)
        /\ accepted' = With(accepted, c, e)
        /\ delivered' = delivered
    BY <1>2, <2>1 DEF FinishVerified
  <2>3. c \notin DOMAIN accepted
    BY <1>2, <2>1 DEF EvidenceInv, FinishVerified
  <2>4. task.id = c
    OBVIOUS
  <2>5. forwarding' \subseteq forwarding \cup {task}
    BY <2>2 DEF Spawned
  <2>. HIDE DEF e, task
  <2>6. DOMAIN accepted' = DOMAIN accepted \cup {c}
    BY <2>2 DEF With
  <2>7. delivered[c] = 0 /\ \A f \in forwarding : f.id # c
    BY <2>3 DEF ForwardInv
  <2>8. ASSUME NEW f \in forwarding'
        PROVE  /\ delivered'[f.id] = 0
               /\ f.id \in DOMAIN accepted'
               /\ \A g \in forwarding' : g.id = f.id => g = f
    BY <2>2, <2>4, <2>5, <2>6, <2>7 DEF ForwardInv
  <2>. QED
    BY <2>2, <2>6, <2>8 DEF ForwardInv
<1>3. ASSUME NEW f \in forwarding, Forward(f)
      PROVE  ForwardInv'
  <2>1. f.id \in Challenges
    BY DEF TypeOK, ForwardTask
  <2>2. PICK arrives \in BOOLEAN :
          delivered' = IF arrives THEN [delivered EXCEPT ![f.id] = @ + 1]
                                  ELSE delivered
    BY <1>3 DEF Forward
  <2>3. /\ delivered[f.id] = 0 /\ f.id \in DOMAIN accepted
        /\ forwarding' = forwarding \ {f} /\ accepted' = accepted
    BY <1>3 DEF Forward, ForwardInv
  <2>4. /\ \A c \in Challenges : c # f.id => delivered'[c] = delivered[c]
        /\ delivered'[f.id] \in {0, 1}
    BY <2>1, <2>2, <2>3 DEF TypeOK
  <2>5. \A g \in forwarding' : g.id # f.id /\ g.id \in Challenges
    BY <2>3 DEF ForwardInv, TypeOK, ForwardTask
  <2>. QED
    BY <2>3, <2>4, <2>5 DEF ForwardInv
<1>4. CASE Restart
  BY <1>4 DEF Restart, ForwardInv
<1>5. Next => \/ UNCHANGED <<forwarding, delivered, accepted>>
              \/ \E q \in Requests : FinishVerified(q)
              \/ \E f \in forwarding : Forward(f)
              \/ Restart
  BY DEF Next, IssueAny, Issue, Submit, SubmitUnknown, SubmitLate, SubmitAnswered,
         SubmitClaim, Finish, FinishRejected, DropHandler, Settle, SettleBundle,
         SettleReport, SettlePanic, Status, Tick, tasks, vars
<1>. QED
  BY <1>1, <1>2, <1>3, <1>4, <1>5 DEF vars

(***************************************************************************)
(* Forwards happen once (handle_submit spawns them, forward_to_submitter   *)
(* never retries): whatever was lost, whatever was restarted, the          *)
(* submitter is handed the bundles of a challenge at most once, and only   *)
(* of a verified one.                                                      *)
(***************************************************************************)
THEOREM AtMostOneForward == Spec => []ForwardedOnce
<1>1. TypeOK /\ ForwardInv => ForwardedOnce
  <2>. SUFFICES ASSUME TypeOK, ForwardInv, NEW c \in Challenges
                PROVE  /\ delivered[c] > 0 => c \in DOMAIN accepted
                       /\ delivered[c] + Cardinality({f \in forwarding : f.id = c}) <= 1
    BY DEF ForwardedOnce
  <2>. DEFINE F == {f \in forwarding : f.id = c}
  <2>1. delivered[c] \in {0, 1} /\ (delivered[c] = 1 => c \in DOMAIN accepted)
    BY DEF ForwardInv
  <2>2. CASE F = {}
    <3>1. Cardinality(F) = 0
      BY <2>2, FS_EmptySet
    <3>. QED
      BY <2>1, <3>1
  <2>3. CASE F # {}
    <3>1. PICK f \in F : TRUE
      BY <2>3
    <3>2. F = {f} /\ delivered[c] = 0
      BY <3>1 DEF ForwardInv
    <3>3. Cardinality(F) = 1
      BY <3>2, FS_Singleton
    <3>. QED
      BY <2>1, <3>2, <3>3
  <2>. QED
    BY <2>2, <2>3
<1>2. Init => ForwardInv
  BY DEF Init, ForwardInv
<1>3. TypeOK /\ AnswerInv /\ EvidenceInv /\ ForwardInv /\ [Next]_vars => ForwardInv'
  BY NextForward
<1>. QED
  BY <1>1, <1>2, <1>3, EvidenceInvariant, PTL DEF Spec

-----------------------------------------------------------------------------
LEMMA SettleFrame ==
  ASSUME SettleReportHonest,
         Live' = Live, settling' \subseteq settling,
         \A c \in Live : /\ sessions'[c].kurier = sessions[c].kurier
                         /\ sessions'[c].verdict = sessions[c].verdict
  PROVE  SettleReportHonest'
<1>1. \A c \in Live : Verified(c)' <=> Verified(c)
  BY DEF Verified
<1>2. \A t \in settling : t.id \in Live
  BY DEF SettleReportHonest, Verified
<1>3. \A t \in settling' : Verified(t.id)' /\ sessions'[t.id].kurier = Pending
  BY <1>2 DEF SettleReportHonest, Verified
<1>. QED
  BY <1>1, <1>3 DEF SettleReportHonest

LEMMA FinishSettle ==
  ASSUME TypeOK, AnswerInv, SettleReportHonest, NEW q \in Requests, Finish(q)
  PROVE  SettleReportHonest'
<1>1. q \in DOMAIN handlers
  BY DEF Finish, FinishVerified, FinishRejected
<1>2. PICK c \in Live : c = handlers[q].id
  BY <1>1 DEF AnswerInv, OneAnswerPerChallenge
<1>3. /\ Live' = Live
      /\ \A d \in Live : d # c => sessions'[d] = sessions[d]
      /\ \/ /\ FinishVerified(q) /\ sessions'[c].verdict = "verified"
            /\ sessions'[c].kurier = IF KurierOn THEN Pending ELSE sessions[c].kurier
         \/ /\ FinishRejected(q) /\ sessions'[c].kurier = sessions[c].kurier
  BY <1>2, FinishEffect
<1>4. ~Decided(c)
  BY <1>1, <1>2 DEF AnswerInv, OneAnswerPerChallenge
<1>5. ~Verified(c) /\ \A t \in settling : t.id # c /\ t.id \in Live
  BY <1>4 DEF SettleReportHonest, Decided, Verified, NoVerdict
<1>6. /\ ~sessions[c].kurier.enabled
      /\ sessions[c].kurier.status \in {"settled", "failed"}
           <=> sessions[c].kurier.jobs = BLOCK_COUNT
  BY <1>5, Zenon DEF SettleReportHonest
<1>7. \A d \in Live : d # c => (Verified(d)' <=> Verified(d))
  BY <1>3 DEF Verified
<1>8. /\ ~NoKurier.enabled
      /\ Pending.status \in {"settled", "failed"} <=> Pending.jobs = BLOCK_COUNT
  BY DEF NoKurier, Pending, BLOCK_COUNT
<1>9. CASE FinishRejected(q)
  <2>1. sessions'[c].kurier = sessions[c].kurier /\ settling' = settling
    BY <1>3, <1>9 DEF FinishRejected, FinishVerified, tasks
  <2>2. \A d \in Live : sessions'[d].kurier = sessions[d].kurier
    BY <1>3, <2>1
  <2>3. \A d \in Live : Verified(d) => Verified(d)'
    BY <1>5, <1>7
  <2>4. \A d \in Live' :
          /\ sessions'[d].kurier.enabled => Verified(d)'
          /\ sessions'[d].kurier.status \in {"settled", "failed"}
               <=> sessions'[d].kurier.jobs = BLOCK_COUNT
    BY <1>3, <2>2, <2>3 DEF SettleReportHonest
  <2>5. \A t \in settling' : /\ Verified(t.id)' /\ sessions'[t.id].kurier = Pending
                             /\ \A u \in settling' : u.id = t.id => u = t
    BY <1>3, <1>5, <2>1 DEF SettleReportHonest, Verified
  <2>. QED
    BY <2>4, <2>5 DEF SettleReportHonest
<1>10. CASE FinishVerified(q)
  <2>. DEFINE task == [id |-> c, by |-> q, jobs |-> 0, allOk |-> TRUE]
              k == IF KurierOn THEN Pending ELSE sessions[c].kurier
  <2>1. /\ sessions'[c].verdict = "verified"
        /\ sessions'[c].kurier = k
    BY <1>3, <1>9, <1>10 DEF FinishRejected, FinishVerified
  <2>2. settling' = settling \cup Spawned(KurierOn, task)
    BY <1>2, <1>10 DEF FinishVerified
  <2>3. Verified(c)'
    <3>1. c \in Live' /\ sessions'[c].verdict = "verified"
      BY <1>3, <2>1
    <3>. QED
      BY <3>1 DEF Verified
  <2>4. k.status \in {"settled", "failed"} <=> k.jobs = BLOCK_COUNT
    BY <1>6, <1>8
  <2>5. task.id = c
    OBVIOUS
  <2>6. \A t \in settling' : t \in settling \/ (t = task /\ k = Pending)
    BY <2>2 DEF Spawned
  <2>. HIDE DEF k, task
  <2>7. \A d \in Live' :
          /\ sessions'[d].kurier.enabled => Verified(d)'
          /\ sessions'[d].kurier.status \in {"settled", "failed"}
               <=> sessions'[d].kurier.jobs = BLOCK_COUNT
    BY <1>3, <1>7, <2>1, <2>3, <2>4 DEF SettleReportHonest
  <2>8. \A t \in settling' : /\ t.id \in Live'
                             /\ sessions'[t.id].verdict = "verified"
                             /\ sessions'[t.id].kurier = Pending
    BY <1>3, <1>5, <2>1, <2>5, <2>6 DEF SettleReportHonest, Verified
  <2>9. \A t, u \in settling' : u.id = t.id => u = t
    BY <1>5, <2>5, <2>6 DEF SettleReportHonest
  <2>. QED
    BY <2>7, <2>8, <2>9 DEF SettleReportHonest, Verified
<1>. QED
  BY <1>9, <1>10 DEF Finish

LEMMA SettleStep ==
  ASSUME TypeOK, SettleReportHonest, NEW t \in settling,
         Settle(t) \/ SettlePanic(t)
  PROVE  SettleReportHonest'
<1>1. Verified(t.id) /\ sessions[t.id].kurier = Pending
  BY DEF SettleReportHonest
<1>2. CASE SettlePanic(t)
  BY <1>2, SettleFrame DEF SettlePanic, Live
<1>3. CASE SettleBundle(t)
  <2>1. PICK allOk \in {t.allOk, FALSE} :
          settling' = (settling \ {t}) \cup
                        {[t EXCEPT !.jobs = @ + 1, !.allOk = allOk]}
    BY <1>3 DEF SettleBundle
  <2>. DEFINE next == [t EXCEPT !.jobs = @ + 1, !.allOk = allOk]
  <2>2. next.id = t.id
    BY DEF TypeOK, SettleTask
  <2>3. UNCHANGED sessions
    BY <1>3 DEF SettleBundle
  <2>4. settling' = (settling \ {t}) \cup {next}
    BY <2>1
  <2>. HIDE DEF next
  <2>5. \A u \in settling' : /\ u.id \in Live
                             /\ sessions[u.id].verdict = "verified"
                             /\ sessions[u.id].kurier = Pending
    BY <1>1, <2>2, <2>4 DEF SettleReportHonest, Verified
  <2>6. \A u, v \in settling' : u.id = v.id => u = v
    BY <2>2, <2>4 DEF SettleReportHonest
  <2>. QED
    BY <2>3, <2>5, <2>6 DEF SettleReportHonest, Verified, Live
<1>4. CASE SettleReport(t)
  <2>1. PICK c \in Live : c = t.id
    BY <1>1 DEF Verified
  <2>2. /\ Live' = Live
        /\ settling' = settling \ {t}
        /\ \A d \in Live : /\ sessions'[d].verdict = sessions[d].verdict
                           /\ d # c => sessions'[d] = sessions[d]
        /\ sessions'[c].kurier.status \in {"settled", "failed"}
        /\ sessions'[c].kurier.jobs = BLOCK_COUNT
    BY <1>4, <2>1, ReportEffect
  <2>3. Verified(c)' /\ \A d \in Live : d # c => (Verified(d)' <=> Verified(d))
    BY <1>1, <2>1, <2>2 DEF Verified
  <2>4. \A u \in settling' : u.id # c
    BY <2>1, <2>2 DEF SettleReportHonest
  <2>5. \A d \in Live' :
          /\ sessions'[d].kurier.enabled => Verified(d)'
          /\ sessions'[d].kurier.status \in {"settled", "failed"}
               <=> sessions'[d].kurier.jobs = BLOCK_COUNT
    BY <2>2, <2>3 DEF SettleReportHonest
  <2>6. \A u \in settling' : /\ u.id \in Live'
                             /\ sessions'[u.id].verdict = "verified"
                             /\ sessions'[u.id].kurier = Pending
    BY <2>2, <2>4 DEF SettleReportHonest, Verified
  <2>. QED
    BY <2>2, <2>5, <2>6 DEF SettleReportHonest, Verified
<1>. QED
  BY <1>2, <1>3, <1>4 DEF Settle

LEMMA IssueSettle ==
  ASSUME TypeOK, SettleReportHonest, IssueAny
  PROVE  SettleReportHonest'
<1>1. PICK c \in Challenges :
        /\ c \notin Live
        /\ Live' = Live \cup {c}
        /\ \A d \in Live : sessions'[d] = sessions[d]
        /\ sessions'[c].kurier = NoKurier
        /\ settling' = settling
  BY IssueEffect
<1>2. \A d \in Live : Verified(d)' <=> Verified(d)
  BY <1>1 DEF Verified
<1>3. /\ ~NoKurier.enabled
      /\ NoKurier.status \in {"settled", "failed"} <=> NoKurier.jobs = BLOCK_COUNT
  BY DEF NoKurier, BLOCK_COUNT
<1>4. \A d \in Live' :
        /\ sessions'[d].kurier.enabled => Verified(d)'
        /\ sessions'[d].kurier.status \in {"settled", "failed"}
             <=> sessions'[d].kurier.jobs = BLOCK_COUNT
  BY <1>1, <1>2, <1>3 DEF SettleReportHonest
<1>5. \A t \in settling' : /\ t.id \in Live'
                           /\ sessions'[t.id].verdict = "verified"
                           /\ sessions'[t.id].kurier = Pending
  BY <1>1 DEF SettleReportHonest, Verified
<1>. QED
  BY <1>1, <1>4, <1>5 DEF SettleReportHonest, Verified

LEMMA NextSettle ==
  TypeOK /\ AnswerInv /\ SettleReportHonest /\ [Next]_vars => SettleReportHonest'
<1>. SUFFICES ASSUME TypeOK, AnswerInv, SettleReportHonest, [Next]_vars
              PROVE  SettleReportHonest'
  OBVIOUS
<1>1. CASE \E c \in Live, state \in States :
             sessions' = SetState(c, state) /\ UNCHANGED settling
  BY <1>1, SetStateEffect, SettleFrame
<1>2. CASE UNCHANGED <<sessions, settling>>
  BY <1>2, SettleFrame DEF Live
<1>3. CASE Restart
  BY <1>3 DEF Restart, SettleReportHonest, Live
<1>4. Next => \/ IssueAny
              \/ \E c \in Live, state \in States :
                   sessions' = SetState(c, state) /\ UNCHANGED settling
              \/ \E q \in Requests : Finish(q)
              \/ \E t \in settling : Settle(t) \/ SettlePanic(t)
              \/ UNCHANGED <<sessions, settling>>
              \/ Restart
  BY DEF Next, Submit, SubmitUnknown, SubmitLate, SubmitAnswered, SubmitClaim,
         DropHandler, Forward, Status, Tick, tasks, vars, States
<1>. QED
  BY <1>1, <1>2, <1>3, <1>4, IssueSettle, FinishSettle, SettleStep DEF vars

(***************************************************************************)
(* The settle report is honest (settle_kurier): it belongs to a verified   *)
(* challenge, it is written once, and never before every bundle has an     *)
(* outcome.                                                                *)
(***************************************************************************)
THEOREM ReportIsHonest == Spec => []SettleReportHonest
<1>1. Init => SettleReportHonest
  BY DEF Init, SettleReportHonest, Live
<1>2. TypeOK /\ AnswerInv /\ SettleReportHonest /\ [Next]_vars
        => SettleReportHonest'
  BY NextSettle
<1>. QED
  BY <1>1, <1>2, AnswersInvariant, PTL DEF Spec

-----------------------------------------------------------------------------
(***************************************************************************)
(* The service implements ChallengeOnce: the refinement Phase maps the     *)
(* initial state to the abstract initial state and every step to an        *)
(* abstract step or to a stutter.  A step moves at most the phase of one   *)
(* challenge, but for a restart, which closes them all.                    *)
(***************************************************************************)
Phases == [c \in Challenges |-> Phase(c)]

LEMMA PhaseKept ==
  ASSUME NEW d \in Challenges,
         d \in issuedIds' <=> d \in issuedIds,
         d \in Live' <=> d \in Live,
         BeingVerified(d)' <=> BeingVerified(d),
         d \in Live => /\ sessions'[d].verdict = sessions[d].verdict
                       /\ Unanswered(d)' <=> Unanswered(d)
  PROVE  Phase(d)' = Phase(d)
<1>1. Decided(d)' <=> Decided(d)
  BY DEF Decided
<1>. HIDE DEF BeingVerified
<1>. QED
  BY <1>1 DEF Phase, Unanswered, Decided

LEMMA PhaseMoves ==
  ASSUME NEW c \in Challenges, NEW v, Phase(c)' = v,
         \A d \in Challenges : d # c => Phase(d)' = Phase(d)
  PROVE  Phases' = [Phases EXCEPT ![c] = v]
<1>. HIDE DEF Phase
<1>. QED
  BY DEF Phases

LEMMA AllPhasesKept ==
  ASSUME \A d \in Challenges : Phase(d)' = Phase(d)
  PROVE  UNCHANGED Phases
<1>. HIDE DEF Phase
<1>. QED
  BY DEF Phases

LEMMA CloseOne ==
  ASSUME NEW c \in Challenges, Phase(c) # "unused", Phase(c)' = "closed",
         \A d \in Challenges : d # c => Phase(d)' = Phase(d)
  PROVE  Abstract!Next
<1>1. /\ \A d \in {c} : Phases[d] # "unused"
      /\ Phases' = [d \in Challenges |-> IF d \in {c} THEN "closed" ELSE Phases[d]]
  <2>. HIDE DEF Phase
  <2>. QED
    BY DEF Phases
<1>2. Abstract!Close({c})
  BY <1>1 DEF Abstract!Close, Phases
<1>3. {c} \in SUBSET Challenges
  OBVIOUS
<1>. QED
  BY <1>2, <1>3 DEF Abstract!Next

-----------------------------------------------------------------------------
LEMMA IssueRefines ==
  ASSUME TypeOK, AnswerInv, IssueAny
  PROVE  Abstract!Next
<1>1. PICK c \in Challenges :
        /\ c \notin issuedIds /\ c \notin Live
        /\ issuedIds' = issuedIds \cup {c}
        /\ Live' = Live \cup {c}
        /\ \A d \in Live : sessions'[d] = sessions[d]
        /\ sessions'[c].state = "issued"
        /\ sessions'[c].verdict = NoVerdict
        /\ handlers' = handlers
  BY IssueEffect
<1>2. ~BeingVerified(c)'
  BY <1>1 DEF AnswerInv, OneAnswerPerChallenge, BeingVerified
<1>3. ~Decided(c)'
  BY <1>1 DEF Decided
<1>4. Phase(c) = "unused" /\ Phase(c)' = "open"
  BY <1>1, <1>2, <1>3 DEF Phase
<1>5. \A d \in Challenges : d # c => Phase(d)' = Phase(d)
  BY <1>1, PhaseKept DEF BeingVerified, Unanswered
<1>6. Phases[c] \in {"unused"} /\ Phases' = [Phases EXCEPT ![c] = "open"]
  BY <1>4, <1>5, PhaseMoves DEF Phases
<1>7. Abstract!Open(c)
  BY <1>6 DEF Abstract!Open, Abstract!Move, Phases
<1>. QED
  BY <1>7 DEF Abstract!Next

LEMMA LapseRefines ==
  ASSUME TypeOK, NEW c \in Challenges, c \in Live, NEW state \in States \ {"issued"},
         sessions' = SetState(c, state), UNCHANGED <<issuedIds, handlers>>
  PROVE  Abstract!Next \/ UNCHANGED Phases
<1>1. /\ Live' = Live
      /\ \A d \in Live :
           /\ sessions'[d].verdict = sessions[d].verdict
           /\ d # c => (Unanswered(d)' <=> Unanswered(d))
      /\ ~Unanswered(c)'
  BY SetStateEffect DEF Unanswered
<1>2. \A d \in Challenges : BeingVerified(d)' <=> BeingVerified(d)
  BY DEF BeingVerified
<1>3. \A d \in Challenges : d # c => Phase(d)' = Phase(d)
  BY <1>1, <1>2, PhaseKept
<1>4. CASE Unanswered(c) /\ ~Decided(c) /\ ~BeingVerified(c)
  <2>1. Phase(c)' = "closed" /\ Phase(c) # "unused"
    BY <1>1, <1>2, <1>4 DEF Phase, Decided, Unanswered, TypeOK
  <2>. QED
    BY <1>3, <2>1, CloseOne
<1>5. CASE ~(Unanswered(c) /\ ~Decided(c) /\ ~BeingVerified(c))
  <2>1. Phase(c)' = Phase(c)
    <3>1. Decided(c)' <=> Decided(c)
      BY <1>1 DEF Decided
    <3>. HIDE DEF Decided, BeingVerified
    <3>. QED
      BY <1>1, <1>2, <1>5, <3>1 DEF Phase, Unanswered
  <2>. QED
    BY <1>3, <2>1, AllPhasesKept
<1>. QED
  BY <1>4, <1>5

LEMMA ClaimRefines ==
  ASSUME TypeOK, AnswerInv, NEW c \in Challenges, NEW q \in Requests,
         NEW response \in Responses, SubmitClaim(q, c, response)
  PROVE  Abstract!Next
<1>. DEFINE h == [id |-> c, response |-> response, at |-> now,
                  snap |-> Snapshot(sessions[c].challenge, sessions[c].owner)]
<1>1. /\ c \in Live /\ q \notin DOMAIN handlers
      /\ Unanswered(c)
      /\ sessions' = SetState(c, "submitted")
      /\ handlers' = With(handlers, q, h)
      /\ issuedIds' = issuedIds
  BY DEF SubmitClaim, Unanswered
<1>2. h.id = c
  OBVIOUS
<1>. HIDE DEF h
<1>3. /\ Live' = Live
      /\ \A d \in Live :
           /\ sessions'[d].verdict = sessions[d].verdict
           /\ d # c => (Unanswered(d)' <=> Unanswered(d))
  BY <1>1, SetStateEffect DEF Unanswered
<1>4. /\ DOMAIN handlers' = DOMAIN handlers \cup {q}
      /\ \A r \in DOMAIN handlers : handlers'[r] = handlers[r]
      /\ handlers'[q].id = c
  BY <1>1, <1>2 DEF With
<1>5. /\ BeingVerified(c)'
      /\ \A d \in Challenges : d # c => (BeingVerified(d)' <=> BeingVerified(d))
  BY <1>1, <1>4 DEF BeingVerified
<1>6. \A d \in Challenges : d # c => Phase(d)' = Phase(d)
  BY <1>1, <1>3, <1>5, PhaseKept
<1>7. ~Decided(c) /\ ~BeingVerified(c)
  BY <1>1 DEF AnswerInv
<1>8. Phase(c) = "open" /\ Phase(c)' = "claimed"
  BY <1>1, <1>3, <1>5, <1>7 DEF Phase, Unanswered, Decided, TypeOK
<1>9. Phases[c] \in {"open"} /\ Phases' = [Phases EXCEPT ![c] = "claimed"]
  BY <1>6, <1>8, PhaseMoves DEF Phases
<1>10. Abstract!Claim(c)
  BY <1>9 DEF Abstract!Claim, Abstract!Move, Phases
<1>. QED
  BY <1>10 DEF Abstract!Next

(***************************************************************************)
(* A handler leaves: the phases but the one of its challenge are kept.     *)
(***************************************************************************)
LEMMA HandlerLeaves ==
  ASSUME AnswerInv, NEW q \in DOMAIN handlers, NEW c, c = handlers[q].id,
         handlers' = Without(handlers, q)
  PROVE  /\ BeingVerified(c) /\ ~BeingVerified(c)'
         /\ \A d \in Challenges : d # c => (BeingVerified(d)' <=> BeingVerified(d))
<1>1. /\ DOMAIN handlers' = DOMAIN handlers \ {q}
      /\ \A r \in DOMAIN handlers' : handlers'[r] = handlers[r]
  BY DEF Without, Restrict
<1>2. \A r \in DOMAIN handlers : handlers[r].id = c => r = q
  BY DEF AnswerInv, OneAnswerPerChallenge
<1>. QED
  BY <1>1, <1>2 DEF BeingVerified

LEMMA FinishRefines ==
  ASSUME TypeOK, AnswerInv, NEW q \in Requests, Finish(q)
  PROVE  Abstract!Next
<1>1. /\ q \in DOMAIN handlers /\ handlers' = Without(handlers, q)
      /\ issuedIds' = issuedIds
  BY DEF Finish, FinishVerified, FinishRejected
<1>2. PICK c \in Live : c = handlers[q].id
  BY <1>1 DEF AnswerInv, OneAnswerPerChallenge
<1>3. c \in Challenges /\ c \in issuedIds
  BY DEF TypeOK
<1>4. /\ Live' = Live
      /\ \A d \in Live : d # c => sessions'[d] = sessions[d]
      /\ sessions'[c].verdict \in {"verified", "rejected"}
  BY <1>2, FinishEffect
<1>5. /\ BeingVerified(c)
      /\ \A d \in Challenges : d # c => (BeingVerified(d)' <=> BeingVerified(d))
  BY <1>1, <1>2, HandlerLeaves
<1>6. \A d \in Challenges : d # c => Phase(d)' = Phase(d)
  BY <1>1, <1>4, <1>5, PhaseKept DEF Unanswered
<1>7. ~Decided(c)
  BY <1>1, <1>2 DEF AnswerInv, OneAnswerPerChallenge
<1>8. Phase(c) = "claimed" /\ Phase(c)' = sessions'[c].verdict
  BY <1>1, <1>3, <1>4, <1>5, <1>7 DEF Phase, Decided, NoVerdict
<1>9. /\ Phases[c] \in {"claimed"}
      /\ Phases' = [Phases EXCEPT ![c] = sessions'[c].verdict]
  BY <1>3, <1>6, <1>8, PhaseMoves DEF Phases
<1>10. Abstract!Judge(c)
  BY <1>4, <1>9 DEF Abstract!Judge, Abstract!Judged, Abstract!Move, Phases
<1>. QED
  BY <1>3, <1>10 DEF Abstract!Next

LEMMA DropRefines ==
  ASSUME TypeOK, AnswerInv, NEW q \in Requests, DropHandler(q)
  PROVE  Abstract!Next
<1>1. /\ q \in DOMAIN handlers /\ handlers' = Without(handlers, q)
      /\ UNCHANGED <<issuedIds, sessions>>
  BY DEF DropHandler
<1>2. PICK c \in Live : c = handlers[q].id
  BY <1>1 DEF AnswerInv, OneAnswerPerChallenge
<1>3. c \in Challenges /\ c \in issuedIds
  BY DEF TypeOK
<1>4. /\ BeingVerified(c) /\ ~BeingVerified(c)'
      /\ \A d \in Challenges : d # c => (BeingVerified(d)' <=> BeingVerified(d))
  BY <1>1, <1>2, HandlerLeaves
<1>5. ~Decided(c) /\ ~Unanswered(c)
  BY <1>1, <1>2, <1>4 DEF AnswerInv, OneAnswerPerChallenge
<1>6. Phase(c) # "unused" /\ Phase(c)' = "closed"
  BY <1>1, <1>3, <1>4, <1>5 DEF Phase, Decided, Unanswered, Live
<1>7. \A d \in Challenges : d # c => Phase(d)' = Phase(d)
  BY <1>1, <1>4, PhaseKept DEF Live, Unanswered
<1>. QED
  BY <1>3, <1>6, <1>7, CloseOne

LEMMA RestartRefines ==
  ASSUME TypeOK, Restart
  PROVE  Abstract!Next
<1>1. /\ Live' = {} /\ issuedIds' = issuedIds
  BY DEF Restart, Live
<1>2. \A c \in Challenges : /\ c \in issuedIds => /\ Phase(c)' = "closed"
                                                  /\ Phase(c) # "unused"
                            /\ c \notin issuedIds => Phase(c)' = Phase(c)
  <2>1. ASSUME NEW c \in Challenges, c \in issuedIds
        PROVE  Phase(c)' = "closed"
    BY <1>1, <2>1 DEF Phase
  <2>2. ASSUME NEW c \in Challenges, c \in issuedIds
        PROVE  Phase(c) # "unused"
    <3>1. Decided(c) => sessions[c].verdict \in {"verified", "rejected"}
      BY DEF Decided, TypeOK, Session, Verdicts
    <3>. QED
      BY <2>2, <3>1 DEF Phase
  <2>3. ASSUME NEW c \in Challenges, c \notin issuedIds
        PROVE  Phase(c)' = Phase(c)
    BY <1>1, <2>3 DEF Phase
  <2>. QED
    BY <2>1, <2>2, <2>3
<1>3. /\ \A c \in issuedIds : Phases[c] # "unused"
      /\ Phases' = [c \in Challenges |-> IF c \in issuedIds THEN "closed"
                                                             ELSE Phases[c]]
  <2>1. issuedIds \subseteq Challenges
    BY DEF TypeOK
  <2>. HIDE DEF Phase
  <2>. QED
    BY <1>2, <2>1 DEF Phases
<1>4. Abstract!Close(issuedIds)
  BY <1>3 DEF Abstract!Close, Phases
<1>5. issuedIds \in SUBSET Challenges
  BY DEF TypeOK
<1>. QED
  BY <1>4, <1>5 DEF Abstract!Next

LEMMA NextRefines ==
  TypeOK /\ AnswerInv /\ [Next]_vars => Abstract!Next \/ UNCHANGED Phases
<1>. SUFFICES ASSUME TypeOK, AnswerInv, [Next]_vars
              PROVE  Abstract!Next \/ UNCHANGED Phases
  OBVIOUS
<1>1. CASE \E c \in Challenges, state \in States \ {"issued"} :
             /\ c \in Live
             /\ sessions' = SetState(c, state)
             /\ UNCHANGED <<issuedIds, handlers>>
  BY <1>1, LapseRefines
<1>2. CASE UNCHANGED <<sessions, issuedIds, handlers>>
  <2>1. \A d \in Challenges : Phase(d)' = Phase(d)
    BY <1>2, PhaseKept DEF Live, Unanswered, BeingVerified
  <2>. QED
    BY <2>1, AllPhasesKept
<1>3. ASSUME NEW t \in settling, SettleReport(t)
      PROVE  UNCHANGED Phases
  <2>1. /\ Live' = Live
        /\ \A d \in Live : /\ sessions'[d].state = sessions[d].state
                           /\ sessions'[d].verdict = sessions[d].verdict
        /\ UNCHANGED <<issuedIds, handlers>>
    BY <1>3, ReportEffect
  <2>2. \A d \in Challenges : Phase(d)' = Phase(d)
    BY <2>1, PhaseKept DEF Unanswered, BeingVerified
  <2>. QED
    BY <2>2, AllPhasesKept
<1>4. ASSUME NEW c \in Challenges, NEW q \in Requests, NEW response \in Responses,
             SubmitClaim(q, c, response)
      PROVE  Abstract!Next
  BY <1>4, ClaimRefines
<1>5. Next => \/ IssueAny
              \/ \E c \in Challenges, state \in States \ {"issued"} :
                   /\ c \in Live
                   /\ sessions' = SetState(c, state)
                   /\ UNCHANGED <<issuedIds, handlers>>
              \/ \E c \in Challenges, q \in Requests, response \in Responses :
                   SubmitClaim(q, c, response)
              \/ \E q \in Requests : Finish(q) \/ DropHandler(q)
              \/ \E t \in settling : SettleReport(t)
              \/ UNCHANGED <<sessions, issuedIds, handlers>>
              \/ Restart
  BY DEF Next, Submit, SubmitUnknown, SubmitLate, SubmitAnswered, Settle,
         SettleBundle, SettlePanic, Forward, Status, Tick, vars, States
<1>. QED
  BY <1>1, <1>2, <1>3, <1>4, <1>5, IssueRefines, FinishRefines, DropRefines,
     RestartRefines DEF vars

(***************************************************************************)
(* The service implements ChallengeOnce: an id is handed out once, taken   *)
(* by at most one answer and judged at most once, and a judgement is never *)
(* replaced by the other one, whatever the code does to the state word     *)
(* (handle_submit, handle_status) in the meantime.                         *)
(***************************************************************************)
THEOREM Implements == Spec => ImplementsChallengeOnce
<1>1. Init => Abstract!Init
  BY DEF Init, Abstract!Init, Phase
<1>2. TypeOK /\ AnswerInv /\ [Next]_vars
        => [Abstract!Next]_([c \in Challenges |-> Phase(c)])
  BY NextRefines DEF Phases
<1>. QED
  BY <1>1, <1>2, AnswersInvariant, PTL DEF Spec, ImplementsChallengeOnce, Abstract!Spec

=============================================================================
