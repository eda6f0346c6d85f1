------------------------------ MODULE Verifier ------------------------------
(***************************************************************************)
(* The challenge service (host/src/bin/verifier.rs): it issues challenges, *)
(* claims a challenge for the first answer, verifies the answer off the    *)
(* lock, records the verdict, and starts the background work a verified    *)
(* answer deserves (settling on Kurier, forwarding to the submitter).      *)
(*                                                                         *)
(* One action is one critical section of the sessions mutex, together with *)
(* what its caller does before it gives up the CPU to anything that shares *)
(* state.  Requests run concurrently: between a claim and its verdict any  *)
(* other request, the clock, a hang-up or a restart may come.              *)
(*                                                                         *)
(* Early returns that touch no state (malformed JSON, unsupported chain,   *)
(* agent not found, head fetch failed) are not steps: they are the guards  *)
(* of Issue read the other way round.                                      *)
(***************************************************************************)
EXTENDS Submission, FiniteSets, Functions

CONSTANTS
  Challenges,             \* challenge ids (fresh 16-byte random values)
  Nonce,                  \* Nonce[c]: the 32 random bytes drawn for challenge c
  Requests,               \* submission requests the service can serve at once
  Responses,              \* the response bodies clients send
  Agents, Owners,         \* registry agent ids and owner addresses
  Thresholds, Selectors,  \* the other inputs of POST /v1/challenges
  Heads, Draws,           \* finalized heads, and keccak draws from a nonce
  MaxTime                 \* bound of the clock

CONSTANTS                 \* the service's configuration (environment variables)
  TTL_SECONDS, WindowDays, SlotOverride, TestnetMode,
  AllowUnverifiedOwner, AllowNoPresentation, AllowDebug,
  KurierOn, SubmitterOn,
  Faults                  \* do hang-ups, panics and restarts happen at all

ASSUME NonceAssumption ==
  /\ DOMAIN Nonce = Challenges
  /\ \A c, d \in Challenges : Nonce[c] = Nonce[d] => c = d

ASSUME InputAssumption ==
  /\ Thresholds \subseteq Nat
  /\ Heads \subseteq Nat
  /\ \A d \in Draws : d \in [1..BLOCK_COUNT -> Nat]
  /\ TTL_SECONDS \in Nat
  /\ WindowDays \in Nat
  /\ SlotOverride \in Nat \cup {NoOverride}
  /\ MaxTime \in Nat

ASSUME ConfigAssumption ==
  /\ {TestnetMode, AllowUnverifiedOwner, AllowNoPresentation, AllowDebug,
      KurierOn, SubmitterOn, Faults} \subseteq BOOLEAN
  /\ NoOwner \notin Owners

VARIABLES
  now,         \* the wall clock, in seconds
  sessions,    \* the HashMap: live challenge id -> session
  issuedIds,   \* history: every id ever handed out
  handlers,    \* request -> the answer it is verifying off the lock
  settling,    \* settle_kurier tasks
  forwarding,  \* forward_to_submitter tasks
  delivered,   \* external: forwards that reached the submitter, per challenge
  accepted     \* history: challenge -> the answer that made it "verified"

vars == <<now, sessions, issuedIds, handlers, settling, forwarding,
          delivered, accepted>>
tasks == <<settling, forwarding, delivered>>

-----------------------------------------------------------------------------
States   == {"issued", "submitted", "verified", "rejected", "expired"}
Verdicts == {"verified", "rejected"}
NoVerdict == "none"

Challenge ==
  [agent : Agents, threshold : Nat, chainId : Nat, nonce : Range(Nonce),
   blocks : [1..BLOCK_COUNT -> Int], issuedAt : Nat, expiresAt : Nat]

KurierState ==
  [enabled : BOOLEAN, status : {"", "pending", "settled", "failed"},
   jobs : 0..BLOCK_COUNT]

NoKurier == [enabled |-> FALSE, status |-> "", jobs |-> 0]
Pending  == [enabled |-> TRUE, status |-> "pending", jobs |-> 0]

Session ==
  [challenge : Challenge, owner : Owners \cup {NoOwner}, state : States,
   verdict : Verdicts \cup {NoVerdict}, kurier : KurierState]

Live == DOMAIN sessions

With(f, k, v) == [x \in DOMAIN f \cup {k} |-> IF x = k THEN v ELSE f[x]]
Without(f, k) == Restrict(f, DOMAIN f \ {k})

-----------------------------------------------------------------------------
Init ==
  /\ now = 0
  /\ sessions = [c \in {} |-> NoVerdict]
  /\ issuedIds = {}
  /\ handlers = [q \in {} |-> NoVerdict]
  /\ settling = {}
  /\ forwarding = {}
  /\ delivered = [c \in Challenges |-> 0]
  /\ accepted = [c \in {} |-> NoVerdict]

(***************************************************************************)
(* POST /v1/challenges.  The registry answers with an owner, with an agent *)
(* that has no parseable owner, or with nothing; the chain answers with a  *)
(* finalized head.  An agent with no owner gets its challenge all the same.*)
(***************************************************************************)
Lookups ==
  {[found |-> TRUE, owner |-> o] : o \in Owners \cup {NoOwner}}
     \cup {[found |-> FALSE, owner |-> NoOwner]}

\* Seeded fault: the nonce is the challenge id instead of fresh random bytes.
NewChallengeReusesId(c, agent, threshold, chainId, head, draw) ==
  [agent |-> agent, threshold |-> threshold, chainId |-> chainId, nonce |-> c,
   blocks |-> SelectBlocks(draw, head,
                           WindowBlocks(WindowDays, chainId, SlotOverride)),
   issuedAt |-> now, expiresAt |-> now + TTL_SECONDS]

NewChallenge(c, agent, threshold, chainId, head, draw) ==
  [agent |-> agent, threshold |-> threshold, chainId |-> chainId,
   nonce |-> Nonce[c],
   blocks |-> SelectBlocks(draw, head,
                           WindowBlocks(WindowDays, chainId, SlotOverride)),
   issuedAt |-> now, expiresAt |-> now + TTL_SECONDS]

Issue(c, agent, lookup, threshold, selector, head, draw) ==
  /\ c \notin issuedIds
  /\ lookup.found \/ AllowUnverifiedOwner
  /\ \E spec \in ResolveChain(selector, TestnetMode) :
       /\ CanSelect(head, WindowBlocks(WindowDays, spec.chainId, SlotOverride))
       /\ sessions' = With(sessions, c,
            [challenge |-> NewChallenge(c, agent, threshold, spec.chainId,
                                        head, draw),
             owner |-> lookup.owner, state |-> "issued",
             verdict |-> NoVerdict, kurier |-> NoKurier])
  /\ issuedIds' = issuedIds \cup {c}
  /\ UNCHANGED <<now, handlers, settling, forwarding, delivered, accepted>>

(***************************************************************************)
(* POST /v1/challenges/{id}/response, the critical section that claims the *)
(* challenge.  The four outcomes are in the order of the code.             *)
(***************************************************************************)
IsLate(c) == now > sessions[c].challenge.expiresAt

SetState(c, state) == [sessions EXCEPT ![c].state = state]

SubmitUnknown(c) ==             \* 404
  /\ c \notin Live
  /\ UNCHANGED vars

\* Seeded fault: the rejection of a late answer is recorded as the verdict.
SubmitLateJudges(c) ==
  /\ c \in Live
  /\ IsLate(c)
  /\ sessions' = [sessions EXCEPT ![c].state = "expired", ![c].verdict = "rejected"]
  /\ UNCHANGED <<now, issuedIds, handlers, tasks, accepted>>

SubmitLate(c) ==                \* 200, rejected: "challenge expired"
  /\ c \in Live
  /\ IsLate(c)
  /\ sessions' = SetState(c, "expired")
  /\ UNCHANGED <<now, issuedIds, handlers, tasks, accepted>>

SubmitAnswered(c) ==            \* 409, rejected: "challenge already answered"
  /\ c \in Live
  /\ ~IsLate(c)
  /\ sessions[c].state # "issued"
  /\ UNCHANGED vars

\* Seeded fault: the claim does not look at the state it replaces.
SubmitClaimAgain(q, c, response) ==
  /\ q \notin DOMAIN handlers
  /\ c \in Live
  /\ ~IsLate(c)
  /\ sessions' = SetState(c, "submitted")
  /\ handlers' = With(handlers, q,
       [id |-> c, response |-> response, at |-> now,
        snap |-> Snapshot(sessions[c].challenge, sessions[c].owner)])
  /\ UNCHANGED <<now, issuedIds, tasks, accepted>>

SubmitClaim(q, c, response) ==  \* claimed; verification runs off the lock
  /\ q \notin DOMAIN handlers
  /\ c \in Live
  /\ ~IsLate(c)
  /\ sessions[c].state = "issued"
  /\ sessions' = SetState(c, "submitted")
  /\ handlers' = With(handlers, q,
       [id |-> c, response |-> response, at |-> now,
        snap |-> Snapshot(sessions[c].challenge, sessions[c].owner)])
  /\ UNCHANGED <<now, issuedIds, tasks, accepted>>

(***************************************************************************)
(* The verdict is written under the lock again, whatever the state became  *)
(* in the meantime.  expected_host cannot fail here: the chain came out of *)
(* the same table when the challenge was issued.                           *)
(***************************************************************************)
Accepts(h) ==
  VerifySubmission(h.snap, h.response, Policy(AllowDebug, h.snap.challenge),
                   ExpectedHost(h.snap.challenge.chainId),
                   AllowUnverifiedOwner, AllowNoPresentation)

Spawned(on, task) == IF on THEN {task} ELSE {}

FinishVerified(q) ==
  /\ q \in DOMAIN handlers
  /\ Accepts(handlers[q])
  /\ LET h == handlers[q]
         c == h.id
     IN /\ sessions' = [sessions EXCEPT ![c].state = "verified",
                                        ![c].verdict = "verified",
                                        ![c].kurier = IF KurierOn THEN Pending ELSE @]
        /\ settling' = settling \cup
             Spawned(KurierOn, [id |-> c, by |-> q, jobs |-> 0, allOk |-> TRUE])
        /\ forwarding' = forwarding \cup Spawned(SubmitterOn, [id |-> c, by |-> q])
        /\ accepted' = With(accepted, c, [response |-> h.response, at |-> h.at])
  /\ handlers' = Without(handlers, q)
  /\ UNCHANGED <<now, issuedIds, delivered>>

\* Seeded fault: the error path answers the client and records nothing.
FinishRejectedSilently(q) ==
  /\ q \in DOMAIN handlers
  /\ ~Accepts(handlers[q])
  /\ handlers' = Without(handlers, q)
  /\ UNCHANGED <<now, sessions, issuedIds, tasks, accepted>>

FinishRejected(q) ==
  /\ q \in DOMAIN handlers
  /\ ~Accepts(handlers[q])
  /\ sessions' = [sessions EXCEPT ![handlers[q].id].state = "rejected",
                                  ![handlers[q].id].verdict = "rejected"]
  /\ handlers' = Without(handlers, q)
  /\ UNCHANGED <<now, issuedIds, tasks, accepted>>

(***************************************************************************)
(* The client hangs up while its answer is verified (the HTTP server drops *)
(* the handler's future), or the verification thread panics and the unwrap *)
(* of its join error takes the handler down.  Nobody writes a verdict.     *)
(***************************************************************************)
DropHandler(q) ==
  /\ Faults
  /\ q \in DOMAIN handlers
  /\ handlers' = Without(handlers, q)
  /\ UNCHANGED <<now, sessions, issuedIds, tasks, accepted>>

(***************************************************************************)
(* settle_kurier: one bundle after the other, the outcome of each is kept, *)
(* a failure does not stop the loop; the report is written at the end.     *)
(***************************************************************************)
SettleBundle(t) ==
  /\ t \in settling
  /\ t.jobs < BLOCK_COUNT
  /\ \E allOk \in {t.allOk, FALSE} :
       settling' = (settling \ {t}) \cup
                     {[t EXCEPT !.jobs = @ + 1, !.allOk = allOk]}
  /\ UNCHANGED <<now, sessions, issuedIds, handlers, forwarding, delivered,
                 accepted>>

\* Seeded fault: the loop stops at the first bundle that fails.
SettleReportEarly(t) ==
  /\ t \in settling
  /\ t.jobs = BLOCK_COUNT \/ ~t.allOk
  /\ settling' = settling \ {t}
  /\ sessions' = IF t.id \in Live
                 THEN [sessions EXCEPT
                         ![t.id].kurier.status = IF t.allOk THEN "settled" ELSE "failed",
                         ![t.id].kurier.jobs = t.jobs]
                 ELSE sessions
  /\ UNCHANGED <<now, issuedIds, handlers, forwarding, delivered, accepted>>

\* Seeded fault: only a success is reported.
SettleReportSuccess(t) ==
  /\ t \in settling
  /\ t.jobs = BLOCK_COUNT
  /\ settling' = settling \ {t}
  /\ sessions' = IF t.id \in Live /\ t.allOk
                 THEN [sessions EXCEPT ![t.id].kurier.status = "settled",
                                       ![t.id].kurier.jobs = t.jobs]
                 ELSE sessions
  /\ UNCHANGED <<now, issuedIds, handlers, forwarding, delivered, accepted>>

SettleReport(t) ==
  /\ t \in settling
  /\ t.jobs = BLOCK_COUNT
  /\ settling' = settling \ {t}
  /\ sessions' = IF t.id \in Live
                 THEN [sessions EXCEPT
                         ![t.id].kurier.status = IF t.allOk THEN "settled" ELSE "failed",
                         ![t.id].kurier.jobs = t.jobs]
                 ELSE sessions
  /\ UNCHANGED <<now, issuedIds, handlers, forwarding, delivered, accepted>>

(***************************************************************************)
(* submit_to_kurier panics when curl cannot be run, and the unwrap of the  *)
(* join error ends the task: no report.                                    *)
(***************************************************************************)
SettlePanic(t) ==
  /\ Faults
  /\ t \in settling
  /\ t.jobs < BLOCK_COUNT
  /\ settling' = settling \ {t}
  /\ UNCHANGED <<now, sessions, issuedIds, handlers, forwarding, delivered,
                 accepted>>

(***************************************************************************)
(* forward_to_submitter: one POST, never retried.  It may be lost.         *)
(***************************************************************************)
Forward(f) ==
  /\ f \in forwarding
  /\ forwarding' = forwarding \ {f}
  /\ \E arrives \in BOOLEAN :
       delivered' = IF arrives THEN [delivered EXCEPT ![f.id] = @ + 1]
                               ELSE delivered
  /\ UNCHANGED <<now, sessions, issuedIds, handlers, settling, accepted>>

(***************************************************************************)
(* GET /v1/challenges/{id}: expiry is noticed lazily, on unanswered        *)
(* challenges only.                                                        *)
(***************************************************************************)
Status(c) ==
  /\ c \in Live
  /\ sessions' = IF sessions[c].state = "issued" /\ IsLate(c)
                 THEN SetState(c, "expired")
                 ELSE sessions
  /\ UNCHANGED <<now, issuedIds, handlers, tasks, accepted>>

(***************************************************************************)
(* Nothing is persisted: a restart forgets sessions, requests and tasks.   *)
(***************************************************************************)
Restart ==
  /\ Faults
  /\ Live # {}
  /\ sessions' = [c \in {} |-> NoVerdict]
  /\ handlers' = [q \in {} |-> NoVerdict]
  /\ settling' = {}
  /\ forwarding' = {}
  /\ UNCHANGED <<now, issuedIds, delivered, accepted>>

Tick ==
  /\ now < MaxTime
  /\ now' = now + 1
  /\ UNCHANGED <<sessions, issuedIds, handlers, tasks, accepted>>

-----------------------------------------------------------------------------
IssueAny ==
  \E c \in Challenges, agent \in Agents, lookup \in Lookups,
     threshold \in Thresholds, selector \in Selectors, head \in Heads,
     draw \in Draws :
     Issue(c, agent, lookup, threshold, selector, head, draw)

Submit ==
  \E c \in Challenges :
     \/ SubmitUnknown(c)
     \/ SubmitLate(c)
     \/ SubmitAnswered(c)
     \/ \E q \in Requests, response \in Responses : SubmitClaim(q, c, response)

Finish(q) == FinishVerified(q) \/ FinishRejected(q)
Settle(t) == SettleBundle(t) \/ SettleReport(t)

Next ==
  \/ IssueAny
  \/ Submit
  \/ \E q \in Requests : Finish(q) \/ DropHandler(q)
  \/ \E t \in settling : Settle(t) \/ SettlePanic(t)
  \/ \E f \in forwarding : Forward(f)
  \/ \E c \in Challenges : Status(c)
  \/ Restart
  \/ Tick

Spec == Init /\ [][Next]_vars

(***************************************************************************)
(* What the runtime guarantees: a verification on the blocking pool, a     *)
(* settle task (bounded polling) and a forward (curl has a timeout) end.   *)
(* Clients owe nothing: no fairness on requests, polls or the clock.       *)
(***************************************************************************)
Fairness ==
  /\ \A q \in Requests : WF_vars(Finish(q))
  /\ \A q \in Requests, c \in Challenges :
       /\ WF_vars(\E t \in settling : t.by = q /\ t.id = c /\ Settle(t))
       /\ WF_vars(\E f \in forwarding : f.by = q /\ f.id = c /\ Forward(f))

FairSpec == Spec /\ Fairness

-----------------------------------------------------------------------------
Handler ==
  [id : Challenges, response : Responses, at : Nat,
   snap : [challenge : Challenge, owner : Owners \cup {NoOwner}]]

SettleTask ==
  [id : Challenges, by : Requests, jobs : 0..BLOCK_COUNT, allOk : BOOLEAN]

ForwardTask == [id : Challenges, by : Requests]

Evidence == [response : Responses, at : Nat]

(***************************************************************************)
(* The shape of the service's state.                                       *)
(***************************************************************************)
TypeOK ==
  /\ now \in Nat
  /\ issuedIds \subseteq Challenges
  /\ Live \subseteq issuedIds
  /\ sessions \in [Live -> Session]
  /\ DOMAIN handlers \subseteq Requests
  /\ handlers \in [DOMAIN handlers -> Handler]
  /\ settling \subseteq SettleTask
  /\ forwarding \subseteq ForwardTask
  /\ delivered \in [Challenges -> Nat]
  /\ DOMAIN accepted \subseteq Challenges
  /\ accepted \in [DOMAIN accepted -> Evidence]

Verified(c) == c \in Live /\ sessions[c].verdict = "verified"
Decided(c)  == c \in Live /\ sessions[c].verdict # NoVerdict

(***************************************************************************)
(* "Atomically claim the challenge so it can't be answered twice": two     *)
(* requests never verify answers to one challenge at the same time, a      *)
(* challenge with a verdict is never verified again, and the session an    *)
(* answer was claimed from is still there, with the same owner and         *)
(* challenge, when the verdict is to be written.                           *)
(***************************************************************************)
OneAnswerPerChallenge ==
  \A q \in DOMAIN handlers :
     LET h == handlers[q] IN
       /\ h.id \in Live
       /\ ~Decided(h.id)
       /\ h.snap = Snapshot(sessions[h.id].challenge, sessions[h.id].owner)
       /\ \A r \in DOMAIN handlers : handlers[r].id = h.id => r = q

(***************************************************************************)
(* What a "verified" verdict is worth: the answer behind it was claimed    *)
(* before the deadline, every block the challenge names is proved by a     *)
(* genuine bundle made for this challenge, at no less than its threshold   *)
(* and on its chain, each proof is about a header that the chain's host    *)
(* served, and the owner the registry named at issue time signed these     *)
(* very terms.  The dev escapes waive exactly the clause they name.        *)
(***************************************************************************)
ProvesBlock(bundle, challenge, block) ==
  LET j == bundle.journal
      p == bundle.presentation
  IN /\ bundle.genuine
     /\ j.blockNumber = block
     /\ j.nonce = challenge.nonce /\ j.agentId = Keccak(challenge.agent)
     /\ j.threshold >= challenge.threshold /\ j.chainId = challenge.chainId
     /\ ~j.debug \/ AllowDebug
     /\ \/ p = NoPresentation /\ AllowNoPresentation
        \/ /\ p # NoPresentation /\ p.authentic
           /\ p.header.number = block /\ j.blockHash = Keccak(p.header)
           /\ \E spec \in CHAINS :
                spec.chainId = challenge.chainId /\ spec.host = p.server

VerifiedIsBacked ==
  \A c \in Live : Verified(c) =>
     LET s == sessions[c]
         e == accepted[c]
     IN /\ c \in DOMAIN accepted
        /\ e.at <= s.challenge.expiresAt
        /\ \A b \in 1..BLOCK_COUNT : \E i \in 1..BLOCK_COUNT :
             ProvesBlock(e.response.bundles[i], s.challenge, s.challenge.blocks[b])
        /\ \/ s.owner = NoOwner /\ AllowUnverifiedOwner
           \/ /\ e.response.ownerSig # BadSignature
              /\ e.response.ownerSig.signer = s.owner
              /\ e.response.ownerSig.digest = ChallengeDigest(s.challenge)

(***************************************************************************)
(* No proof counts for two challenges: the answers behind two verified     *)
(* challenges have no bundle in common, not even when they name the same   *)
(* agent, chain, threshold and blocks, and not across a restart.           *)
(***************************************************************************)
NoBundleCountsTwice ==
  \A c, d \in DOMAIN accepted : c # d =>
     \A i, k \in 1..BLOCK_COUNT :
        accepted[c].response.bundles[i] # accepted[d].response.bundles[k]

(***************************************************************************)
(* Only verified challenges are forwarded, and the submitter hears of each *)
(* at most once: it records what it hears on chain, with no deduplication  *)
(* of its own.                                                             *)
(***************************************************************************)
ForwardedOnce ==
  \A c \in Challenges :
     /\ delivered[c] > 0 => c \in DOMAIN accepted
     /\ delivered[c] + Cardinality({f \in forwarding : f.id = c}) <= 1

(***************************************************************************)
(* The settle report the status page shows: it belongs to a verified       *)
(* challenge, "settled" or "failed" comes with an outcome for every        *)
(* bundle, and a running settle task means the report is still pending.    *)
(***************************************************************************)
SettleReportHonest ==
  /\ \A c \in Live :
       LET k == sessions[c].kurier IN
         /\ k.enabled => Verified(c)
         /\ k.status \in {"settled", "failed"} <=> k.jobs = BLOCK_COUNT
  /\ \A t \in settling :
       /\ Verified(t.id) /\ sessions[t.id].kurier = Pending
       /\ \A u \in settling : u.id = t.id => u = t

(***************************************************************************)
(* Refinement: the service implements ChallengeOnce.  The phase of a       *)
(* challenge is read off its verdict, not off its state: a late            *)
(* resubmission may overwrite the state with "expired" at any time.        *)
(***************************************************************************)
BeingVerified(c) == \E q \in DOMAIN handlers : handlers[q].id = c

Phase(c) ==
  IF c \notin issuedIds THEN "unused"
  ELSE IF c \notin Live THEN "closed"
  ELSE IF Decided(c) THEN sessions[c].verdict
  ELSE IF BeingVerified(c) THEN "claimed"
  ELSE IF sessions[c].state = "issued" THEN "open"
  ELSE "closed"

Abstract == INSTANCE ChallengeOnce WITH phase <- [c \in Challenges |-> Phase(c)]

ImplementsChallengeOnce == Abstract!Spec

(***************************************************************************)
(* While nobody hangs up, every claimed answer gets its verdict.           *)
(***************************************************************************)
AnswersAreJudged ==
  \A c \in Challenges :
     (c \in Live /\ sessions[c].state = "submitted") ~> Decided(c)

(***************************************************************************)
(* While nothing panics, a pending settle report does not stay pending.    *)
(***************************************************************************)
SettleReports ==
  \A c \in Challenges :
     (c \in Live /\ sessions[c].kurier.status = "pending")
       ~> (c \in Live /\ sessions[c].kurier.status \in {"settled", "failed"})

=============================================================================
