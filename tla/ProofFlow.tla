----------------------------- MODULE ProofFlow ------------------------------
(***************************************************************************)
(* prove-web and the challenge service together.  The service is Verifier, *)
(* with its own restarts, dropped requests and clock; prove-web is         *)
(* ProverWeb, with its crashes.  An exchange over HTTP is one step of both *)
(* sides; between a claim and its verdict both sides move on, and the      *)
(* verdict reaches a worker only if that worker still waits for it.        *)
(*                                                                         *)
(* A challenge id is a random value only the job that asked for it knows:  *)
(* nobody else submits to it.                                              *)
(***************************************************************************)
EXTENDS ProverWeb

CONSTANTS
  Nonce, Requests, Responses, Agents, Owners, Thresholds, Selectors, Heads,
  Draws, MaxTime, TTL_SECONDS, WindowDays, SlotOverride, TestnetMode,
  AllowUnverifiedOwner, AllowNoPresentation, AllowDebug, KurierOn, SubmitterOn,
  Faults, NoOwner, NoPresentation, BadSignature

VARIABLES
  now, sessions, issuedIds, handlers, settling, forwarding, delivered, accepted

Service == INSTANCE Verifier

serviceVars == <<now, sessions, issuedIds, handlers, settling, forwarding,
                 delivered, accepted>>
flowVars == <<webVars, serviceVars>>

ASSUME AnswersAreResponses == Answers \subseteq Responses

-----------------------------------------------------------------------------
FlowInit == WebInit /\ Service!Init

(* proveStart gets an id the service issued, perhaps a while ago. *)
StartIssued(j, c) == c \in issuedIds /\ Start(j, c) /\ UNCHANGED serviceVars

(* The POST of response.json to the job's challenge. *)
Rejects(answered) == [verdict |-> "rejected", answered |-> answered]

PostMalformed(j) ==
  /\ At(j, "submit")
  /\ dirs[j].response = Torn
  /\ PostReply(j, NoReply)
  /\ UNCHANGED serviceVars

PostAnswer(j) ==
  /\ At(j, "submit")
  /\ dirs[j].response # Torn
  /\ LET c == dirs[j].challenge
     IN \/ Service!SubmitUnknown(c)  /\ PostReply(j, NoReply)
        \/ Service!SubmitLate(c)     /\ PostReply(j, Rejects(FALSE))
        \/ Service!SubmitAnswered(c) /\ PostReply(j, Rejects(TRUE))
        \/ /\ \E q \in Requests : Service!SubmitClaim(q, c, dirs[j].response)
           /\ PostTaken(j)

(* The verdict on a claimed answer, sent to the worker that waits for it. *)
WaitsFor(j, q) == At(j, "wait") /\ dirs[j].challenge = handlers[q].id

Told(q, reply) ==
  IF \E j \in DOMAIN worker : WaitsFor(j, q)
  THEN \E j \in DOMAIN worker : WaitsFor(j, q) /\ PostReply(j, reply)
  ELSE UNCHANGED webVars

Judge(q) ==
  /\ q \in DOMAIN handlers
  /\ \/ Service!FinishVerified(q) /\ Told(q, [verdict |-> "verified", answered |-> FALSE])
     \/ Service!FinishRejected(q) /\ Told(q, Rejects(FALSE))

(* The GET after "challenge already answered"; it may fail. *)
Ask(j) ==
  /\ At(j, "ask")
  /\ LET c == dirs[j].challenge
     IN \/ Service!Status(c) /\ StatusReply(j, sessions[c].verdict)
        \/ StatusReply(j, NoVerdict) /\ UNCHANGED serviceVars

-----------------------------------------------------------------------------
WebAlone ==
  /\ \/ \E j \in JobIds : \/ Prepare(j) \/ Finalize(j) \/ Resume(j) \/ Prove(j)
                          \/ RecordVerdict(j) \/ RunFails(j)
     \/ AnyCrash
  /\ UNCHANGED serviceVars

ServiceAlone ==
  /\ \/ Service!IssueAny
     \/ \E q \in Requests : Service!DropHandler(q)
     \/ \E c \in Challenges : Service!Status(c)
     \/ Service!Restart
     \/ Service!Tick
  /\ UNCHANGED webVars

FlowNext ==
  \/ \E j \in JobIds : \/ \E c \in Challenges : StartIssued(j, c)
                       \/ PostMalformed(j) \/ PostAnswer(j) \/ Ask(j)
  \/ \E q \in Requests : Judge(q)
  \/ WebAlone
  \/ ServiceAlone

FlowSpec == FlowInit /\ [][FlowNext]_flowVars

-----------------------------------------------------------------------------
ChallengeOf(j) == dirs[j].challenge

(***************************************************************************)
(* A job shown as "verified" is one: the service accepted, for this job's  *)
(* challenge, the very answer in this job's directory, whatever was lost,  *)
(* resumed or submitted again on the way.                                  *)
(***************************************************************************)
VerifiedJobIsVerified ==
  \A j \in DOMAIN jobs : jobs[j].state = "verified" =>
     /\ ChallengeOf(j) \in DOMAIN accepted
     /\ accepted[ChallengeOf(j)].response = dirs[j].response

(***************************************************************************)
(* While prove-web does not crash, a job shown as "rejected" was not       *)
(* accepted and never will be: a lost connection or a service restart      *)
(* makes an error of a job, not a rejection of a good answer.              *)
(***************************************************************************)
FirstVerdictIsFinal ==
  crashes = 0 =>
     \A j \in DOMAIN jobs :
        jobs[j].state = "rejected" => ChallengeOf(j) \notin DOMAIN accepted

(***************************************************************************)
(* The comment on runFinalizeAndSubmit: it "must be idempotent", so after a *)
(* restart it may submit again and records the authoritative verdict.  So  *)
(* a rejection that reaches a worker and is not "already answered" is the  *)
(* service's own: the service does not show this challenge as verified.    *)
(***************************************************************************)
RejectionIsAuthoritative ==
  \A j \in DOMAIN worker :
     At(j, "record") /\ worker[j].reply = Rejects(FALSE)
       => ~Service!Verified(ChallengeOf(j))

=============================================================================
