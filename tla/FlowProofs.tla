----------------------------- MODULE FlowProofs ------------------------------
(***************************************************************************)
(* prove-web and the challenge service together, for any number of jobs,   *)
(* challenges, requests and crashes, and any configuration of the service. *)
(***************************************************************************)
EXTENDS ProofFlow, ProverWebProofs

-----------------------------------------------------------------------------
(***************************************************************************)
(* The invariant.  An answer the service has seen is the one in a job's    *)
(* directory, and challenges tell jobs apart; so a verdict reaches the job *)
(* it is about.                                                            *)
(***************************************************************************)
IsAnswer(c, response) ==
  \E j \in DOMAIN dirs : /\ dirs[j].challenge = c
                         /\ dirs[j].response = response /\ response \in Answers

Distinct == \A j, k \in DOMAIN dirs : dirs[j].challenge = dirs[k].challenge => j = k

SeenInv ==
  /\ \A q \in DOMAIN handlers : IsAnswer(handlers[q].id, handlers[q].response)
  /\ \A c \in DOMAIN accepted : IsAnswer(c, accepted[c].response)

VerdictInv ==
  \A c \in DOMAIN sessions :
     /\ {"state", "verdict"} \subseteq DOMAIN sessions[c]
     /\ sessions[c].verdict \in {NoVerdict, "verified", "rejected"}
     /\ sessions[c].verdict = "verified" => c \in DOMAIN accepted

Accepted(j) == ChallengeOf(j) \in DOMAIN accepted

RunReply(j) ==
  /\ worker[j].stage # "prove" => dirs[j].response # Absent
  /\ worker[j].stage = "ask" => worker[j].reply.verdict # "verified"
  /\ worker[j].stage = "record" /\ worker[j].reply.verdict = "verified" => Accepted(j)

ReplyInv == \A j \in DOMAIN worker : RunReply(j)

ShownInv ==
  /\ \A j \in DOMAIN jobs : jobs[j].state = "verified" => Accepted(j)
  /\ \A j \in DOMAIN dirs :
       dirs[j].job # NoJob /\ dirs[j].job.state = "verified" => Accepted(j)

(***************************************************************************)
(* While prove-web has not crashed, a job claims its challenge once, when  *)
(* it submits: but for a job that waits for its verdict, has it, or has    *)
(* failed, the service has nothing from it, nor will it.                   *)
(***************************************************************************)
Untouched(j) ==
  ~Accepted(j) /\ \A q \in DOMAIN handlers : handlers[q].id # ChallengeOf(j)

OneClaim(j) ==
  /\ ~Accepted(j)
  /\ \A q, r \in DOMAIN handlers :
       handlers[q].id = ChallengeOf(j) /\ handlers[r].id = ChallengeOf(j) => q = r

RunFirst(j) ==
  /\ worker[j].stage \in {"prove", "written", "submit", "ask"} => Untouched(j)
  /\ worker[j].stage = "wait" => OneClaim(j)
  /\ worker[j].stage = "record" /\ worker[j].reply.verdict # "verified" => Untouched(j)

FirstInv ==
  crashes = 0 =>
    /\ DOMAIN dirs = DOMAIN jobs /\ resuming = {}
    /\ \A j \in DOMAIN jobs :
         jobs[j].state \in {"preparing", "awaiting-signatures", "rejected"} => Untouched(j)
    /\ \A j \in DOMAIN worker : RunFirst(j)

FlowInv ==
  /\ KeepInv
  /\ Distinct /\ SeenInv /\ VerdictInv
  /\ ReplyInv /\ ShownInv /\ FirstInv

-----------------------------------------------------------------------------
(***************************************************************************)
(* What a step of prove-web alone, but for a crash, does to the runs and   *)
(* the states of its jobs.                                                 *)
(***************************************************************************)
WebStepOf(j) ==
  \/ \E c \in Challenges : Start(j, c)
  \/ Prepare(j) \/ Finalize(j) \/ Resume(j) \/ Prove(j) \/ RecordVerdict(j) \/ RunFails(j)

RunMoves(k) ==
  \/ k \in DOMAIN worker /\ worker'[k] = worker[k]
  \/ /\ worker'[k].stage \in {"prove", "written", "submit"}
     /\ worker'[k].stage # "prove" => dirs'[k].response # Absent
     /\ \/ k \in DOMAIN worker /\ worker[k].stage \in {"prove", "written"}
        \/ k \in DOMAIN jobs /\ jobs[k].state = "awaiting-signatures"
        \/ k \in resuming

Recorded(k, state) ==
  LET passes == worker[k].reply.verdict = "verified" IN
  /\ k \in DOMAIN worker /\ worker[k].stage = "record"
  /\ (state = "verified" /\ passes) \/ (state = "rejected" /\ ~passes)

JobMoves(k) ==
  LET state == jobs'[k].state IN
  \/ k \in DOMAIN jobs /\ state = jobs[k].state
  \/ state \in {"proving", "error"}
  \/ state = "awaiting-signatures" /\ k \in DOMAIN jobs /\ jobs[k].state = "preparing"
  \/ state = "preparing" /\ k \notin DOMAIN dirs
  \/ Recorded(k, state)

MirrorMoves(k) ==
  \/ k \in DOMAIN dirs /\ dirs'[k].job = dirs[k].job
  \/ k \in DOMAIN jobs' /\ dirs'[k].job = jobs'[k]

WebMoves ==
  /\ crashes' = crashes /\ resuming' \subseteq resuming
  /\ DOMAIN jobs \subseteq DOMAIN jobs' /\ DOMAIN dirs \subseteq DOMAIN dirs'
  /\ DOMAIN dirs = DOMAIN jobs => DOMAIN dirs' = DOMAIN jobs'
  /\ \A k \in DOMAIN worker' : k \in DOMAIN dirs /\ RunMoves(k)
  /\ \A k \in DOMAIN jobs' : JobMoves(k)
  /\ \A k \in DOMAIN dirs' : MirrorMoves(k)

(* Jobs and directories after SetAndSave, or after Start. *)
LEMMA SavedMoves ==
  ASSUME KeepInv, NEW j \in DOMAIN jobs, NEW job \in Job, jobs' = With(jobs, j, job),
         DOMAIN dirs' = DOMAIN dirs, dirs'[j].job = job,
         \A k \in DOMAIN dirs : k # j => dirs'[k] = dirs[k],
         crashes' = crashes, resuming' = resuming,
         \A k \in DOMAIN worker' : k \in DOMAIN dirs /\ RunMoves(k),
         \/ job.state \in {"proving", "error"}
         \/ job.state = "awaiting-signatures" /\ jobs[j].state = "preparing"
         \/ Recorded(j, job.state)
  PROVE  WebMoves
<1>1. DOMAIN jobs' = DOMAIN jobs /\ jobs'[j] = job /\ \A k \in DOMAIN jobs : k # j => jobs'[k] = jobs[k]
  <2>1. DOMAIN jobs \cup {j} = DOMAIN jobs
    OBVIOUS
  <2>. QED
    BY <2>1, JobsWith DEF KeepInv
<1>2. \A k \in DOMAIN jobs' : JobMoves(k)
  BY <1>1 DEF JobMoves
<1>3. \A k \in DOMAIN dirs' : MirrorMoves(k)
  BY <1>1 DEF MirrorMoves
<1>. QED
  BY <1>1, <1>2, <1>3 DEF WebMoves

LEMMA SameRuns ==
  ASSUME KeepInv, UNCHANGED worker
  PROVE  \A k \in DOMAIN worker' : k \in DOMAIN dirs /\ RunMoves(k)
BY DEF RunMoves, KeepInv, WebInv, WebTypeOK

LEMMA BeginMoves ==
  ASSUME KeepInv, NEW j \in DOMAIN jobs, RunFinalizeAndSubmit(j), DOMAIN worker = {},
         jobs[j].state = "awaiting-signatures" \/ j \in resuming,
         dirs'[j].response = dirs[j].response
  PROVE  \A k \in DOMAIN worker' : k \in DOMAIN dirs /\ RunMoves(k)
<1>1. DOMAIN worker' = {j} /\ worker'[j] = Worker(FirstStage(j), NoReply)
  BY DEF RunFinalizeAndSubmit, With
<1>2. /\ worker'[j].stage \in {"prove", "submit"}
      /\ worker'[j].stage # "prove" => dirs[j].response # Absent
  BY <1>1 DEF Worker, FirstStage
<1>. QED
  BY <1>1, <1>2 DEF RunMoves, KeepInv, WebInv, WebTypeOK

LEMMA GotoMoves ==
  ASSUME KeepInv, NEW j \in DOMAIN worker, NEW stage, NEW reply, Goto(j, stage, reply)
  PROVE  /\ DOMAIN worker' = DOMAIN worker /\ worker'[j].stage = stage
         /\ worker'[j].reply = reply /\ j \in DOMAIN jobs /\ j \in DOMAIN dirs
         /\ \A k \in DOMAIN worker : k # j => worker'[k] = worker[k]
<1>1. worker' = [x \in DOMAIN worker \cup {j} |->
                   IF x = j THEN Worker(stage, reply) ELSE worker[x]]
  BY DEF Goto, With
<1>2. DOMAIN worker \cup {j} = DOMAIN worker
  OBVIOUS
<1>3. Worker(stage, reply).stage = stage /\ Worker(stage, reply).reply = reply
  BY DEF Worker
<1>. QED
  BY <1>1, <1>2, <1>3 DEF KeepInv, WebInv, WebTypeOK

LEMMA StartMoves ==
  ASSUME KeepInv, NEW j, NEW c \in Challenges, Start(j, c)
  PROVE  /\ WebMoves /\ j \notin DOMAIN dirs
         /\ DOMAIN dirs' = DOMAIN dirs \cup {j} /\ dirs'[j].challenge = c
         /\ \A k \in DOMAIN dirs : dirs'[k] = dirs[k] /\ dirs[k].challenge # c
<1>. DEFINE job == [state |-> "preparing", verdict |-> NoVerdict, toSign |-> FALSE]
            dir == [challenge |-> c, job |-> job, prepared |-> FALSE,
                    sigs |-> FALSE, response |-> Absent]
<1>1. /\ j \notin DOMAIN dirs /\ DOMAIN jobs \subseteq DOMAIN dirs
      /\ DOMAIN worker \subseteq DOMAIN dirs
      /\ jobs' = With(jobs, j, job) /\ dirs' = With(dirs, j, dir)
      /\ \A k \in DOMAIN dirs : dirs[k].challenge # c
      /\ UNCHANGED <<proving, worker, resuming, crashes>>
  BY DEF Start, KeepInv, WebInv, WebTypeOK
<1>2. job \in Job /\ dir \in Dir
  BY DEF Job, JobStates, JobVerdicts, Dir
<1>3. dir.job = job /\ dir.challenge = c /\ job.state = "preparing"
  OBVIOUS
<1>. HIDE DEF job, dir
<1>4. /\ DOMAIN jobs' = DOMAIN jobs \cup {j} /\ jobs'[j] = job
      /\ \A k \in DOMAIN jobs : jobs'[k] = jobs[k]
  BY <1>1, <1>2, JobsWith DEF KeepInv
<1>5. /\ DOMAIN dirs' = DOMAIN dirs \cup {j} /\ dirs'[j] = dir
      /\ \A k \in DOMAIN dirs : dirs'[k] = dirs[k]
  BY <1>1, <1>2, DirsWith DEF KeepInv
<1>6. \A k \in DOMAIN jobs' : JobMoves(k)
  BY <1>1, <1>3, <1>4 DEF JobMoves
<1>7. \A k \in DOMAIN dirs' : MirrorMoves(k)
  BY <1>3, <1>4, <1>5 DEF MirrorMoves
<1>8. \A k \in DOMAIN worker' : k \in DOMAIN dirs /\ RunMoves(k)
  BY <1>1, SameRuns
<1>. QED
  BY <1>1, <1>3, <1>4, <1>5, <1>6, <1>7, <1>8 DEF WebMoves

LEMMA PrepareMoves ==
  ASSUME KeepInv, NEW j \in JobIds, Prepare(j)
  PROVE  WebMoves /\ DOMAIN dirs' = DOMAIN dirs
<1>1. /\ j \in DOMAIN jobs /\ j \in DOMAIN dirs /\ jobs[j].state = "preparing"
      /\ jobs[j] \in Job /\ dirs[j] \in Dir
  BY DEF Prepare, PrepareWrites, PrepareDone, PrepareFails, KeepInv, WebInv, WebTypeOK,
         PreparingOnly
<1>2. UNCHANGED <<worker, resuming, crashes>>
  BY DEF Prepare, PrepareWrites, PrepareDone, PrepareFails, memory
<1>3. CASE PrepareWrites(j)
  <2>1. dirs' = [dirs EXCEPT ![j].prepared = TRUE] /\ UNCHANGED jobs
    BY <1>3 DEF PrepareWrites, memory
  <2>2. DOMAIN dirs' = DOMAIN dirs /\ \A k \in DOMAIN dirs : dirs'[k].job = dirs[k].job
    BY <1>1, <2>1 DEF KeepInv, WebInv, WebTypeOK, Dir
  <2>3. \A k \in DOMAIN jobs' : JobMoves(k)
    BY <2>1 DEF JobMoves
  <2>4. \A k \in DOMAIN dirs' : MirrorMoves(k)
    BY <2>2 DEF MirrorMoves
  <2>. QED
    BY <1>2, <2>1, <2>2, <2>3, <2>4, SameRuns DEF WebMoves
<1>4. CASE PrepareDone(j) \/ PrepareFails(j)
  <2>1. PICK job \in Job : /\ SetAndSave(j, job)
                           /\ job.state \in {"awaiting-signatures", "error"}
    <3>1. /\ [jobs[j] EXCEPT !.state = "awaiting-signatures", !.toSign = TRUE] \in Job
          /\ [jobs[j] EXCEPT !.state = "error"] \in Job
          /\ [jobs[j] EXCEPT !.state = "awaiting-signatures", !.toSign = TRUE].state
               = "awaiting-signatures"
          /\ [jobs[j] EXCEPT !.state = "error"].state = "error"
      BY <1>1 DEF Job, JobStates, Final
    <3>. QED
      BY <1>4, <3>1 DEF PrepareDone, PrepareFails
  <2>2. /\ jobs' = With(jobs, j, job) /\ DOMAIN dirs' = DOMAIN dirs /\ dirs'[j].job = job
        /\ \A k \in DOMAIN dirs : k # j => dirs'[k] = dirs[k]
    BY <1>1, <2>1 DEF SetAndSave, Dir
  <2>. QED
    BY <1>1, <1>2, <2>1, <2>2, SavedMoves, SameRuns
<1>. QED
  BY <1>3, <1>4 DEF Prepare

LEMMA FinalizeMoves ==
  ASSUME KeepInv, NEW j \in JobIds, Finalize(j)
  PROVE  WebMoves /\ DOMAIN dirs' = DOMAIN dirs
<1>. DEFINE job == [jobs[j] EXCEPT !.state = "proving"]
<1>1. /\ j \in DOMAIN jobs /\ j \in DOMAIN dirs /\ jobs[j].state = "awaiting-signatures"
      /\ jobs[j] \in Job /\ dirs[j] \in Dir /\ DOMAIN worker = {}
  BY DEF Finalize, Finalizable, KeepInv, WebInv, WebTypeOK, OneWorker
<1>2. job \in Job /\ job.state = "proving"
  BY <1>1 DEF Job, JobStates
<1>3. /\ jobs' = With(jobs, j, job) /\ RunFinalizeAndSubmit(j)
      /\ dirs' = [dirs EXCEPT ![j].sigs = TRUE, ![j].job = job]
      /\ UNCHANGED <<resuming, crashes>>
  BY DEF Finalize
<1>. HIDE DEF job
<1>4. /\ DOMAIN dirs' = DOMAIN dirs /\ dirs'[j].job = job
      /\ dirs'[j].response = dirs[j].response
      /\ \A k \in DOMAIN dirs : k # j => dirs'[k] = dirs[k]
  BY <1>1, <1>3 DEF Dir
<1>5. \A k \in DOMAIN worker' : k \in DOMAIN dirs /\ RunMoves(k)
  BY <1>1, <1>3, <1>4, BeginMoves
<1>. QED
  BY <1>1, <1>2, <1>3, <1>4, <1>5, SavedMoves

LEMMA ResumeMoves ==
  ASSUME KeepInv, NEW j \in JobIds, Resume(j)
  PROVE  WebMoves /\ DOMAIN dirs' = DOMAIN dirs
<1>1. /\ j \in DOMAIN jobs /\ DOMAIN worker = {} /\ RunFinalizeAndSubmit(j)
      /\ UNCHANGED <<jobs, dirs, crashes>> /\ j \in resuming /\ resuming' \subseteq resuming
  BY DEF Resume, KeepInv, WebInv, WebTypeOK, OneWorker
<1>2. \A k \in DOMAIN worker' : k \in DOMAIN dirs /\ RunMoves(k)
  BY <1>1, BeginMoves
<1>. QED
  BY <1>1, <1>2 DEF WebMoves, JobMoves, MirrorMoves

LEMMA ProveMoves ==
  ASSUME KeepInv, ReplyInv, NEW j \in JobIds, Prove(j)
  PROVE  WebMoves /\ DOMAIN dirs' = DOMAIN dirs
<1>1. /\ j \in DOMAIN worker /\ j \in DOMAIN dirs /\ UNCHANGED <<jobs, resuming, crashes>>
      /\ worker[j].stage \in {"prove", "written"}
      /\ \A k \in DOMAIN worker : k \in DOMAIN dirs
      /\ dirs \in [DOMAIN dirs -> Dir]
  BY DEF Prove, ProveWrites, ProveDone, At, KeepInv, WebInv, WebTypeOK
<1>2. \A k \in DOMAIN jobs' : JobMoves(k)
  BY <1>1 DEF JobMoves
<1>3. CASE ProveWrites(j)
  <2>1. AnswersTo[dirs[j].challenge] \subseteq Answers
    BY <1>1, AnswersAssumption DEF Dir, Answers
  <2>2. PICK answer \in Answers : dirs' = [dirs EXCEPT ![j].response = answer]
    BY <1>3, <2>1 DEF ProveWrites
  <2>3. answer # Absent
    BY AnswersAssumption DEF Answers
  <2>4. /\ DOMAIN dirs' = DOMAIN dirs /\ dirs'[j].response # Absent
        /\ \A k \in DOMAIN dirs : dirs'[k].job = dirs[k].job
    BY <1>1, <2>2, <2>3 DEF Dir
  <2>5. /\ DOMAIN worker' = DOMAIN worker /\ worker'[j].stage = "written"
        /\ \A k \in DOMAIN worker : k # j => worker'[k] = worker[k]
    BY <1>1, <1>3, GotoMoves DEF ProveWrites
  <2>6. \A k \in DOMAIN worker' : k \in DOMAIN dirs /\ RunMoves(k)
    BY <1>1, <2>4, <2>5 DEF RunMoves
  <2>7. \A k \in DOMAIN dirs' : MirrorMoves(k)
    BY <2>4 DEF MirrorMoves
  <2>. QED
    BY <1>1, <1>2, <2>4, <2>6, <2>7 DEF WebMoves
<1>4. CASE ProveDone(j)
  <2>1. /\ DOMAIN worker' = DOMAIN worker /\ worker'[j].stage = "submit"
        /\ \A k \in DOMAIN worker : k # j => worker'[k] = worker[k]
    BY <1>1, <1>4, GotoMoves DEF ProveDone
  <2>2. dirs' = dirs /\ dirs[j].response # Absent
    BY <1>1, <1>4 DEF ProveDone, At, ReplyInv, RunReply
  <2>3. \A k \in DOMAIN worker' : k \in DOMAIN dirs /\ RunMoves(k)
    BY <1>1, <2>1, <2>2 DEF RunMoves
  <2>4. \A k \in DOMAIN dirs' : MirrorMoves(k)
    BY <2>2 DEF MirrorMoves
  <2>. QED
    BY <1>1, <1>2, <2>2, <2>3, <2>4 DEF WebMoves
<1>. QED
  BY <1>3, <1>4 DEF Prove

LEMMA EndRunMoves ==
  ASSUME KeepInv, NEW j \in JobIds, RecordVerdict(j) \/ RunFails(j)
  PROVE  WebMoves /\ DOMAIN dirs' = DOMAIN dirs
<1>1. /\ j \in DOMAIN worker /\ j \in DOMAIN jobs /\ j \in DOMAIN dirs
      /\ jobs[j] \in Job /\ dirs[j] \in Dir
      /\ worker[j].reply.verdict \in {NoVerdict, "verified", "rejected"}
      /\ DOMAIN worker \subseteq DOMAIN dirs
  BY DEF RecordVerdict, RunFails, At, KeepInv, WebInv, WebTypeOK, Reply
<1>2. PICK state \in Final, verdict \in JobVerdicts :
        EndRun(j, state, verdict) /\ (state = "error" \/ Recorded(j, state))
  <2>1. CASE RecordVerdict(j)
    BY <1>1, <2>1 DEF RecordVerdict, Recorded, At, Final, JobVerdicts
  <2>2. CASE RunFails(j)
    BY <1>1, <2>2 DEF RunFails, Final, Job
  <2>. QED
    BY <2>1, <2>2
<1>. DEFINE job == [jobs[j] EXCEPT !.state = state, !.verdict = verdict]
<1>3. job \in Job /\ job.state = state
  BY <1>1 DEF Job, JobStates
<1>4. /\ jobs' = With(jobs, j, job) /\ dirs' = [dirs EXCEPT ![j].job = job]
      /\ worker' = Without(worker, j) /\ UNCHANGED <<resuming, crashes>>
  BY <1>2 DEF EndRun, SetAndSave
<1>. HIDE DEF job
<1>5. /\ DOMAIN dirs' = DOMAIN dirs /\ dirs'[j].job = job
      /\ \A k \in DOMAIN dirs : k # j => dirs'[k] = dirs[k]
  BY <1>1, <1>4 DEF Dir
<1>6. \A k \in DOMAIN worker' : k \in DOMAIN dirs /\ RunMoves(k)
  BY <1>1, <1>4 DEF Without, Restrict, RunMoves
<1>. QED
  BY <1>1, <1>2, <1>3, <1>4, <1>5, <1>6, SavedMoves

-----------------------------------------------------------------------------
(***************************************************************************)
(* No step, and no crash, forgets a directory or changes its challenge; so *)
(* an answer stays the one it was.                                         *)
(***************************************************************************)
DirsGrow ==
  \A k \in DOMAIN dirs : k \in DOMAIN dirs' /\ dirs'[k].challenge = dirs[k].challenge

LEMMA FileChanges ==
  ASSUME KeepInv, NEW j, NEW v,
         \/ dirs' = [dirs EXCEPT ![j].job = v] \/ dirs' = [dirs EXCEPT ![j].prepared = v]
         \/ dirs' = [dirs EXCEPT ![j].sigs = v] \/ dirs' = [dirs EXCEPT ![j].response = v]
         \/ dirs' = [dirs EXCEPT ![j].sigs = TRUE, ![j].job = v]
  PROVE  DirsGrow
<1>. dirs \in [DOMAIN dirs -> Dir]
  BY DEF KeepInv, WebInv, WebTypeOK
<1>. QED
  BY DEF DirsGrow, Dir

LEMMA DirsOnlyGrow == ASSUME KeepInv, [WebNext]_webVars PROVE DirsGrow
<1>1. CASE UNCHANGED dirs
  BY <1>1 DEF DirsGrow
<1>2. ASSUME NEW j \in JobIds, NEW c \in Challenges, Start(j, c) PROVE DirsGrow
  BY <1>2, StartMoves DEF DirsGrow
<1>3. ASSUME NEW j \in JobIds, Prepare(j) PROVE DirsGrow
  BY <1>3, FileChanges DEF Prepare, PrepareWrites, PrepareDone, PrepareFails, SetAndSave
<1>4. ASSUME NEW j \in JobIds, Finalize(j) PROVE DirsGrow
  BY <1>4, FileChanges DEF Finalize
<1>5. ASSUME NEW j \in JobIds, Resume(j) PROVE UNCHANGED dirs
  BY <1>5 DEF Resume
<1>6. ASSUME NEW j \in JobIds, Run(j) PROVE DirsGrow
  <2>1. CASE Prove(j)
    BY <1>1, <2>1, FileChanges DEF Prove, ProveWrites, ProveDone
  <2>2. CASE Exchange(j)
    BY <1>1, <2>2 DEF Exchange, PostTaken, PostReply, StatusReply
  <2>3. CASE RecordVerdict(j) \/ RunFails(j)
    BY <2>3, FileChanges DEF RecordVerdict, RunFails, EndRun, SetAndSave
  <2>. QED
    BY <1>6, <2>1, <2>2, <2>3 DEF Run
<1>7. ASSUME AnyCrash PROVE DirsGrow
  BY <1>1, <1>7, FileChanges
     DEF AnyCrash, Crash, CrashInFinalize, CrashInResponse, CrashInSave, RestartFrom
<1>8. CASE UNCHANGED webVars
  BY <1>1, <1>8 DEF webVars
<1>. QED
  BY <1>1, <1>2, <1>3, <1>4, <1>5, <1>6, <1>7, <1>8 DEF WebNext

LEMMA AnswersStay ==
  ASSUME KeepInv, [WebNext]_webVars, NEW c, NEW response, IsAnswer(c, response)
  PROVE  IsAnswer(c, response)'
<1>1. PICK j \in DOMAIN dirs : /\ dirs[j].challenge = c
                               /\ dirs[j].response = response /\ response \in Answers
  BY DEF IsAnswer
<1>2. response # Absent
  BY <1>1, AnswersAssumption DEF Answers
<1>3. dirs'[j].response = dirs[j].response
  <2>1. CASE WebNext
    BY <1>1, <1>2, <2>1, WebKept DEF Kept, ProofKept
  <2>2. CASE UNCHANGED webVars
    BY <2>2 DEF webVars
  <2>. QED
    BY <2>1, <2>2
<1>. QED
  BY <1>1, <1>3, DirsOnlyGrow DEF DirsGrow, IsAnswer

(* Nor a step of prove-web that leaves the service alone, what the service *)
(* has seen.                                                               *)
LEMMA SeenStays ==
  ASSUME KeepInv, SeenInv, [WebNext]_webVars, UNCHANGED serviceVars
  PROVE  SeenInv'
<1>1. UNCHANGED <<handlers, accepted>>
  BY DEF serviceVars
<1>. QED
  BY <1>1, AnswersStay DEF SeenInv

-----------------------------------------------------------------------------
(***************************************************************************)
(* prove-web moves on, and the service stands still.                       *)
(***************************************************************************)
LEMMA ClaimsStay ==
  ASSUME KeepInv, DirsGrow, UNCHANGED serviceVars, NEW j \in DOMAIN dirs
  PROVE  /\ Accepted(j)' <=> Accepted(j)
         /\ Untouched(j)' <=> Untouched(j)
         /\ OneClaim(j)' <=> OneClaim(j)
<1>1. UNCHANGED <<handlers, accepted>> /\ ChallengeOf(j)' = ChallengeOf(j)
  BY DEF serviceVars, DirsGrow, ChallengeOf
<1>. QED
  BY <1>1 DEF Accepted, Untouched, OneClaim

LEMMA FreshChallenge ==
  ASSUME SeenInv, DirsGrow, Distinct', UNCHANGED serviceVars,
         NEW j \in DOMAIN dirs', j \notin DOMAIN dirs
  PROVE  Untouched(j)'
<1>1. UNCHANGED <<handlers, accepted>> /\ ChallengeOf(j)' = dirs'[j].challenge
  BY DEF serviceVars, ChallengeOf
<1>2. \A c, response : IsAnswer(c, response) => c # dirs'[j].challenge
  BY DEF IsAnswer, DirsGrow, Distinct
<1>. QED
  BY <1>1, <1>2 DEF SeenInv, Untouched, Accepted

LEMMA WebMovesInv ==
  ASSUME FlowInv, WebNext, WebMoves, Distinct', UNCHANGED serviceVars
  PROVE  FlowInv'
<1>1. KeepInv' /\ ProofKept
  BY WebStep, WebKept DEF FlowInv, KeepInv, Kept
<1>2. DirsGrow /\ SeenInv'
  BY DirsOnlyGrow, SeenStays DEF FlowInv
<1>3. VerdictInv'
  BY DEF FlowInv, VerdictInv, serviceVars
<1>4. \A j \in DOMAIN dirs : /\ Accepted(j)' <=> Accepted(j)
                             /\ Untouched(j)' <=> Untouched(j)
                             /\ OneClaim(j)' <=> OneClaim(j)
  BY <1>2, ClaimsStay DEF FlowInv
<1>5. DOMAIN jobs \subseteq DOMAIN dirs /\ DOMAIN worker \subseteq DOMAIN dirs
      /\ DOMAIN jobs' \subseteq DOMAIN dirs'
  BY <1>1 DEF FlowInv, KeepInv, WebInv, WebTypeOK
<1>6. ReplyInv'
  <2>1. ASSUME NEW j \in DOMAIN worker' PROVE RunReply(j)'
    <3>1. j \in DOMAIN dirs /\ RunMoves(j) /\ (Accepted(j)' <=> Accepted(j))
      BY <1>4, <2>1 DEF WebMoves
    <3>2. dirs[j].response # Absent => dirs'[j].response # Absent
      BY <1>1, <3>1 DEF ProofKept
    <3>3. CASE j \in DOMAIN worker /\ worker'[j] = worker[j]
      BY <3>1, <3>2, <3>3 DEF FlowInv, ReplyInv, RunReply
    <3>4. CASE ~(j \in DOMAIN worker /\ worker'[j] = worker[j])
      BY <3>1, <3>4 DEF RunMoves, RunReply
    <3>. QED
      BY <3>3, <3>4
  <2>. QED
    BY <2>1 DEF ReplyInv
<1>7. \A j \in DOMAIN jobs' : jobs'[j].state = "verified" => j \in DOMAIN dirs /\ Accepted(j)
  BY <1>5 DEF WebMoves, JobMoves, Recorded, FlowInv, ShownInv, ReplyInv, RunReply
<1>8. ShownInv'
  <2>1. \A j \in DOMAIN jobs' : jobs'[j].state = "verified" => Accepted(j)'
    BY <1>4, <1>7
  <2>2. ASSUME NEW j \in DOMAIN dirs', dirs'[j].job # NoJob, dirs'[j].job.state = "verified"
        PROVE  Accepted(j)'
    BY <1>4, <2>1, <2>2 DEF WebMoves, MirrorMoves, FlowInv, ShownInv
  <2>. QED
    BY <2>1, <2>2 DEF ShownInv
<1>9. FirstInv'
  <2>. SUFFICES ASSUME crashes' = 0
                PROVE  /\ DOMAIN dirs' = DOMAIN jobs' /\ resuming' = {}
                       /\ \A j \in DOMAIN jobs' :
                            jobs'[j].state \in {"preparing", "awaiting-signatures", "rejected"}
                              => Untouched(j)'
                       /\ \A j \in DOMAIN worker' : RunFirst(j)'
    BY DEF FirstInv
  <2>1. /\ DOMAIN dirs = DOMAIN jobs /\ resuming = {}
        /\ \A j \in DOMAIN jobs :
             jobs[j].state \in {"preparing", "awaiting-signatures", "rejected"} => Untouched(j)
        /\ \A j \in DOMAIN worker : RunFirst(j)
    BY DEF WebMoves, FlowInv, FirstInv
  <2>2. DOMAIN dirs' = DOMAIN jobs' /\ resuming' = {}
    BY <2>1 DEF WebMoves
  <2>3. ASSUME NEW j \in DOMAIN jobs',
               jobs'[j].state \in {"preparing", "awaiting-signatures", "rejected"}
        PROVE  Untouched(j)'
    <3>1. CASE j \notin DOMAIN dirs
      BY <1>2, <1>5, <2>3, <3>1, FreshChallenge DEF FlowInv
    <3>2. CASE j \in DOMAIN dirs
      <4>1. Untouched(j)
        BY <2>1, <2>3, <3>2 DEF WebMoves, JobMoves, Recorded, RunFirst
      <4>. QED
        BY <1>4, <3>2, <4>1
    <3>. QED
      BY <3>1, <3>2
  <2>4. ASSUME NEW j \in DOMAIN worker' PROVE RunFirst(j)'
    <3>1. /\ j \in DOMAIN dirs /\ RunMoves(j)
          /\ Untouched(j)' <=> Untouched(j)
          /\ OneClaim(j)' <=> OneClaim(j)
      BY <1>4, <2>4 DEF WebMoves
    <3>2. CASE j \in DOMAIN worker /\ worker'[j] = worker[j]
      BY <2>1, <3>1, <3>2 DEF RunFirst
    <3>3. CASE ~(j \in DOMAIN worker /\ worker'[j] = worker[j])
      <4>1. Untouched(j) /\ worker'[j].stage \in {"prove", "written", "submit"}
        BY <2>1, <3>1, <3>3 DEF RunMoves, RunFirst
      <4>. QED
        BY <3>1, <4>1 DEF RunFirst
    <3>. QED
      BY <3>2, <3>3
  <2>. QED
    BY <2>2, <2>3, <2>4
<1>. QED
  BY <1>1, <1>2, <1>3, <1>6, <1>8, <1>9 DEF FlowInv

LEMMA StayDistinct ==
  ASSUME KeepInv, Distinct, [WebNext]_webVars, DOMAIN dirs' = DOMAIN dirs
  PROVE  Distinct'
BY DirsOnlyGrow DEF DirsGrow, Distinct

LEMMA WebStepInv ==
  ASSUME FlowInv, NEW j \in JobIds, WebStepOf(j), UNCHANGED serviceVars
  PROVE  FlowInv'
<1>1. WebNext
  BY DEF WebStepOf, WebNext, Run
<1>2. KeepInv /\ ReplyInv /\ Distinct
  BY DEF FlowInv
<1>3. CASE \E c \in Challenges : Start(j, c)
  <2>1. PICK c \in Challenges : Start(j, c)
    BY <1>3
  <2>2. /\ WebMoves /\ j \notin DOMAIN dirs
        /\ DOMAIN dirs' = DOMAIN dirs \cup {j} /\ dirs'[j].challenge = c
        /\ \A k \in DOMAIN dirs : dirs'[k] = dirs[k] /\ dirs[k].challenge # c
    BY <1>2, <2>1, StartMoves
  <2>3. Distinct'
    BY <1>2, <2>2 DEF Distinct
  <2>. QED
    BY <1>1, <2>2, <2>3, WebMovesInv
<1>4. CASE ~\E c \in Challenges : Start(j, c)
  <2>1. WebMoves /\ DOMAIN dirs' = DOMAIN dirs
    BY <1>2, <1>4, PrepareMoves, FinalizeMoves, ResumeMoves, ProveMoves, EndRunMoves
       DEF WebStepOf
  <2>2. Distinct'
    BY <1>1, <1>2, <2>1, StayDistinct
  <2>. QED
    BY <1>1, <2>1, <2>2, WebMovesInv
<1>. QED
  BY <1>3, <1>4

(***************************************************************************)
(* A crash: jobs come back from their mirrors.                             *)
(***************************************************************************)
LEMMA CrashedDisk ==
  ASSUME KeepInv, AnyCrash
  PROVE  \E disk : /\ RestartFrom(disk) /\ DOMAIN disk = DOMAIN dirs
                   /\ \A k \in DOMAIN dirs : disk[k].job \in {dirs[k].job, NoJob}
<1>1. dirs \in [DOMAIN dirs -> Dir]
  BY DEF KeepInv, WebInv, WebTypeOK
<1>2. CASE Crash
  BY <1>2 DEF Crash
<1>3. ASSUME NEW j \in JobIds, CrashInFinalize(j) \/ CrashInResponse(j) \/ CrashInSave(j)
      PROVE  \E disk : /\ RestartFrom(disk) /\ DOMAIN disk = DOMAIN dirs
                       /\ \A k \in DOMAIN dirs : disk[k].job \in {dirs[k].job, NoJob}
  <2>1. PICK disk : /\ RestartFrom(disk)
                    /\ \/ disk = [dirs EXCEPT ![j].sigs = TRUE]
                       \/ disk = [dirs EXCEPT ![j].response = Torn]
                       \/ disk = [dirs EXCEPT ![j].job = NoJob]
    BY <1>3 DEF CrashInFinalize, CrashInResponse, CrashInSave
  <2>2. /\ DOMAIN disk = DOMAIN dirs
        /\ \A k \in DOMAIN dirs : disk[k].job \in {dirs[k].job, NoJob}
    BY <1>1, <2>1 DEF Dir
  <2>. QED
    BY <2>1, <2>2
<1>. QED
  BY <1>2, <1>3 DEF AnyCrash

LEMMA CrashFlowInv == ASSUME FlowInv, AnyCrash, UNCHANGED serviceVars PROVE FlowInv'
<1>0. WebNext /\ KeepInv /\ Distinct /\ SeenInv
  BY DEF WebNext, FlowInv
<1>1. PICK disk : /\ RestartFrom(disk) /\ DOMAIN disk = DOMAIN dirs
                  /\ \A k \in DOMAIN dirs : disk[k].job \in {dirs[k].job, NoJob}
  BY <1>0, CrashedDisk
<1>2. /\ dirs' = disk /\ DOMAIN worker' = {}
      /\ crashes' = crashes + 1 /\ crashes \in Nat
      /\ jobs' = [j \in {k \in DOMAIN disk : disk[k].job # NoJob} |-> Rehydrated(disk[j])]
  BY <1>0, <1>1, BoundAssumption DEF RestartFrom, KeepInv, WebInv, WebTypeOK
<1>3. KeepInv'
  BY <1>0, WebStep, WebKept DEF KeepInv, Kept
<1>4. DirsGrow /\ SeenInv' /\ Distinct'
  BY <1>0, <1>1, <1>2, DirsOnlyGrow, SeenStays, StayDistinct
<1>5. VerdictInv'
  BY DEF FlowInv, VerdictInv, serviceVars
<1>6. ReplyInv' /\ FirstInv'
  BY <1>2 DEF ReplyInv, FirstInv
<1>7. ShownInv'
  <2>1. \A j \in DOMAIN dirs : Accepted(j)' <=> Accepted(j)
    BY <1>0, <1>4, ClaimsStay
  <2>2. \A j \in DOMAIN dirs' :
          dirs'[j].job # NoJob /\ dirs'[j].job.state = "verified" => Accepted(j)'
    BY <1>1, <1>2, <2>1 DEF FlowInv, ShownInv
  <2>3. ASSUME NEW j \in DOMAIN jobs', jobs'[j].state = "verified"
        PROVE  Accepted(j)'
    <3>1. j \in DOMAIN dirs' /\ dirs'[j].job # NoJob /\ jobs'[j] = Rehydrated(dirs'[j])
      BY <1>2
    <3>2. dirs'[j].job \in Job
      BY <1>3, <3>1 DEF KeepInv, WebInv, WebTypeOK, Dir
    <3>3. dirs'[j].job.state = "verified"
      BY <2>3, <3>1, <3>2 DEF Rehydrated, Job
    <3>. QED
      BY <2>2, <3>1, <3>3
  <2>. QED
    BY <2>2, <2>3 DEF ShownInv
<1>. QED
  BY <1>3, <1>4, <1>5, <1>6, <1>7 DEF FlowInv

-----------------------------------------------------------------------------
(***************************************************************************)
(* What a step of the service does to its requests and verdicts: one that  *)
(* neither claims nor accepts, a claim, and an acceptance.                 *)
(***************************************************************************)
Quiet ==
  /\ accepted' = accepted /\ VerdictInv'
  /\ DOMAIN handlers' \subseteq DOMAIN handlers
  /\ \A q \in DOMAIN handlers' : handlers'[q] = handlers[q]

LEMMA StateSet ==
  ASSUME VerdictInv, NEW c, NEW state, sessions' = Service!SetState(c, state),
         accepted' = accepted
  PROVE  VerdictInv'
<1>1. /\ DOMAIN sessions' = DOMAIN sessions
      /\ \A d \in DOMAIN sessions :
           /\ DOMAIN sessions'[d] = DOMAIN sessions[d]
           /\ sessions'[d].verdict = sessions[d].verdict
  BY DEF Service!SetState, VerdictInv
<1>. QED
  BY <1>1 DEF VerdictInv

LEMMA AnsweringIsQuiet ==
  ASSUME VerdictInv, NEW c,
         \/ Service!SubmitUnknown(c) \/ Service!SubmitLate(c)
         \/ Service!SubmitAnswered(c) \/ Service!Status(c)
  PROVE  Quiet
<1>1. accepted' = accepted /\ handlers' = handlers
  BY DEF Service!SubmitUnknown, Service!SubmitLate, Service!SubmitAnswered,
         Service!Status, Service!vars
<1>2. sessions' = sessions \/ \E state : sessions' = Service!SetState(c, state)
  BY DEF Service!SubmitUnknown, Service!SubmitLate, Service!SubmitAnswered,
         Service!Status, Service!vars
<1>3. VerdictInv'
  <2>1. CASE sessions' = sessions
    BY <1>1, <2>1 DEF VerdictInv
  <2>. QED
    BY <1>1, <1>2, <2>1, StateSet
<1>. QED
  BY <1>1, <1>3 DEF Quiet

LEMMA RejectionIsQuiet ==
  ASSUME VerdictInv, NEW q, Service!FinishRejected(q)
  PROVE  /\ Quiet /\ DOMAIN handlers' = DOMAIN handlers \ {q}
         /\ q \in DOMAIN handlers
<1>. DEFINE c == handlers[q].id
<1>1. /\ sessions' = [sessions EXCEPT ![c].state = "rejected", ![c].verdict = "rejected"]
      /\ handlers' = Service!Without(handlers, q) /\ accepted' = accepted
      /\ q \in DOMAIN handlers
  BY DEF Service!FinishRejected
<1>. HIDE DEF c
<1>2. /\ DOMAIN handlers' = DOMAIN handlers \ {q}
      /\ \A r \in DOMAIN handlers' : handlers'[r] = handlers[r]
  BY <1>1 DEF Service!Without, Service!Restrict
<1>3. /\ DOMAIN sessions' = DOMAIN sessions
      /\ \A d \in DOMAIN sessions :
           /\ DOMAIN sessions'[d] = DOMAIN sessions[d]
           /\ sessions'[d].verdict \in {sessions[d].verdict, "rejected"}
  BY <1>1 DEF VerdictInv
<1>4. VerdictInv'
  BY <1>1, <1>3 DEF VerdictInv
<1>. QED
  BY <1>1, <1>2, <1>4 DEF Quiet

LEMMA AloneIsQuiet ==
  ASSUME VerdictInv, ServiceAlone
  PROVE  Quiet
<1>1. CASE Service!IssueAny
  <2>1. PICK c, session :
          /\ sessions' = Service!With(sessions, c, session)
          /\ {"state", "verdict"} \subseteq DOMAIN session
          /\ session.verdict = NoVerdict
          /\ UNCHANGED <<handlers, accepted>>
    BY <1>1 DEF Service!IssueAny, Service!Issue, Service!NoVerdict, NoVerdict
  <2>2. VerdictInv'
    <3>1. /\ DOMAIN sessions' = DOMAIN sessions \cup {c} /\ sessions'[c] = session
          /\ \A d \in DOMAIN sessions : d # c => sessions'[d] = sessions[d]
      BY <2>1 DEF Service!With
    <3>. QED
      BY <2>1, <3>1 DEF VerdictInv, NoVerdict
  <2>. QED
    BY <2>1, <2>2 DEF Quiet
<1>2. ASSUME NEW q, Service!DropHandler(q) PROVE Quiet
  <2>1. handlers' = Service!Without(handlers, q) /\ UNCHANGED <<sessions, accepted>>
    BY <1>2 DEF Service!DropHandler
  <2>2. /\ DOMAIN handlers' \subseteq DOMAIN handlers
        /\ \A r \in DOMAIN handlers' : handlers'[r] = handlers[r]
    BY <2>1 DEF Service!Without, Service!Restrict
  <2>. QED
    BY <2>1, <2>2 DEF Quiet, VerdictInv
<1>3. ASSUME NEW c, Service!Status(c) PROVE Quiet
  BY <1>3, AnsweringIsQuiet
<1>4. CASE Service!Restart
  <2>1. DOMAIN sessions' = {} /\ DOMAIN handlers' = {} /\ accepted' = accepted
    BY <1>4 DEF Service!Restart
  <2>. QED
    BY <2>1 DEF Quiet, VerdictInv
<1>5. CASE Service!Tick
  BY <1>5 DEF Service!Tick, Quiet, VerdictInv
<1>. QED
  BY <1>1, <1>2, <1>3, <1>4, <1>5 DEF ServiceAlone

LEMMA ClaimAdds ==
  ASSUME VerdictInv, NEW q, NEW c, NEW response, Service!SubmitClaim(q, c, response)
  PROVE  /\ accepted' = accepted /\ VerdictInv' /\ q \notin DOMAIN handlers
         /\ DOMAIN handlers' = DOMAIN handlers \cup {q}
         /\ handlers'[q].id = c /\ handlers'[q].response = response
         /\ \A r \in DOMAIN handlers : handlers'[r] = handlers[r]
<1>1. /\ accepted' = accepted /\ sessions' = Service!SetState(c, "submitted")
      /\ q \notin DOMAIN handlers
  BY DEF Service!SubmitClaim
<1>2. VerdictInv'
  BY <1>1, StateSet
<1>. QED
  BY <1>1, <1>2 DEF Service!SubmitClaim, Service!With

LEMMA AcceptanceAdds ==
  ASSUME VerdictInv, NEW q, Service!FinishVerified(q)
  PROVE  LET c == handlers[q].id IN
         /\ VerdictInv' /\ q \in DOMAIN handlers
         /\ DOMAIN handlers' = DOMAIN handlers \ {q}
         /\ \A r \in DOMAIN handlers' : handlers'[r] = handlers[r]
         /\ DOMAIN accepted' = DOMAIN accepted \cup {c}
         /\ accepted'[c].response = handlers[q].response
         /\ \A d \in DOMAIN accepted : d # c => accepted'[d] = accepted[d]
<1>. DEFINE c == handlers[q].id
            report == IF KurierOn THEN Service!Pending ELSE sessions[c].kurier
<1>1. /\ sessions' = [sessions EXCEPT ![c].state = "verified", ![c].verdict = "verified",
                                      ![c].kurier = report]
      /\ handlers' = Service!Without(handlers, q)
      /\ accepted' = Service!With(accepted, c, [response |-> handlers[q].response,
                                                at |-> handlers[q].at])
      /\ q \in DOMAIN handlers
  BY DEF Service!FinishVerified
<1>2. /\ DOMAIN handlers' = DOMAIN handlers \ {q}
      /\ \A r \in DOMAIN handlers' : handlers'[r] = handlers[r]
  BY <1>1 DEF Service!Without, Service!Restrict
<1>3. /\ DOMAIN accepted' = DOMAIN accepted \cup {c}
      /\ accepted'[c].response = handlers[q].response
      /\ \A d \in DOMAIN accepted : d # c => accepted'[d] = accepted[d]
  BY <1>1 DEF Service!With
<1>. HIDE DEF c, report
<1>4. /\ DOMAIN sessions' = DOMAIN sessions
      /\ \A d \in DOMAIN sessions :
           /\ DOMAIN sessions'[d] = DOMAIN sessions[d]
           /\ \/ sessions'[d].verdict = sessions[d].verdict
              \/ d = c /\ sessions'[d].verdict = "verified"
  BY <1>1 DEF VerdictInv
<1>5. VerdictInv'
  BY <1>3, <1>4 DEF VerdictInv
<1>. QED
  BY <1>1, <1>2, <1>3, <1>5 DEF c

-----------------------------------------------------------------------------
(***************************************************************************)
(* Whatever the service does, what prove-web does is a step of ProverWeb:  *)
(* the service's replies are among those ProverWeb expects.                *)
(***************************************************************************)
LEMMA FlowIsWeb == ASSUME FlowInv, FlowNext PROVE [WebNext]_webVars
<1>0. /\ DOMAIN worker \subseteq JobIds
      /\ \A answered \in BOOLEAN : Rejects(answered) \in Reply
      /\ NoReply \in Reply /\ [verdict |-> "verified", answered |-> FALSE] \in Reply
  BY DEF FlowInv, KeepInv, WebInv, WebTypeOK, Rejects, NoReply, Reply
<1>1. ASSUME NEW j \in JobIds, NEW reply \in Reply, PostReply(j, reply) PROVE WebNext
  BY <1>1 DEF WebNext, Run, Exchange
<1>2. ASSUME NEW j \in JobIds, NEW c \in Challenges, StartIssued(j, c) PROVE WebNext
  BY <1>2 DEF StartIssued, WebNext
<1>3. ASSUME NEW j \in JobIds, PostMalformed(j) PROVE WebNext
  BY <1>0, <1>1, <1>3 DEF PostMalformed
<1>4. ASSUME NEW j \in JobIds, PostAnswer(j) PROVE WebNext
  BY <1>0, <1>1, <1>4 DEF PostAnswer, WebNext, Run, Exchange
<1>5. ASSUME NEW j \in JobIds, Ask(j) PROVE WebNext
  <2>1. PICK verdict : StatusReply(j, verdict) /\ verdict \in {NoVerdict, "verified", "rejected"}
    BY <1>5 DEF Ask, Service!Status, Service!Live, FlowInv, VerdictInv
  <2>. QED
    BY <2>1 DEF WebNext, Run, Exchange
<1>6. ASSUME NEW q, Judge(q) PROVE [WebNext]_webVars
  BY <1>0, <1>1, <1>6 DEF Judge, Told
<1>7. CASE WebAlone
  BY <1>7 DEF WebAlone, WebNext, Run
<1>8. CASE ServiceAlone
  BY <1>8 DEF ServiceAlone
<1>. QED
  BY <1>2, <1>3, <1>4, <1>5, <1>6, <1>7, <1>8 DEF FlowNext

-----------------------------------------------------------------------------
(***************************************************************************)
(* An exchange moves one run and nothing else of prove-web.                *)
(***************************************************************************)
LEMMA ExchangeHolds ==
  ASSUME FlowInv, KeepInv', SeenInv', VerdictInv',
         UNCHANGED <<jobs, dirs, resuming, crashes>>,
         DOMAIN accepted \subseteq DOMAIN accepted',
         \A j \in DOMAIN jobs : jobs[j].state # "proving" /\ Untouched(j) => Untouched(j)',
         \A j \in DOMAIN worker' : RunReply(j)',
         crashes = 0 => \A j \in DOMAIN worker' : RunFirst(j)'
  PROVE  FlowInv'
<1>1. Distinct' /\ ReplyInv'
  BY DEF FlowInv, Distinct, ReplyInv
<1>2. ShownInv'
  BY DEF FlowInv, ShownInv, Accepted, ChallengeOf
<1>3. FirstInv'
  BY DEF FlowInv, FirstInv
<1>. QED
  BY <1>1, <1>2, <1>3 DEF FlowInv

LEMMA QuietKeeps ==
  ASSUME SeenInv, Quiet, UNCHANGED dirs
  PROVE  /\ SeenInv'
         /\ \A j : /\ Accepted(j)' <=> Accepted(j)
                   /\ Untouched(j) => Untouched(j)'
                   /\ OneClaim(j) => OneClaim(j)'
<1>1. SeenInv'
  BY DEF SeenInv, Quiet, IsAnswer
<1>2. \A j : ChallengeOf(j)' = ChallengeOf(j)
  BY DEF ChallengeOf
<1>3. \A j : Accepted(j)' <=> Accepted(j)
  BY <1>2 DEF Accepted, Quiet
<1>4. \A j : (Untouched(j) => Untouched(j)') /\ (OneClaim(j) => OneClaim(j)')
  BY <1>2, <1>3 DEF Untouched, OneClaim, Quiet
<1>. QED
  BY <1>1, <1>3, <1>4

LEMMA QuietAlone ==
  ASSUME FlowInv, Quiet, UNCHANGED webVars
  PROVE  FlowInv'
<1>1. UNCHANGED <<jobs, dirs, resuming, crashes, worker>>
  BY DEF webVars, memory
<1>2. KeepInv'
  BY KeepStep DEF FlowInv
<1>3. /\ SeenInv' /\ VerdictInv' /\ DOMAIN accepted \subseteq DOMAIN accepted'
      /\ \A j : /\ Accepted(j)' <=> Accepted(j)
                /\ Untouched(j) => Untouched(j)'
                /\ OneClaim(j) => OneClaim(j)'
  BY <1>1, QuietKeeps DEF FlowInv, Quiet
<1>4. \A j \in DOMAIN worker' : RunReply(j)'
  BY <1>1, <1>3 DEF FlowInv, ReplyInv, RunReply
<1>5. crashes = 0 => \A j \in DOMAIN worker' : RunFirst(j)'
  BY <1>1, <1>3 DEF FlowInv, FirstInv, RunFirst
<1>. QED
  BY <1>1, <1>2, <1>3, <1>4, <1>5, ExchangeHolds

(* A reply that brings no acceptance, to a job that submits or asks. *)
LEMMA QuietReply ==
  ASSUME FlowInv, Quiet, KeepInv', NEW j \in DOMAIN worker, NEW stage, NEW reply,
         worker[j].stage \in {"submit", "ask"}, stage \in {"ask", "record"},
         reply.verdict = "verified" => stage = "record" /\ Accepted(j),
         Goto(j, stage, reply), UNCHANGED <<jobs, dirs, resuming, crashes>>
  PROVE  FlowInv'
<1>1. /\ SeenInv' /\ VerdictInv' /\ DOMAIN accepted \subseteq DOMAIN accepted'
      /\ \A k : /\ Accepted(k)' <=> Accepted(k)
                /\ Untouched(k) => Untouched(k)'
  BY QuietKeeps DEF FlowInv, Quiet
<1>2. /\ DOMAIN worker' = {j} /\ worker'[j].stage = stage /\ worker'[j].reply = reply
  BY GotoMoves DEF FlowInv, KeepInv, WebInv, OneWorker
<1>3. RunReply(j)'
  BY <1>1, <1>2 DEF FlowInv, ReplyInv, RunReply
<1>4. crashes = 0 => RunFirst(j)'
  BY <1>1, <1>2 DEF FlowInv, FirstInv, RunFirst
<1>. QED
  BY <1>1, <1>2, <1>3, <1>4, ExchangeHolds

(***************************************************************************)
(* A claim is made by the job whose challenge it is, and by no other.      *)
(***************************************************************************)
LEMMA ClaimFlowInv ==
  ASSUME FlowInv, KeepInv', NEW j, NEW q, PostTaken(j), dirs[j].response # Torn,
         Service!SubmitClaim(q, dirs[j].challenge, dirs[j].response)
  PROVE  FlowInv'
<1>1. /\ j \in DOMAIN worker /\ worker[j].stage = "submit"
      /\ Goto(j, "wait", NoReply) /\ UNCHANGED <<jobs, dirs, resuming, crashes>>
  BY DEF PostTaken, At
<1>2. /\ DOMAIN worker' = {j} /\ worker'[j].stage = "wait" /\ j \in DOMAIN dirs
      /\ DOMAIN jobs \subseteq DOMAIN dirs /\ jobs[j].state = "proving"
  <2>1. DOMAIN worker' = {j} /\ worker'[j].stage = "wait"
    BY <1>1, GotoMoves DEF FlowInv, KeepInv, WebInv, OneWorker
  <2>2. j \in DOMAIN jobs /\ DOMAIN jobs \subseteq DOMAIN dirs
    BY <1>1 DEF FlowInv, KeepInv, WebInv, WebTypeOK
  <2>3. jobs[j].state = "proving"
    BY <1>1, <2>2 DEF FlowInv, KeepInv, WebInv, Driven
  <2>. QED
    BY <2>1, <2>2, <2>3
<1>3. dirs[j].response # Absent /\ dirs[j].response \in Answers
  BY <1>1, <1>2 DEF FlowInv, ReplyInv, RunReply, KeepInv, WebInv, WebTypeOK, Dir
<1>4. /\ accepted' = accepted /\ VerdictInv' /\ q \notin DOMAIN handlers
      /\ DOMAIN handlers' = DOMAIN handlers \cup {q}
      /\ handlers'[q].id = ChallengeOf(j) /\ handlers'[q].response = dirs[j].response
      /\ \A r \in DOMAIN handlers : handlers'[r] = handlers[r]
  BY ClaimAdds DEF FlowInv, ChallengeOf
<1>5. SeenInv'
  <2>1. IsAnswer(ChallengeOf(j), dirs[j].response)
    BY <1>2, <1>3 DEF IsAnswer, ChallengeOf
  <2>2. \A c, response : IsAnswer(c, response)' <=> IsAnswer(c, response)
    BY <1>1 DEF IsAnswer
  <2>. QED
    BY <1>4, <2>1, <2>2 DEF FlowInv, SeenInv
<1>6. \A k : ChallengeOf(k)' = ChallengeOf(k) /\ (Accepted(k)' <=> Accepted(k))
  BY <1>1, <1>4 DEF ChallengeOf, Accepted
<1>7. \A k \in DOMAIN dirs : k # j /\ Untouched(k) => Untouched(k)'
  <2>1. \A k \in DOMAIN dirs : k # j => ChallengeOf(k) # ChallengeOf(j)
    BY <1>2 DEF FlowInv, Distinct, ChallengeOf
  <2>. QED
    BY <1>4, <1>6, <2>1 DEF Untouched
<1>8. RunReply(j)'
  BY <1>1, <1>2, <1>3 DEF RunReply
<1>9. ASSUME crashes = 0 PROVE RunFirst(j)'
  <2>1. Untouched(j)
    BY <1>1, <1>9 DEF FlowInv, FirstInv, RunFirst
  <2>2. OneClaim(j)'
    BY <1>4, <1>6, <2>1 DEF Untouched, OneClaim
  <2>. QED
    BY <1>2, <2>2 DEF RunFirst
<1>. QED
  BY <1>1, <1>2, <1>4, <1>5, <1>7, <1>8, <1>9, ExchangeHolds

(***************************************************************************)
(* A verdict: to the job that waits for it, or to nobody.                  *)
(***************************************************************************)
LEMMA RejectionFlowInv ==
  ASSUME FlowInv, KeepInv', NEW q, Service!FinishRejected(q), Told(q, Rejects(FALSE))
  PROVE  FlowInv'
<1>1. Quiet /\ q \in DOMAIN handlers /\ DOMAIN handlers' = DOMAIN handlers \ {q}
  BY RejectionIsQuiet DEF FlowInv
<1>2. CASE UNCHANGED webVars
  BY <1>1, <1>2, QuietAlone
<1>3. ASSUME NEW j \in DOMAIN worker, WaitsFor(j, q), PostReply(j, Rejects(FALSE))
      PROVE  FlowInv'
  <2>1. /\ worker[j].stage = "wait" /\ ChallengeOf(j) = handlers[q].id
        /\ Goto(j, "record", Rejects(FALSE)) /\ UNCHANGED <<jobs, dirs, resuming, crashes>>
    BY <1>3 DEF WaitsFor, At, ChallengeOf, PostReply, Rejects
  <2>2. /\ DOMAIN worker' = {j} /\ worker'[j].stage = "record"
        /\ worker'[j].reply.verdict = "rejected"
    BY <2>1, GotoMoves DEF FlowInv, KeepInv, WebInv, OneWorker, Rejects
  <2>3. /\ SeenInv' /\ VerdictInv' /\ DOMAIN accepted \subseteq DOMAIN accepted'
        /\ \A k : (Accepted(k)' <=> Accepted(k)) /\ (Untouched(k) => Untouched(k)')
    BY <1>1, <2>1, QuietKeeps DEF FlowInv, Quiet
  <2>4. RunReply(j)'
    BY <1>3, <2>1, <2>2 DEF FlowInv, ReplyInv, RunReply
  <2>5. ASSUME crashes = 0 PROVE RunFirst(j)'
    <3>1. OneClaim(j)
      BY <1>3, <2>1, <2>5 DEF FlowInv, FirstInv, RunFirst
    <3>2. Untouched(j)'
      BY <1>1, <2>1, <2>3, <3>1 DEF OneClaim, Untouched, ChallengeOf, Quiet
    <3>. QED
      BY <2>2, <3>2 DEF RunFirst
  <2>. QED
    BY <2>1, <2>2, <2>3, <2>4, <2>5, ExchangeHolds
<1>. QED
  BY <1>2, <1>3 DEF Told

LEMMA AcceptanceFlowInv ==
  ASSUME FlowInv, KeepInv', NEW q, Service!FinishVerified(q),
         Told(q, [verdict |-> "verified", answered |-> FALSE])
  PROVE  FlowInv'
<1>. DEFINE c == handlers[q].id
            reply == [verdict |-> "verified", answered |-> FALSE]
<1>1. /\ VerdictInv' /\ q \in DOMAIN handlers
      /\ DOMAIN handlers' = DOMAIN handlers \ {q}
      /\ \A r \in DOMAIN handlers' : handlers'[r] = handlers[r]
      /\ DOMAIN accepted' = DOMAIN accepted \cup {c}
      /\ accepted'[c].response = handlers[q].response
      /\ \A d \in DOMAIN accepted : d # c => accepted'[d] = accepted[d]
  BY AcceptanceAdds DEF FlowInv
<1>2. UNCHANGED <<jobs, dirs, resuming, crashes>>
  BY DEF Told, PostReply, webVars, memory
<1>3. SeenInv'
  <2>1. \A d, response : IsAnswer(d, response)' <=> IsAnswer(d, response)
    BY <1>2 DEF IsAnswer
  <2>. QED
    BY <1>1, <2>1 DEF FlowInv, SeenInv
<1>4. \A k : ChallengeOf(k)' = ChallengeOf(k) /\ (Accepted(k) => Accepted(k)')
  BY <1>1, <1>2 DEF ChallengeOf, Accepted
<1>5. \A k : /\ Untouched(k) => Untouched(k)'
             /\ OneClaim(k) /\ ChallengeOf(k) # c => OneClaim(k)'
  BY <1>1, <1>4 DEF Untouched, OneClaim, Accepted
<1>6. CASE ~\E j \in DOMAIN worker : WaitsFor(j, q)
  <2>1. UNCHANGED worker
    BY <1>6 DEF Told, webVars, memory
  <2>2. \A j \in DOMAIN worker' : RunReply(j)'
    BY <1>2, <1>4, <2>1 DEF FlowInv, ReplyInv, RunReply
  <2>3. \A j \in DOMAIN worker : worker[j].stage = "wait" => ChallengeOf(j) # c
    BY <1>6 DEF WaitsFor, At, ChallengeOf
  <2>4. ASSUME crashes = 0, NEW j \in DOMAIN worker' PROVE RunFirst(j)'
    BY <1>5, <2>1, <2>3, <2>4 DEF FlowInv, FirstInv, RunFirst
  <2>. QED
    BY <1>1, <1>2, <1>3, <1>5, <2>2, <2>4, ExchangeHolds
<1>7. ASSUME NEW j \in DOMAIN worker, WaitsFor(j, q), PostReply(j, reply)
      PROVE  FlowInv'
  <2>1. worker[j].stage = "wait" /\ ChallengeOf(j) = c /\ Goto(j, "record", reply)
    BY <1>7 DEF WaitsFor, At, ChallengeOf, PostReply
  <2>2. /\ DOMAIN worker' = {j} /\ worker'[j].stage = "record"
        /\ worker'[j].reply.verdict = "verified"
    BY <2>1, GotoMoves DEF FlowInv, KeepInv, WebInv, OneWorker
  <2>3. Accepted(j)'
    BY <1>1, <1>4, <2>1 DEF Accepted
  <2>4. RunReply(j)' /\ RunFirst(j)'
    BY <1>2, <1>7, <2>1, <2>2, <2>3 DEF FlowInv, ReplyInv, RunReply, RunFirst
  <2>. QED
    BY <1>1, <1>2, <1>3, <1>5, <2>2, <2>4, ExchangeHolds
<1>. QED
  BY <1>6, <1>7 DEF Told

-----------------------------------------------------------------------------
LEMMA FlowInitInv == FlowInit => FlowInv
<1>. SUFFICES ASSUME FlowInit PROVE FlowInv
  OBVIOUS
<1>1. WebInit /\ KeepInv
  BY KeepInit DEF FlowInit
<1>2. /\ DOMAIN dirs = {} /\ DOMAIN jobs = {} /\ DOMAIN worker = {} /\ resuming = {}
  BY <1>1 DEF WebInit
<1>3. DOMAIN sessions = {} /\ DOMAIN handlers = {} /\ DOMAIN accepted = {}
  BY DEF FlowInit, Service!Init
<1>4. Distinct /\ SeenInv /\ VerdictInv /\ ReplyInv /\ ShownInv /\ FirstInv
  BY <1>2, <1>3 DEF Distinct, SeenInv, VerdictInv, ReplyInv, ShownInv, FirstInv
<1>. QED
  BY <1>1, <1>4 DEF FlowInv

LEMMA PostFlowInv ==
  ASSUME FlowInv, KeepInv', NEW j \in JobIds, PostMalformed(j) \/ PostAnswer(j)
  PROVE  FlowInv'
<1>. VerdictInv
  BY DEF FlowInv
<1>1. j \in DOMAIN worker /\ worker[j].stage = "submit"
  BY DEF PostMalformed, PostAnswer, At
<1>2. ASSUME Quiet, NEW reply, PostReply(j, reply), reply.verdict # "verified",
             reply.answered \in BOOLEAN
      PROVE  FlowInv'
  <2>1. PICK stage \in {"ask", "record"} : Goto(j, stage, reply)
    BY <1>2 DEF PostReply
  <2>2. UNCHANGED <<jobs, dirs, resuming, crashes>>
    BY <1>2 DEF PostReply
  <2>. QED
    BY <1>1, <1>2, <2>1, <2>2, QuietReply
<1>3. /\ NoReply.verdict # "verified" /\ NoReply.answered \in BOOLEAN
      /\ \A answered \in BOOLEAN : /\ Rejects(answered).verdict # "verified"
                                   /\ Rejects(answered).answered \in BOOLEAN
  BY DEF NoReply, NoVerdict, Rejects
<1>4. CASE PostMalformed(j)
  <2>1. Quiet
    BY <1>4 DEF PostMalformed, serviceVars, Quiet, VerdictInv
  <2>. QED
    BY <1>2, <1>3, <1>4, <2>1 DEF PostMalformed
<1>5. CASE PostAnswer(j)
  <2>. DEFINE c == dirs[j].challenge
  <2>1. CASE Service!SubmitUnknown(c) /\ PostReply(j, NoReply)
    BY <1>2, <1>3, <2>1, AnsweringIsQuiet
  <2>2. CASE Service!SubmitLate(c) /\ PostReply(j, Rejects(FALSE))
    BY <1>2, <1>3, <2>2, AnsweringIsQuiet
  <2>3. CASE Service!SubmitAnswered(c) /\ PostReply(j, Rejects(TRUE))
    BY <1>2, <1>3, <2>3, AnsweringIsQuiet
  <2>4. ASSUME NEW q, Service!SubmitClaim(q, c, dirs[j].response), PostTaken(j)
        PROVE  FlowInv'
    BY <1>5, <2>4, ClaimFlowInv DEF PostAnswer
  <2>. QED
    BY <1>5, <2>1, <2>2, <2>3, <2>4 DEF PostAnswer
<1>. QED
  BY <1>4, <1>5

LEMMA AskFlowInv ==
  ASSUME FlowInv, KeepInv', NEW j \in JobIds, Ask(j)
  PROVE  FlowInv'
<1>. VerdictInv
  BY DEF FlowInv
<1>1. PICK verdict : /\ Quiet /\ StatusReply(j, verdict)
                     /\ verdict = "verified" => Accepted(j)
  <2>. DEFINE c == dirs[j].challenge
  <2>1. CASE Service!Status(c) /\ StatusReply(j, sessions[c].verdict)
    <3>1. sessions[c].verdict = "verified" => Accepted(j)
      BY <2>1 DEF Service!Status, Service!Live, VerdictInv, Accepted, ChallengeOf
    <3>. QED
      BY <2>1, <3>1, AnsweringIsQuiet
  <2>2. CASE StatusReply(j, NoVerdict) /\ UNCHANGED serviceVars
    BY <2>2 DEF serviceVars, Quiet, VerdictInv, NoVerdict
  <2>. QED
    BY <2>1, <2>2 DEF Ask
<1>. DEFINE reply == IF verdict = NoVerdict THEN worker[j].reply
                     ELSE [verdict |-> verdict, answered |-> FALSE]
<1>2. /\ j \in DOMAIN worker /\ worker[j].stage = "ask" /\ Goto(j, "record", reply)
      /\ UNCHANGED <<jobs, dirs, resuming, crashes>>
  BY <1>1 DEF StatusReply, At
<1>3. reply.verdict = "verified" => Accepted(j)
  BY <1>1, <1>2 DEF FlowInv, ReplyInv, RunReply
<1>. HIDE DEF reply
<1>. QED
  BY <1>1, <1>2, <1>3, QuietReply

LEMMA FlowStep == FlowInv /\ [FlowNext]_flowVars => FlowInv'
<1>1. CASE UNCHANGED flowVars
  <2>1. UNCHANGED webVars /\ UNCHANGED serviceVars
    BY <1>1 DEF flowVars
  <2>2. ASSUME FlowInv PROVE Quiet
    BY <2>1, <2>2 DEF FlowInv, Quiet, VerdictInv, serviceVars
  <2>. QED
    BY <2>1, <2>2, QuietAlone
<1>2. ASSUME FlowInv, FlowNext PROVE FlowInv'
  <2>1. KeepInv' /\ VerdictInv
    BY <1>2, FlowIsWeb, KeepStep DEF FlowInv
  <2>2. ASSUME NEW j \in JobIds, NEW c \in Challenges, StartIssued(j, c) PROVE FlowInv'
    BY <1>2, <2>2, WebStepInv DEF StartIssued, WebStepOf
  <2>3. ASSUME NEW q, Judge(q) PROVE FlowInv'
    BY <1>2, <2>1, <2>3, RejectionFlowInv, AcceptanceFlowInv DEF Judge
  <2>4. CASE WebAlone
    BY <1>2, <2>4, WebStepInv, CrashFlowInv DEF WebAlone, WebStepOf
  <2>5. CASE ServiceAlone
    BY <1>2, <2>1, <2>5, AloneIsQuiet, QuietAlone DEF ServiceAlone
  <2>. QED
    BY <1>2, <2>1, <2>2, <2>3, <2>4, <2>5, PostFlowInv, AskFlowInv DEF FlowNext
<1>. QED
  BY <1>1, <1>2

LEMMA FlowInvariant == FlowSpec => []FlowInv
BY FlowInitInv, FlowStep, PTL DEF FlowSpec

-----------------------------------------------------------------------------
(***************************************************************************)
(* prove-web with the real service is prove-web: what is proved of WebSpec *)
(* for any replies holds of the flow.                                      *)
(***************************************************************************)
THEOREM FlowRunsProveWeb == FlowSpec => WebSpec
<1>1. FlowInv /\ [FlowNext]_flowVars => [WebNext]_webVars
  BY FlowIsWeb DEF flowVars
<1>. QED
  BY <1>1, FlowInvariant, PTL DEF FlowSpec, WebSpec, FlowInit

(***************************************************************************)
(* And the service with prove-web as its client is the service: what is    *)
(* proved of Verifier for any clients, VerifiedIsBacked among it, holds of *)
(* the flow.                                                               *)
(***************************************************************************)
THEOREM FlowRunsService == FlowSpec => Service!Spec
<1>1. ASSUME FlowInv, FlowNext PROVE [Service!Next]_(Service!vars)
  <2>1. ASSUME NEW j \in JobIds, PostAnswer(j) PROVE [Service!Next]_(Service!vars)
    <3>1. /\ j \in DOMAIN dirs /\ dirs[j].challenge \in Challenges
          /\ dirs[j].response \in Responses
      BY <1>1, <2>1, AnswersAreResponses
         DEF PostAnswer, At, FlowInv, ReplyInv, RunReply, KeepInv, WebInv, WebTypeOK, Dir
    <3>. QED
      BY <2>1, <3>1 DEF PostAnswer, Service!Next, Service!Submit
  <2>2. ASSUME NEW j \in JobIds, Ask(j) PROVE [Service!Next]_(Service!vars)
    <3>1. dirs[j].challenge \in Challenges
      BY <1>1, <2>2 DEF Ask, At, FlowInv, KeepInv, WebInv, WebTypeOK, Dir
    <3>. QED
      BY <2>2, <3>1 DEF Ask, Service!Next, serviceVars, Service!vars
  <2>3. ASSUME NEW q \in Requests, Judge(q) PROVE Service!Next
    BY <2>3 DEF Judge, Service!Next, Service!Finish
  <2>4. CASE ServiceAlone
    BY <2>4 DEF ServiceAlone, Service!Next
  <2>5. CASE UNCHANGED serviceVars
    BY <2>5 DEF serviceVars, Service!vars
  <2>. QED
    BY <1>1, <2>1, <2>2, <2>3, <2>4, <2>5
       DEF FlowNext, StartIssued, PostMalformed, WebAlone
<1>2. UNCHANGED flowVars => UNCHANGED Service!vars
  BY DEF flowVars, serviceVars, Service!vars
<1>3. FlowInv /\ [FlowNext]_flowVars => [Service!Next]_(Service!vars)
  BY <1>1, <1>2
<1>. QED
  BY <1>3, FlowInvariant, PTL DEF FlowSpec, Service!Spec, FlowInit

(***************************************************************************)
(* A job shown as "verified" is one whose very answer the service accepted *)
(* for the job's own challenge: over any crashes of prove-web, restarts of *)
(* the service, lost connections and repeated submissions.                 *)
(***************************************************************************)
THEOREM VerifiedJobs == FlowSpec => []VerifiedJobIsVerified
<1>1. FlowInv => VerifiedJobIsVerified
  <2>. SUFFICES ASSUME FlowInv, NEW j \in DOMAIN jobs, jobs[j].state = "verified"
                PROVE  /\ ChallengeOf(j) \in DOMAIN accepted
                       /\ accepted[ChallengeOf(j)].response = dirs[j].response
    BY DEF VerifiedJobIsVerified
  <2>1. j \in DOMAIN dirs /\ ChallengeOf(j) \in DOMAIN accepted
    BY DEF FlowInv, ShownInv, Accepted, KeepInv, WebInv, WebTypeOK
  <2>2. IsAnswer(ChallengeOf(j), accepted[ChallengeOf(j)].response)
    BY <2>1 DEF FlowInv, SeenInv
  <2>. QED
    BY <2>1, <2>2 DEF IsAnswer, FlowInv, Distinct, ChallengeOf
<1>. QED
  BY <1>1, FlowInvariant, PTL

(***************************************************************************)
(* While prove-web does not crash, a job shown as "rejected" has not been  *)
(* accepted and is not being verified, so it never will be.                *)
(***************************************************************************)
THEOREM FinalVerdict == FlowSpec => []FirstVerdictIsFinal
<1>1. FlowInv => FirstVerdictIsFinal
  BY DEF FlowInv, FirstInv, Untouched, Accepted, FirstVerdictIsFinal
<1>. QED
  BY <1>1, FlowInvariant, PTL

=============================================================================
