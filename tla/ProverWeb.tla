----------------------------- MODULE ProverWeb ------------------------------
(***************************************************************************)
(* The browser-wallet prover (app/web/prover-web.mjs).  A job goes from    *)
(* "preparing" over "awaiting-signatures" and "proving" to a final state;  *)
(* one job at a time holds the proving slot; every job is mirrored to      *)
(* job.json in its directory, next to the files the prover writes, and a   *)
(* restarted server reloads the mirrors and resumes the proofs it finds.   *)
(*                                                                         *)
(* JavaScript runs one callback at a time, so an action is the code from   *)
(* one await to the next.  A crash may come between any two actions, and   *)
(* where the order of two writes inside one matters there is a crash       *)
(* between them (CrashInFinalize).                                         *)
(*                                                                         *)
(* The challenge service is outside: any reply may come.  ProofFlow puts   *)
(* the real one in its place.  Early returns that change nothing (bad      *)
(* input, unknown agent, 404, 409, 429) are the guards read the other way  *)
(* round.                                                                  *)
(***************************************************************************)
EXTENDS Naturals, FiniteSets, Functions

CONSTANTS
  JobIds,        \* fresh 8-byte random values
  Challenges,    \* the challenge ids the service hands out
  AnswersTo,     \* AnswersTo[c]: the responses a finalized proof may hold
  NoJob,         \* what job.json holds when there is none, or a torn one
  Absent, Torn,  \* response.json: not there, or cut short by a crash
  TornWrites,    \* can a crash cut a file write short
  MaxCrashes     \* bound: crashes of the server

ASSUME AnswersAssumption ==
  /\ AnswersTo \in [Challenges -> SUBSET UNION Range(AnswersTo)]
  /\ {Absent, Torn} \cap UNION Range(AnswersTo) = {}
  /\ Absent # Torn

ASSUME BoundAssumption == TornWrites \in BOOLEAN /\ MaxCrashes \in Nat

VARIABLES
  jobs,       \* memory: the Map of jobs
  proving,    \* memory: the flag that holds the proving slot
  preparing,  \* memory: jobs whose proveStart awaits `prover --prepare`
  worker,     \* memory: the running runFinalizeAndSubmit calls
  resuming,   \* memory: interrupted jobs the resume loop has yet to run
  dirs,       \* disk: the directory of every job
  crashes

memory == <<jobs, proving, preparing, worker, resuming>>
webVars == <<memory, dirs, crashes>>

-----------------------------------------------------------------------------
Final     == {"verified", "rejected", "error"}
JobStates == {"preparing", "awaiting-signatures", "proving"} \cup Final
NoVerdict == "none"
JobVerdicts == {NoVerdict, "verified", "rejected", "unknown"}

Job == [state : JobStates, verdict : JobVerdicts, toSign : BOOLEAN]

Answers == UNION Range(AnswersTo)

Dir == [challenge : Challenges, job : Job \cup {NoJob}, prepared : BOOLEAN,
        sigs : BOOLEAN, response : Answers \cup {Absent, Torn}]

(***************************************************************************)
(* The JSON a request to the service comes back with: its verdict, if any, *)
(* and whether its reason is "challenge already answered".  A 404, a 400   *)
(* and a body that is no JSON have no verdict.                             *)
(***************************************************************************)
Reply == [verdict : {NoVerdict, "verified", "rejected"}, answered : BOOLEAN]

Stages == {"prove", "written", "submit", "wait", "ask", "record"}
NoReply == [verdict |-> NoVerdict, answered |-> FALSE]

With(f, k, v) == [x \in DOMAIN f \cup {k} |-> IF x = k THEN v ELSE f[x]]
Without(f, k) == Restrict(f, DOMAIN f \ {k})

WebInit ==
  /\ jobs = [j \in {} |-> NoJob]
  /\ proving = FALSE
  /\ preparing = {}
  /\ worker = [j \in {} |-> NoJob]
  /\ resuming = {}
  /\ dirs = [j \in {} |-> NoJob]
  /\ crashes = 0

(***************************************************************************)
(* A job set in memory and mirrored at once: the assignments of a handler  *)
(* and the saveJob that ends them.                                         *)
(***************************************************************************)
SetAndSave(j, job) ==
  /\ jobs' = With(jobs, j, job)
  /\ dirs' = [dirs EXCEPT ![j].job = job]

-----------------------------------------------------------------------------
(* POST /api/prove/start *)

Start(j, c) ==
  /\ j \notin DOMAIN dirs
  /\ \A k \in DOMAIN dirs : dirs[k].challenge # c
  /\ LET job == [state |-> "preparing", verdict |-> NoVerdict, toSign |-> FALSE]
     IN /\ jobs' = With(jobs, j, job)
        /\ dirs' = With(dirs, j, [challenge |-> c, job |-> job, prepared |-> FALSE,
                                  sigs |-> FALSE, response |-> Absent])
  /\ preparing' = preparing \cup {j}
  /\ UNCHANGED <<proving, worker, resuming, crashes>>

PrepareWrites(j) ==              \* the child writes prepare.json ...
  /\ j \in preparing
  /\ ~dirs[j].prepared
  /\ dirs' = [dirs EXCEPT ![j].prepared = TRUE]
  /\ UNCHANGED <<memory, crashes>>

PrepareDone(j) ==                \* ... and exits with 0
  /\ j \in preparing
  /\ dirs[j].prepared
  /\ SetAndSave(j, [jobs[j] EXCEPT !.state = "awaiting-signatures",
                                   !.toSign = TRUE])
  /\ preparing' = preparing \ {j}
  /\ UNCHANGED <<proving, worker, resuming, crashes>>

PrepareFails(j) ==
  /\ j \in preparing
  /\ ~dirs[j].prepared
  /\ SetAndSave(j, [jobs[j] EXCEPT !.state = "error"])
  /\ preparing' = preparing \ {j}
  /\ UNCHANGED <<proving, worker, resuming, crashes>>

-----------------------------------------------------------------------------
(* runFinalizeAndSubmit, from its first line to its first await. *)

Worker(stage, reply) == [stage |-> stage, reply |-> reply]

\* Seeded fault: a resumed job proves again what is already proved.
FirstStageProve(j) == "prove"

FirstStage(j) == IF dirs[j].response = Absent THEN "prove" ELSE "submit"

RunFinalizeAndSubmit(j) ==
  worker' = With(worker, j, Worker(FirstStage(j), NoReply))

(* POST /api/prove/finalize *)

Finalizable(j) ==
  /\ j \in DOMAIN jobs
  /\ jobs[j].state = "awaiting-signatures"
  /\ ~proving

Finalize(j) ==
  /\ Finalizable(j)
  /\ LET job == [jobs[j] EXCEPT !.state = "proving"]
     IN /\ jobs' = With(jobs, j, job)
        /\ dirs' = [dirs EXCEPT ![j].sigs = TRUE, ![j].job = job]
  /\ proving' = TRUE
  /\ RunFinalizeAndSubmit(j)
  /\ UNCHANGED <<preparing, resuming, crashes>>

(* The start-up loop, for the next interrupted job, once the slot is free. *)

\* Seeded fault: the resume loop does not wait for the slot.
ResumeAtOnce(j) ==
  /\ j \in resuming
  /\ proving' = TRUE
  /\ resuming' = resuming \ {j}
  /\ RunFinalizeAndSubmit(j)
  /\ UNCHANGED <<jobs, preparing, dirs, crashes>>

Resume(j) ==
  /\ j \in resuming
  /\ ~proving
  /\ proving' = TRUE
  /\ resuming' = resuming \ {j}
  /\ RunFinalizeAndSubmit(j)
  /\ UNCHANGED <<jobs, preparing, dirs, crashes>>

-----------------------------------------------------------------------------
(* The rest of runFinalizeAndSubmit, one await at a time. *)

At(j, stage) == j \in DOMAIN worker /\ worker[j].stage = stage

Goto(j, stage, reply) == worker' = With(worker, j, Worker(stage, reply))

ProveWrites(j) ==                \* the child writes response.json ...
  /\ At(j, "prove")
  /\ \E answer \in AnswersTo[dirs[j].challenge] :
       dirs' = [dirs EXCEPT ![j].response = answer]
  /\ Goto(j, "written", NoReply)
  /\ UNCHANGED <<jobs, proving, preparing, resuming, crashes>>

ProveDone(j) ==                  \* ... and exits with 0
  /\ At(j, "written")
  /\ Goto(j, "submit", NoReply)
  /\ UNCHANGED <<jobs, proving, preparing, resuming, dirs, crashes>>

PostTaken(j) ==                  \* the service has the answer, no reply yet
  /\ At(j, "submit")
  /\ Goto(j, "wait", NoReply)
  /\ UNCHANGED <<jobs, proving, preparing, resuming, dirs, crashes>>

PostReply(j, reply) ==
  /\ At(j, "submit") \/ At(j, "wait")
  /\ Goto(j, IF reply.answered THEN "ask" ELSE "record", reply)
  /\ UNCHANGED <<jobs, proving, preparing, resuming, dirs, crashes>>

StatusReply(j, verdict) ==       \* NoVerdict: none yet, or the GET failed
  /\ At(j, "ask")
  /\ Goto(j, "record", IF verdict = NoVerdict THEN worker[j].reply
                       ELSE [verdict |-> verdict, answered |-> FALSE])
  /\ UNCHANGED <<jobs, proving, preparing, resuming, dirs, crashes>>

(***************************************************************************)
(* The end: a verdict or an error is recorded, the slot is freed and the   *)
(* job saved, in that order and with nothing in between.                   *)
(***************************************************************************)
\* Seeded fault: the end of a run is not saved.
EndRunUnsaved(j, state, verdict) ==
  /\ jobs' = With(jobs, j, [jobs[j] EXCEPT !.state = state, !.verdict = verdict])
  /\ worker' = Without(worker, j)
  /\ proving' = FALSE
  /\ UNCHANGED <<preparing, resuming, dirs, crashes>>

\* Seeded fault: the slot is freed on the good path only.
EndRunHoldsSlot(j, state, verdict) ==
  /\ SetAndSave(j, [jobs[j] EXCEPT !.state = state, !.verdict = verdict])
  /\ worker' = Without(worker, j)
  /\ proving' = (state = "error")
  /\ UNCHANGED <<preparing, resuming, crashes>>

EndRun(j, state, verdict) ==
  /\ SetAndSave(j, [jobs[j] EXCEPT !.state = state, !.verdict = verdict])
  /\ worker' = Without(worker, j)
  /\ proving' = FALSE
  /\ UNCHANGED <<preparing, resuming, crashes>>

\* Seeded fault: the state is the reply's verdict, with no default.
RecordVerdictRaw(j) ==
  /\ At(j, "record")
  /\ EndRun(j, worker[j].reply.verdict, worker[j].reply.verdict)

\* Seeded fault: whatever is not a rejection passes.
RecordVerdictLax(j) ==
  /\ At(j, "record")
  /\ IF worker[j].reply.verdict = "rejected" THEN EndRun(j, "rejected", "rejected")
     ELSE EndRun(j, "verified", "verified")

RecordVerdict(j) ==
  /\ At(j, "record")
  /\ LET v == worker[j].reply.verdict
     IN IF v = "verified" THEN EndRun(j, "verified", "verified")
        ELSE EndRun(j, "rejected", IF v = NoVerdict THEN "unknown" ELSE v)

\* Seeded fault: a failed exchange is recorded as a rejection.
RunFailsRejected(j) ==
  /\ At(j, "prove") \/ At(j, "submit") \/ At(j, "wait")
  /\ EndRun(j, "rejected", "unknown")

RunFails(j) ==                   \* the child or the POST fails: catch
  /\ At(j, "prove") \/ At(j, "submit") \/ At(j, "wait")
  /\ EndRun(j, "error", jobs[j].verdict)

-----------------------------------------------------------------------------
(***************************************************************************)
(* A crash, and rehydrate() on the next start.  Memory is rebuilt from the *)
(* mirrors; what rehydrate changes it does not save.                       *)
(***************************************************************************)
Rehydrated(dir) ==
  IF dir.job.state = "preparing"
  THEN [dir.job EXCEPT !.state =
          IF dir.prepared /\ dir.job.toSign THEN "awaiting-signatures" ELSE "error"]
  ELSE dir.job

RestartFrom(disk) ==
  LET found == {j \in DOMAIN disk : disk[j].job # NoJob}
  IN /\ crashes < MaxCrashes
     /\ crashes' = crashes + 1
     /\ dirs' = disk
     /\ jobs' = [j \in found |-> Rehydrated(disk[j])]
     /\ resuming' = {j \in found : disk[j].job.state = "proving"}
     /\ proving' = FALSE
     /\ preparing' = {}
     /\ worker' = [j \in {} |-> NoJob]

Crash == RestartFrom(dirs)

\* Seeded fault: proveFinalize saves the job before the signatures.
CrashInFinalizeJobFirst(j) ==
  /\ Finalizable(j)
  /\ RestartFrom([dirs EXCEPT ![j].job.state = "proving"])

(* Between sigs.json and job.json, inside proveFinalize. *)
CrashInFinalize(j) ==
  /\ Finalizable(j)
  /\ RestartFrom([dirs EXCEPT ![j].sigs = TRUE])

(* While the prover writes response.json. *)
CrashInResponse(j) ==
  /\ TornWrites
  /\ At(j, "prove")
  /\ RestartFrom([dirs EXCEPT ![j].response = Torn])

(* While job.json is written: the old one is truncated first. *)
CrashInSave(j) ==
  /\ TornWrites
  /\ j \in preparing \/ j \in DOMAIN worker \/ Finalizable(j)
  /\ RestartFrom([dirs EXCEPT ![j].job = NoJob])

-----------------------------------------------------------------------------
Prepare(j) == PrepareWrites(j) \/ PrepareDone(j) \/ PrepareFails(j)

Prove(j) == ProveWrites(j) \/ ProveDone(j)

Exchange(j) ==
  \/ PostTaken(j)
  \/ \E reply \in Reply : PostReply(j, reply)
  \/ \E verdict \in {NoVerdict, "verified", "rejected"} : StatusReply(j, verdict)

Run(j) == Prove(j) \/ Exchange(j) \/ RecordVerdict(j) \/ RunFails(j)

AnyCrash ==
  \/ Crash
  \/ \E j \in JobIds : CrashInFinalize(j) \/ CrashInResponse(j) \/ CrashInSave(j)

WebNext ==
  \/ \E j \in JobIds : \/ \E c \in Challenges : Start(j, c)
                       \/ Prepare(j) \/ Finalize(j) \/ Resume(j) \/ Run(j)
  \/ AnyCrash

WebSpec == WebInit /\ [][WebNext]_webVars

(***************************************************************************)
(* What the runtime guarantees: the prover's child processes end, fetch    *)
(* gives up by itself, and the resume loop looks at the slot every second. *)
(* Users owe nothing: no fairness on Start and Finalize.                   *)
(***************************************************************************)
WebFairness ==
  \A j \in JobIds : /\ WF_webVars(Prepare(j))
                    /\ WF_webVars(Run(j))
                    /\ WF_webVars(Resume(j))

FairWebSpec == WebSpec /\ WebFairness

-----------------------------------------------------------------------------
(***************************************************************************)
(* The shape of the server's memory and disk.                              *)
(***************************************************************************)
WebTypeOK ==
  /\ DOMAIN dirs \subseteq JobIds
  /\ dirs \in [DOMAIN dirs -> Dir]
  /\ DOMAIN jobs \subseteq DOMAIN dirs
  /\ jobs \in [DOMAIN jobs -> Job]
  /\ proving \in BOOLEAN
  /\ preparing \subseteq DOMAIN jobs
  /\ DOMAIN worker \subseteq DOMAIN jobs
  /\ worker \in [DOMAIN worker -> [stage : Stages, reply : Reply]]
  /\ resuming \subseteq DOMAIN jobs
  /\ crashes \in 0..MaxCrashes

(***************************************************************************)
(* "One heavy prove at a time": whether a run was started by a request or  *)
(* by the resume loop, there is never a second one, and the flag is set    *)
(* exactly while there is one.                                             *)
(***************************************************************************)
OneProveAtATime ==
  /\ \A j, k \in DOMAIN worker : j = k
  /\ proving <=> worker # [j \in {} |-> NoJob]

(***************************************************************************)
(* Every job shown as "proving" is being run or waits for the resume loop, *)
(* never both, and only those are; and what a restart would resume from    *)
(* disk has its prepare.json and sigs.json.                                *)
(***************************************************************************)
ProvingIsDriven ==
  /\ \A j \in DOMAIN jobs :
       jobs[j].state = "proving" <=> j \in DOMAIN worker \cup resuming
  /\ DOMAIN worker \cap resuming = {}
  /\ \A j \in DOMAIN dirs :
       dirs[j].job # NoJob /\ dirs[j].job.state = "proving"
         => dirs[j].prepared /\ dirs[j].sigs

(***************************************************************************)
(* "So a job survives a server restart (Railway redeploy, crash)": no step *)
(* makes the server forget a job, puts one back to an earlier state, or    *)
(* changes one that is over; a verdict once shown stays.  The exception is *)
(* the job whose job.json this very crash cut short.                       *)
(***************************************************************************)
Rank(state) ==
  CASE state = "preparing" -> 0
    [] state = "awaiting-signatures" -> 1
    [] state = "proving" -> 2
    [] OTHER -> 3

JobsSurvive ==
  [][\A j \in DOMAIN jobs : dirs'[j].job # NoJob =>
       /\ j \in DOMAIN jobs'
       /\ Rank(jobs'[j].state) >= Rank(jobs[j].state)
       /\ jobs[j].state \in Final => jobs'[j] = jobs[j]]_webVars

(***************************************************************************)
(* A proof is computed once: after response.json is there no step runs the *)
(* minutes-long prove of that job again, and none replaces the answer.     *)
(***************************************************************************)
ProvedOnce ==
  [][\A j \in DOMAIN dirs :
       dirs[j].response # Absent =>
          /\ j \in DOMAIN dirs' /\ dirs'[j].response = dirs[j].response
          /\ j \in DOMAIN worker' => worker'[j].stage # "prove"]_webVars

(***************************************************************************)
(* A job the user does not hold up ends, also across restarts (or is lost, *)
(* as JobsSurvive allows).                                                 *)
(***************************************************************************)
ProofsEnd ==
  \A j \in JobIds :
     (j \in DOMAIN jobs /\ jobs[j].state \in {"preparing", "proving"})
       ~> (j \in DOMAIN jobs => jobs[j].state \notin {"preparing", "proving"})

=============================================================================
