-------------------------- MODULE ProverWebProofs ---------------------------
(***************************************************************************)
(* The prove-web orchestrator, for any number of jobs, challenges and      *)
(* crashes, and whether or not a crash can cut a file short.               *)
(***************************************************************************)
EXTENDS ProverWeb, TLAPS

(***************************************************************************)
(* The invariant.  OneProveAtATime and ProvingIsDriven need what the disk  *)
(* holds: a job to be signed has its prepare.json, in memory and in its    *)
(* mirror, since a restart makes one of the other; and a job whose         *)
(* preparation runs is no other state, or it could be driven twice.        *)
(***************************************************************************)
OneWorker ==
  /\ \A j, k \in DOMAIN worker : j = k
  /\ proving <=> DOMAIN worker # {}

Driven ==
  /\ \A j \in DOMAIN jobs :
       jobs[j].state = "proving" <=> j \in DOMAIN worker \cup resuming
  /\ DOMAIN worker \cap resuming = {}

ReadyOnDisk(dir) ==
  dir.job # NoJob =>
    /\ dir.job.state = "proving" => dir.prepared /\ dir.sigs
    /\ dir.job.state = "awaiting-signatures" => dir.prepared

DiskReady == \A j \in DOMAIN dirs : ReadyOnDisk(dirs[j])

MemoryReady ==
  \A j \in DOMAIN jobs : jobs[j].state = "awaiting-signatures" => dirs[j].prepared

PreparingOnly == \A j \in preparing : jobs[j].state = "preparing"

WebInv ==
  /\ WebTypeOK /\ OneWorker /\ Driven
  /\ DiskReady /\ MemoryReady /\ PreparingOnly

-----------------------------------------------------------------------------
LEMMA JobsWith ==
  ASSUME NEW j, NEW job \in Job, WebInv, jobs' = With(jobs, j, job)
  PROVE  /\ jobs' \in [DOMAIN jobs \cup {j} -> Job]
         /\ DOMAIN jobs' = DOMAIN jobs \cup {j}
         /\ jobs'[j] = job
         /\ \A k \in DOMAIN jobs : k # j => jobs'[k] = jobs[k]
BY DEF With, WebInv, WebTypeOK

LEMMA DirsWith ==
  ASSUME NEW j, NEW dir \in Dir, WebInv, dirs' = With(dirs, j, dir)
  PROVE  /\ dirs' \in [DOMAIN dirs \cup {j} -> Dir]
         /\ DOMAIN dirs' = DOMAIN dirs \cup {j}
         /\ dirs'[j] = dir
         /\ \A k \in DOMAIN dirs : k # j => dirs'[k] = dirs[k]
BY DEF With, WebInv, WebTypeOK

LEMMA WorkerWith ==
  ASSUME NEW j, NEW stage \in Stages, NEW reply \in Reply, WebInv,
         worker' = With(worker, j, Worker(stage, reply))
  PROVE  /\ worker' \in [DOMAIN worker \cup {j} -> [stage : Stages, reply : Reply]]
         /\ DOMAIN worker' = DOMAIN worker \cup {j}
         /\ worker'[j] = Worker(stage, reply)
<1>1. Worker(stage, reply) \in [stage : Stages, reply : Reply]
  BY DEF Worker
<1>. QED
  BY <1>1 DEF With, WebInv, WebTypeOK

LEMMA WorkerWithout ==
  ASSUME NEW j, WebInv, worker' = Without(worker, j)
  PROVE  /\ worker' \in [DOMAIN worker \ {j} -> [stage : Stages, reply : Reply]]
         /\ DOMAIN worker' = DOMAIN worker \ {j}
BY DEF Without, Restrict, WebInv, WebTypeOK

LEMMA InitInv == WebInit => WebInv
<1>. SUFFICES ASSUME WebInit PROVE WebInv
  OBVIOUS
<1>. DEFINE empty == [j \in {} |-> NoJob]
<1>0. DOMAIN empty = {} /\ \A S : empty \in [{} -> S]
  OBVIOUS
<1>1. WebTypeOK
  <2>1. jobs = empty /\ dirs = empty /\ worker = empty
    BY DEF WebInit
  <2>2. DOMAIN jobs = {} /\ DOMAIN dirs = {} /\ DOMAIN worker = {}
    BY <1>0, <2>1, Zenon
  <2>3. /\ jobs \in [{} -> Job] /\ dirs \in [{} -> Dir]
        /\ worker \in [{} -> [stage : Stages, reply : Reply]]
    BY <1>0, <2>1, Zenon
  <2>. QED
    <3>1. proving = FALSE /\ crashes = 0 /\ preparing = {} /\ resuming = {}
      BY DEF WebInit
    <3>2. crashes \in 0..MaxCrashes /\ proving \in BOOLEAN
      <4>1. 0 \in 0..MaxCrashes
        BY BoundAssumption
      <4>. QED
        BY <3>1, <4>1, Zenon
    <3>. QED
      BY <2>2, <2>3, <3>1, <3>2, Zenon DEF WebTypeOK
<1>2. OneWorker /\ Driven /\ DiskReady /\ MemoryReady /\ PreparingOnly
  BY DEF WebInit, OneWorker, Driven, DiskReady, MemoryReady, PreparingOnly
<1>. QED
  BY <1>1, <1>2 DEF WebInv

LEMMA StartInv ==
  ASSUME WebInv, NEW j \in JobIds, NEW c \in Challenges, Start(j, c)
  PROVE  WebInv'
<1>. DEFINE job == [state |-> "preparing", verdict |-> NoVerdict, toSign |-> FALSE]
            dir == [challenge |-> c, job |-> job, prepared |-> FALSE,
                    sigs |-> FALSE, response |-> Absent]
<1>1. /\ j \notin DOMAIN dirs /\ j \notin DOMAIN jobs
      /\ jobs' = With(jobs, j, job) /\ dirs' = With(dirs, j, dir)
      /\ preparing' = preparing \cup {j}
      /\ UNCHANGED <<proving, worker, resuming, crashes>>
  BY DEF Start, WebInv, WebTypeOK
<1>2. job \in Job /\ dir \in Dir
  BY DEF Job, JobStates, JobVerdicts, Dir
<1>3. /\ job.state = "preparing" /\ dir.job = job
  OBVIOUS
<1>. HIDE DEF job, dir
<1>4. /\ jobs' \in [DOMAIN jobs \cup {j} -> Job] /\ DOMAIN jobs' = DOMAIN jobs \cup {j}
      /\ jobs'[j] = job /\ \A k \in DOMAIN jobs : jobs'[k] = jobs[k]
  BY <1>1, <1>2, JobsWith
<1>5. /\ dirs' \in [DOMAIN dirs \cup {j} -> Dir] /\ DOMAIN dirs' = DOMAIN dirs \cup {j}
      /\ dirs'[j] = dir /\ \A k \in DOMAIN dirs : dirs'[k] = dirs[k]
  BY <1>1, <1>2, DirsWith
<1>6. WebTypeOK'
  BY <1>1, <1>4, <1>5 DEF WebInv, WebTypeOK
<1>7. OneWorker'
  BY <1>1 DEF WebInv, OneWorker
<1>8. Driven'
  BY <1>1, <1>3, <1>4 DEF WebInv, WebTypeOK, Driven
<1>9. DiskReady' /\ MemoryReady' /\ PreparingOnly'
  BY <1>1, <1>3, <1>4, <1>5
     DEF WebInv, WebTypeOK, DiskReady, ReadyOnDisk, MemoryReady, PreparingOnly
<1>. QED
  BY <1>6, <1>7, <1>8, <1>9 DEF WebInv

(***************************************************************************)
(* A job that changes from one state that nothing drives to another.       *)
(***************************************************************************)
LEMMA PrepareInv ==
  ASSUME WebInv, NEW j \in JobIds, Prepare(j)
  PROVE  WebInv'
<1>1. j \in preparing /\ j \in DOMAIN jobs /\ j \in DOMAIN dirs
      /\ jobs[j].state = "preparing" /\ jobs[j] \in Job /\ dirs[j] \in Dir
  BY DEF Prepare, PrepareWrites, PrepareDone, PrepareFails, WebInv, WebTypeOK, PreparingOnly
<1>2. CASE PrepareWrites(j)
  <2>1. /\ UNCHANGED <<jobs, proving, preparing, worker, resuming, crashes>>
        /\ dirs' = [dirs EXCEPT ![j].prepared = TRUE]
    BY <1>2 DEF PrepareWrites, memory
  <2>2. WebTypeOK'
    BY <1>1, <2>1 DEF WebInv, WebTypeOK, Dir
  <2>3. DiskReady' /\ MemoryReady'
    BY <1>1, <2>1 DEF WebInv, WebTypeOK, Dir, DiskReady, ReadyOnDisk, MemoryReady
  <2>. QED
    BY <2>1, <2>2, <2>3 DEF WebInv, OneWorker, Driven, PreparingOnly
<1>3. CASE PrepareDone(j) \/ PrepareFails(j)
  <2>1. PICK job \in Job :
          /\ jobs' = With(jobs, j, job)
          /\ dirs' = [dirs EXCEPT ![j].job = job]
          /\ preparing' = preparing \ {j}
          /\ UNCHANGED <<proving, worker, resuming, crashes>>
          /\ \/ job.state = "awaiting-signatures" /\ dirs[j].prepared
             \/ job.state = "error"
    <3>1. CASE PrepareDone(j)
      <4>. DEFINE job == [jobs[j] EXCEPT !.state = "awaiting-signatures", !.toSign = TRUE]
      <4>1. job \in Job /\ job.state = "awaiting-signatures"
        BY <1>1 DEF Job, JobStates
      <4>. QED
        BY <3>1, <4>1 DEF PrepareDone, SetAndSave
    <3>2. CASE PrepareFails(j)
      <4>. DEFINE job == [jobs[j] EXCEPT !.state = "error"]
      <4>1. job \in Job /\ job.state = "error"
        BY <1>1 DEF Job, JobStates, Final
      <4>. QED
        BY <3>2, <4>1 DEF PrepareFails, SetAndSave
    <3>. QED
      BY <1>3, <3>1, <3>2
  <2>2. /\ jobs' \in [DOMAIN jobs -> Job] /\ DOMAIN jobs' = DOMAIN jobs
        /\ jobs'[j] = job /\ \A k \in DOMAIN jobs : k # j => jobs'[k] = jobs[k]
    <3>1. DOMAIN jobs \cup {j} = DOMAIN jobs
      BY <1>1
    <3>. QED
      BY <2>1, <3>1, JobsWith
  <2>3. /\ dirs' \in [DOMAIN dirs -> Dir] /\ DOMAIN dirs' = DOMAIN dirs
        /\ dirs'[j].job = job /\ dirs'[j].prepared = dirs[j].prepared
        /\ \A k \in DOMAIN dirs : k # j => dirs'[k] = dirs[k]
    BY <1>1, <2>1 DEF WebInv, WebTypeOK, Dir
  <2>4. WebTypeOK'
    BY <2>1, <2>2, <2>3 DEF WebInv, WebTypeOK
  <2>5. Driven'
    BY <1>1, <2>1, <2>2 DEF WebInv, Driven
  <2>6. DiskReady' /\ MemoryReady'
    BY <1>1, <2>1, <2>2, <2>3
       DEF WebInv, WebTypeOK, DiskReady, ReadyOnDisk, MemoryReady
  <2>7. OneWorker' /\ PreparingOnly'
    BY <2>1, <2>2 DEF WebInv, WebTypeOK, OneWorker, PreparingOnly
  <2>. QED
    BY <2>4, <2>5, <2>6, <2>7 DEF WebInv
<1>. QED
  BY <1>2, <1>3 DEF Prepare

-----------------------------------------------------------------------------
(***************************************************************************)
(* The run of a job takes the slot, by a request or by the resume loop.    *)
(***************************************************************************)
LEMMA FirstStageOk ==
  ASSUME NEW j, WebInv, j \in DOMAIN jobs, DOMAIN worker = {}, RunFinalizeAndSubmit(j)
  PROVE  /\ worker' \in [DOMAIN worker' -> [stage : Stages, reply : Reply]]
         /\ DOMAIN worker' = {j}
<1>1. FirstStage(j) \in Stages /\ NoReply \in Reply
  BY DEF FirstStage, Stages, NoReply, Reply
<1>2. worker' = With(worker, j, Worker(FirstStage(j), NoReply))
  BY DEF RunFinalizeAndSubmit
<1>3. /\ worker' \in [DOMAIN worker \cup {j} -> [stage : Stages, reply : Reply]]
      /\ DOMAIN worker' = DOMAIN worker \cup {j}
  BY <1>1, <1>2, WorkerWith
<1>. QED
  BY <1>3

LEMMA FinalizeInv ==
  ASSUME WebInv, NEW j \in JobIds, Finalize(j)
  PROVE  WebInv'
<1>. DEFINE job == [jobs[j] EXCEPT !.state = "proving"]
<1>1. /\ j \in DOMAIN jobs /\ j \in DOMAIN dirs /\ DOMAIN worker = {}
      /\ jobs[j].state = "awaiting-signatures" /\ dirs[j].prepared
      /\ j \notin preparing /\ jobs[j] \in Job /\ dirs[j] \in Dir
  BY DEF Finalize, Finalizable, WebInv, WebTypeOK, OneWorker, MemoryReady, PreparingOnly
<1>2. /\ jobs' = With(jobs, j, job)
      /\ dirs' = [dirs EXCEPT ![j].sigs = TRUE, ![j].job = job]
      /\ proving' = TRUE /\ RunFinalizeAndSubmit(j)
      /\ UNCHANGED <<preparing, resuming, crashes>>
  BY DEF Finalize
<1>3. job \in Job /\ job.state = "proving"
  BY <1>1 DEF Job, JobStates
<1>. HIDE DEF job
<1>4. /\ worker' \in [DOMAIN worker' -> [stage : Stages, reply : Reply]]
      /\ DOMAIN worker' = {j}
  BY <1>1, <1>2, FirstStageOk
<1>5. /\ jobs' \in [DOMAIN jobs -> Job] /\ DOMAIN jobs' = DOMAIN jobs
      /\ jobs'[j] = job /\ \A k \in DOMAIN jobs : k # j => jobs'[k] = jobs[k]
  <2>1. DOMAIN jobs \cup {j} = DOMAIN jobs
    BY <1>1
  <2>. QED
    BY <1>2, <1>3, <2>1, JobsWith
<1>6. /\ dirs' \in [DOMAIN dirs -> Dir] /\ DOMAIN dirs' = DOMAIN dirs
      /\ dirs'[j].job = job /\ dirs'[j].prepared /\ dirs'[j].sigs
      /\ \A k \in DOMAIN dirs : k # j => dirs'[k] = dirs[k]
  BY <1>1, <1>2, <1>3 DEF WebInv, WebTypeOK, Dir
<1>7. WebTypeOK'
  BY <1>1, <1>2, <1>4, <1>5, <1>6 DEF WebInv, WebTypeOK
<1>8. OneWorker'
  BY <1>2, <1>4 DEF OneWorker
<1>9. Driven'
  BY <1>1, <1>2, <1>3, <1>4, <1>5 DEF WebInv, Driven
<1>10. DiskReady' /\ MemoryReady' /\ PreparingOnly'
  BY <1>1, <1>2, <1>3, <1>5, <1>6
     DEF WebInv, WebTypeOK, DiskReady, ReadyOnDisk, MemoryReady, PreparingOnly
<1>. QED
  BY <1>7, <1>8, <1>9, <1>10 DEF WebInv

LEMMA ResumeInv ==
  ASSUME WebInv, NEW j \in JobIds, Resume(j)
  PROVE  WebInv'
<1>1. /\ j \in resuming /\ j \in DOMAIN jobs /\ DOMAIN worker = {}
      /\ proving' = TRUE /\ resuming' = resuming \ {j}
      /\ RunFinalizeAndSubmit(j)
      /\ UNCHANGED <<jobs, preparing, dirs, crashes>>
  BY DEF Resume, WebInv, WebTypeOK, OneWorker
<1>2. /\ worker' \in [DOMAIN worker' -> [stage : Stages, reply : Reply]]
      /\ DOMAIN worker' = {j}
  BY <1>1, FirstStageOk
<1>3. WebTypeOK'
  BY <1>1, <1>2 DEF WebInv, WebTypeOK
<1>4. OneWorker' /\ Driven'
  BY <1>1, <1>2 DEF WebInv, OneWorker, Driven
<1>. QED
  BY <1>1, <1>3, <1>4 DEF WebInv, DiskReady, MemoryReady, PreparingOnly

(***************************************************************************)
(* A run goes on: the job, the slot and the mirror stay, and response.json *)
(* may come to be.                                                         *)
(***************************************************************************)
LEMMA GotoInv ==
  ASSUME NEW j \in JobIds, NEW stage \in Stages, NEW reply \in Reply,
         WebInv, j \in DOMAIN worker, Goto(j, stage, reply),
         UNCHANGED <<jobs, proving, preparing, resuming, crashes>>,
         \/ UNCHANGED dirs
         \/ \E answer \in Answers : dirs' = [dirs EXCEPT ![j].response = answer]
  PROVE  WebInv'
<1>1. /\ worker' \in [DOMAIN worker' -> [stage : Stages, reply : Reply]]
      /\ DOMAIN worker' = DOMAIN worker
  <2>1. /\ worker' \in [DOMAIN worker \cup {j} -> [stage : Stages, reply : Reply]]
        /\ DOMAIN worker' = DOMAIN worker \cup {j}
    BY WorkerWith DEF Goto
  <2>2. DOMAIN worker \cup {j} = DOMAIN worker
    OBVIOUS
  <2>. QED
    BY <2>1, <2>2
<1>2. /\ dirs' \in [DOMAIN dirs -> Dir] /\ DOMAIN dirs' = DOMAIN dirs
      /\ \A k \in DOMAIN dirs : /\ dirs'[k].job = dirs[k].job
                                /\ dirs'[k].prepared = dirs[k].prepared
                                /\ dirs'[k].sigs = dirs[k].sigs
  <2>1. CASE UNCHANGED dirs
    BY <2>1 DEF WebInv, WebTypeOK
  <2>2. CASE \E answer \in Answers : dirs' = [dirs EXCEPT ![j].response = answer]
    <3>1. PICK answer \in Answers : dirs' = [dirs EXCEPT ![j].response = answer]
      BY <2>2
    <3>2. dirs \in [DOMAIN dirs -> Dir]
      BY DEF WebInv, WebTypeOK
    <3>3. ASSUME NEW k \in DOMAIN dirs
          PROVE  /\ [dirs[k] EXCEPT !.response = answer] \in Dir
                 /\ dirs'[k] \in {dirs[k], [dirs[k] EXCEPT !.response = answer]}
      BY <3>1, <3>2 DEF Dir
    <3>4. DOMAIN dirs' = DOMAIN dirs /\ dirs' = [k \in DOMAIN dirs |-> dirs'[k]]
      BY <3>1
    <3>5. \A k \in DOMAIN dirs : dirs[k] \in Dir /\ dirs'[k] \in Dir
      BY <3>2, <3>3
    <3>6. dirs' \in [DOMAIN dirs -> Dir]
      BY <3>4, <3>5
    <3>. QED
      BY <3>3, <3>4, <3>5, <3>6 DEF Dir
  <2>. QED
    BY <2>1, <2>2
<1>3. WebTypeOK'
  BY <1>1, <1>2 DEF WebInv, WebTypeOK
<1>4. OneWorker' /\ Driven'
  BY <1>1 DEF WebInv, OneWorker, Driven
<1>5. DiskReady' /\ MemoryReady' /\ PreparingOnly'
  BY <1>2 DEF WebInv, WebTypeOK, DiskReady, ReadyOnDisk, MemoryReady, PreparingOnly
<1>. QED
  BY <1>3, <1>4, <1>5 DEF WebInv

LEMMA ProveInv ==
  ASSUME WebInv, NEW j \in JobIds, Prove(j)
  PROVE  WebInv'
<1>1. {"written", "submit"} \subseteq Stages /\ NoReply \in Reply
  BY DEF Stages, NoReply, Reply
<1>2. CASE ProveWrites(j)
  <2>1. j \in DOMAIN worker /\ j \in DOMAIN dirs /\ dirs[j].challenge \in Challenges
    BY <1>2 DEF ProveWrites, At, WebInv, WebTypeOK, Dir
  <2>2. AnswersTo[dirs[j].challenge] \subseteq Answers
    BY <2>1, AnswersAssumption DEF Answers
  <2>3. \E answer \in Answers : dirs' = [dirs EXCEPT ![j].response = answer]
    BY <1>2, <2>2 DEF ProveWrites
  <2>. QED
    BY <1>1, <1>2, <2>1, <2>3, GotoInv DEF ProveWrites
<1>3. CASE ProveDone(j)
  BY <1>1, <1>3, GotoInv DEF ProveDone, At
<1>. QED
  BY <1>2, <1>3 DEF Prove

LEMMA ExchangeInv ==
  ASSUME WebInv, NEW j \in JobIds, Exchange(j)
  PROVE  WebInv'
<1>1. {"wait", "ask", "record"} \subseteq Stages /\ NoReply \in Reply
  BY DEF Stages, NoReply, Reply
<1>2. CASE PostTaken(j)
  BY <1>1, <1>2, GotoInv DEF PostTaken, At
<1>3. ASSUME NEW reply \in Reply, PostReply(j, reply)
      PROVE  WebInv'
  BY <1>1, <1>3, GotoInv DEF PostReply, At
<1>4. ASSUME NEW verdict \in {NoVerdict, "verified", "rejected"}, StatusReply(j, verdict)
      PROVE  WebInv'
  <2>. DEFINE reply == IF verdict = NoVerdict THEN worker[j].reply
                       ELSE [verdict |-> verdict, answered |-> FALSE]
  <2>1. j \in DOMAIN worker
    BY <1>4 DEF StatusReply, At
  <2>2. reply \in Reply
    BY <2>1 DEF WebInv, WebTypeOK, Reply
  <2>3. Goto(j, "record", reply) /\ UNCHANGED <<jobs, proving, preparing, resuming, dirs, crashes>>
    BY <1>4 DEF StatusReply
  <2>. QED
    BY <1>1, <2>1, <2>2, <2>3, GotoInv
<1>. QED
  BY <1>2, <1>3, <1>4 DEF Exchange

(***************************************************************************)
(* The end of a run frees the slot and leaves nothing to resume.           *)
(***************************************************************************)
LEMMA EndRunInv ==
  ASSUME NEW j \in JobIds, NEW state \in Final, NEW verdict \in JobVerdicts,
         WebInv, j \in DOMAIN worker, EndRun(j, state, verdict)
  PROVE  WebInv'
<1>. DEFINE job == [jobs[j] EXCEPT !.state = state, !.verdict = verdict]
<1>1. /\ j \in DOMAIN jobs /\ j \in DOMAIN dirs /\ jobs[j] \in Job /\ dirs[j] \in Dir
      /\ jobs[j].state = "proving" /\ j \notin preparing
      /\ \A k \in DOMAIN worker : k = j
      /\ j \notin resuming
  BY DEF WebInv, WebTypeOK, OneWorker, Driven, PreparingOnly
<1>2. /\ jobs' = With(jobs, j, job)
      /\ dirs' = [dirs EXCEPT ![j].job = job]
      /\ worker' = Without(worker, j)
      /\ proving' = FALSE
      /\ UNCHANGED <<preparing, resuming, crashes>>
  BY DEF EndRun, SetAndSave
<1>3. job \in Job /\ job.state \in Final
  BY <1>1 DEF Job, JobStates
<1>. HIDE DEF job
<1>4. DOMAIN worker' = {} /\ worker' \in [DOMAIN worker' -> [stage : Stages, reply : Reply]]
  <2>1. /\ worker' \in [DOMAIN worker \ {j} -> [stage : Stages, reply : Reply]]
        /\ DOMAIN worker' = DOMAIN worker \ {j}
    BY <1>2, WorkerWithout
  <2>. QED
    BY <1>1, <2>1
<1>5. /\ jobs' \in [DOMAIN jobs -> Job] /\ DOMAIN jobs' = DOMAIN jobs
      /\ jobs'[j] = job /\ \A k \in DOMAIN jobs : k # j => jobs'[k] = jobs[k]
  <2>1. DOMAIN jobs \cup {j} = DOMAIN jobs
    BY <1>1
  <2>. QED
    BY <1>2, <1>3, <2>1, JobsWith
<1>6. /\ dirs' \in [DOMAIN dirs -> Dir] /\ DOMAIN dirs' = DOMAIN dirs
      /\ dirs'[j].job = job /\ dirs'[j].prepared = dirs[j].prepared
      /\ \A k \in DOMAIN dirs : k # j => dirs'[k] = dirs[k]
  BY <1>1, <1>2, <1>3 DEF WebInv, WebTypeOK, Dir
<1>7. WebTypeOK'
  BY <1>2, <1>4, <1>5, <1>6 DEF WebInv, WebTypeOK
<1>8. OneWorker'
  BY <1>2, <1>4 DEF OneWorker
<1>9. Driven'
  BY <1>1, <1>2, <1>3, <1>4, <1>5 DEF WebInv, Driven, Final
<1>10. DiskReady' /\ MemoryReady' /\ PreparingOnly'
  BY <1>1, <1>2, <1>3, <1>5, <1>6
     DEF WebInv, WebTypeOK, DiskReady, ReadyOnDisk, MemoryReady, PreparingOnly, Final
<1>. QED
  BY <1>7, <1>8, <1>9, <1>10 DEF WebInv

LEMMA RunInv ==
  ASSUME WebInv, NEW j \in JobIds, Run(j)
  PROVE  WebInv'
<1>1. CASE RecordVerdict(j)
  <2>1. j \in DOMAIN worker
    BY <1>1 DEF RecordVerdict, At
  <2>2. worker[j].reply.verdict \in {NoVerdict, "verified", "rejected"}
    BY <2>1 DEF WebInv, WebTypeOK, Reply
  <2>3. \E state \in Final, verdict \in JobVerdicts : EndRun(j, state, verdict)
    BY <1>1, <2>2 DEF RecordVerdict, Final, JobVerdicts
  <2>. QED
    BY <2>1, <2>3, EndRunInv
<1>2. CASE RunFails(j)
  <2>1. j \in DOMAIN worker
    BY <1>2 DEF RunFails, At
  <2>2. jobs[j].verdict \in JobVerdicts
    BY <2>1 DEF WebInv, WebTypeOK, Job
  <2>. QED
    BY <1>2, <2>1, <2>2, EndRunInv DEF RunFails, Final
<1>. QED
  BY <1>1, <1>2, ProveInv, ExchangeInv DEF Run

-----------------------------------------------------------------------------
(***************************************************************************)
(* A restart: whatever the crash left on the disk, as long as a job that   *)
(* is to be resumed has its files there.                                   *)
(***************************************************************************)
LEMMA RestartInv ==
  ASSUME NEW disk, WebInv, RestartFrom(disk),
         disk \in [DOMAIN dirs -> Dir],
         \A j \in DOMAIN dirs : ReadyOnDisk(disk[j])
  PROVE  WebInv'
<1>. DEFINE found == {j \in DOMAIN disk : disk[j].job # NoJob}
<1>1. /\ crashes < MaxCrashes /\ crashes' = crashes + 1
      /\ dirs' = disk
      /\ jobs' = [j \in found |-> Rehydrated(disk[j])]
      /\ resuming' = {j \in found : disk[j].job.state = "proving"}
      /\ proving' = FALSE
      /\ preparing' = {}
      /\ worker' = [j \in {} |-> NoJob]
  BY DEF RestartFrom
<1>2. DOMAIN worker' = {} /\ worker' \in [DOMAIN worker' -> [stage : Stages, reply : Reply]]
  BY <1>1
<1>3. \A j \in found : disk[j].job \in Job /\ Rehydrated(disk[j]) \in Job
  BY DEF Rehydrated, Dir, Job, JobStates, Final
<1>4. \A j \in found :
        /\ Rehydrated(disk[j]).state = "proving" <=> disk[j].job.state = "proving"
        /\ Rehydrated(disk[j]).state = "awaiting-signatures" => disk[j].prepared
  BY <1>3 DEF Rehydrated, ReadyOnDisk, Job
<1>5. DOMAIN disk = DOMAIN dirs /\ DOMAIN jobs' = found /\ found \subseteq DOMAIN dirs
  BY <1>1
<1>6. \A j \in found : jobs'[j] = Rehydrated(disk[j])
  BY <1>1
<1>. HIDE DEF found
<1>7. jobs' \in [found -> Job]
  BY <1>1, <1>3
<1>8. resuming' \subseteq found /\ \A j \in found : j \in resuming' <=> disk[j].job.state = "proving"
  BY <1>1
<1>9. WebTypeOK'
  <2>1. crashes' \in 0..MaxCrashes
    BY <1>1, BoundAssumption DEF WebInv, WebTypeOK
  <2>2. DOMAIN dirs \subseteq JobIds
    BY DEF WebInv, WebTypeOK
  <2>. QED
    BY <1>1, <1>2, <1>5, <1>7, <1>8, <2>1, <2>2 DEF WebTypeOK
<1>10. OneWorker'
  BY <1>1, <1>2 DEF OneWorker
<1>11. Driven'
  BY <1>2, <1>4, <1>5, <1>6, <1>8 DEF Driven
<1>12. DiskReady' /\ MemoryReady' /\ PreparingOnly'
  BY <1>1, <1>4, <1>5, <1>6 DEF DiskReady, MemoryReady, PreparingOnly
<1>. QED
  BY <1>9, <1>10, <1>11, <1>12 DEF WebInv

LEMMA CrashInv == ASSUME WebInv, AnyCrash PROVE WebInv'
<1>1. dirs \in [DOMAIN dirs -> Dir] /\ \A j \in DOMAIN dirs : ReadyOnDisk(dirs[j])
  BY DEF WebInv, WebTypeOK, DiskReady
<1>2. CASE Crash
  BY <1>1, <1>2, RestartInv DEF Crash
<1>3. ASSUME NEW j \in JobIds, CrashInFinalize(j) \/ CrashInResponse(j) \/ CrashInSave(j)
      PROVE  WebInv'
  <2>1. PICK disk : /\ RestartFrom(disk)
                    /\ \/ disk = [dirs EXCEPT ![j].sigs = TRUE]
                       \/ disk = [dirs EXCEPT ![j].response = Torn]
                       \/ disk = [dirs EXCEPT ![j].job = NoJob]
    BY <1>3 DEF CrashInFinalize, CrashInResponse, CrashInSave
  <2>2. disk \in [DOMAIN dirs -> Dir]
    <3>1. \A k \in DOMAIN dirs : /\ [dirs[k] EXCEPT !.sigs = TRUE] \in Dir
                                /\ [dirs[k] EXCEPT !.response = Torn] \in Dir
                                /\ [dirs[k] EXCEPT !.job = NoJob] \in Dir
      BY <1>1 DEF Dir
    <3>. QED
      BY <1>1, <2>1, <3>1
  <2>3. \A k \in DOMAIN dirs : ReadyOnDisk(disk[k])
    BY <1>1, <2>1 DEF Dir, ReadyOnDisk
  <2>. QED
    BY <2>1, <2>2, <2>3, RestartInv
<1>. QED
  BY <1>2, <1>3 DEF AnyCrash

LEMMA WebStep == WebInv /\ [WebNext]_webVars => WebInv'
<1>. SUFFICES ASSUME WebInv, [WebNext]_webVars PROVE WebInv'
  OBVIOUS
<1>1. CASE WebNext
  BY <1>1, StartInv, PrepareInv, FinalizeInv, ResumeInv, RunInv, CrashInv DEF WebNext
<1>2. CASE UNCHANGED webVars
  BY <1>2 DEF webVars, memory, WebInv, WebTypeOK, OneWorker, Driven, DiskReady,
              MemoryReady, PreparingOnly
<1>. QED
  BY <1>1, <1>2

LEMMA WebInvariant == WebSpec => []WebInv
BY InitInv, WebStep, PTL DEF WebSpec

-----------------------------------------------------------------------------
(***************************************************************************)
(* The server's memory and disk stay in shape, across any crashes.         *)
(***************************************************************************)
THEOREM WebTypes == WebSpec => []WebTypeOK
BY WebInvariant, PTL DEF WebInv

(***************************************************************************)
(* Of any number of jobs, started by requests and by the resume loop, one  *)
(* proof runs at a time, and the flag says whether one does.               *)
(***************************************************************************)
THEOREM OneProve == WebSpec => []OneProveAtATime
<1>1. WebInv => OneProveAtATime
  <2>. SUFFICES ASSUME WebInv PROVE OneProveAtATime
    OBVIOUS
  <2>. DEFINE empty == [j \in {} |-> NoJob]
  <2>1. worker = empty <=> DOMAIN worker = {}
    <3>1. DOMAIN empty = {}
      OBVIOUS
    <3>2. ASSUME DOMAIN worker = {} PROVE worker = empty
      BY <3>1, <3>2 DEF WebInv, WebTypeOK
    <3>. QED
      BY <3>1, <3>2
  <2>. QED
    BY <2>1 DEF WebInv, OneWorker, OneProveAtATime
<1>. QED
  BY <1>1, WebInvariant, PTL

(***************************************************************************)
(* Every job shown as "proving" is driven by exactly one run, now or when  *)
(* the resume loop gets to it, and has the files it is resumed from.       *)
(***************************************************************************)
THEOREM ProvingDriven == WebSpec => []ProvingIsDriven
<1>1. WebInv => ProvingIsDriven
  BY DEF WebInv, Driven, DiskReady, ReadyOnDisk, ProvingIsDriven
<1>. QED
  BY <1>1, WebInvariant, PTL

-----------------------------------------------------------------------------
(***************************************************************************)
(* What no step may do.  A job in memory is the one of its mirror, or what *)
(* rehydrate made of it and did not save: it is what the next restart will *)
(* bring back.  And a run proves only while there is no response.json.     *)
(***************************************************************************)
Mirrored == \A j \in DOMAIN jobs : jobs[j] \in {dirs[j].job, Rehydrated(dirs[j])}

FreshProof ==
  \A j \in DOMAIN worker : worker[j].stage = "prove" => dirs[j].response = Absent

KeepInv == WebInv /\ Mirrored /\ FreshProof

JobsKept ==
  \A j \in DOMAIN jobs : dirs'[j].job # NoJob =>
     /\ j \in DOMAIN jobs'
     /\ Rank(jobs'[j].state) >= Rank(jobs[j].state)
     /\ jobs[j].state \in Final => jobs'[j] = jobs[j]

ProofKept ==
  \A j \in DOMAIN dirs :
     dirs[j].response # Absent =>
        /\ j \in DOMAIN dirs' /\ dirs'[j].response = dirs[j].response
        /\ j \in DOMAIN worker' => worker'[j].stage # "prove"

Kept == Mirrored' /\ FreshProof' /\ JobsKept /\ ProofKept

LEMMA RankIsNat == \A state : Rank(state) \in Nat
BY DEF Rank

(***************************************************************************)
(* A step that moves one job forward and saves it, and lets no run begin.  *)
(***************************************************************************)
LEMMA SavedKept ==
  ASSUME KeepInv, NEW j \in DOMAIN jobs, NEW job \in Job,
         jobs' = With(jobs, j, job),
         DOMAIN dirs' = DOMAIN dirs, dirs'[j].job = job,
         dirs'[j].response = dirs[j].response,
         \A k \in DOMAIN dirs : k # j => dirs'[k] = dirs[k],
         jobs[j].state \notin Final, Rank(job.state) >= Rank(jobs[j].state),
         DOMAIN worker' \subseteq DOMAIN dirs,
         \A k \in DOMAIN worker' :
            \/ k \in DOMAIN worker /\ worker'[k] = worker[k]
            \/ worker'[k].stage = "prove" => dirs[k].response = Absent
  PROVE  Kept
<1>1. /\ DOMAIN jobs' = DOMAIN jobs /\ jobs'[j] = job
      /\ \A k \in DOMAIN jobs : k # j => jobs'[k] = jobs[k]
  <2>1. DOMAIN jobs \cup {j} = DOMAIN jobs
    OBVIOUS
  <2>. QED
    BY <2>1, JobsWith DEF KeepInv
<1>2. DOMAIN jobs \subseteq DOMAIN dirs /\ DOMAIN worker \subseteq DOMAIN dirs
  BY DEF KeepInv, WebInv, WebTypeOK
<1>3. Mirrored'
  BY <1>1, <1>2 DEF KeepInv, Mirrored, Rehydrated
<1>4. \A k \in DOMAIN dirs : dirs'[k].response = dirs[k].response
  OBVIOUS
<1>5. \A k \in DOMAIN worker' : worker'[k].stage = "prove" => dirs[k].response = Absent
  BY DEF KeepInv, FreshProof
<1>6. FreshProof'
  BY <1>4, <1>5 DEF FreshProof
<1>7. JobsKept
  BY <1>1, <1>2, RankIsNat DEF JobsKept
<1>8. ProofKept
  BY <1>4, <1>5 DEF ProofKept
<1>. QED
  BY <1>3, <1>6, <1>7, <1>8 DEF Kept

(***************************************************************************)
(* A step of a run, or its beginning: jobs and their files stay.           *)
(***************************************************************************)
LEMMA DriveKept ==
  ASSUME KeepInv, UNCHANGED <<jobs, dirs>>,
         DOMAIN worker' \subseteq DOMAIN dirs,
         \A k \in DOMAIN worker' :
            \/ k \in DOMAIN worker /\ worker'[k] = worker[k]
            \/ worker'[k].stage = "prove" => dirs[k].response = Absent
  PROVE  Kept
<1>1. \A k \in DOMAIN worker' : worker'[k].stage = "prove" => dirs[k].response = Absent
  BY DEF KeepInv, FreshProof
<1>2. Mirrored' /\ FreshProof'
  BY <1>1 DEF KeepInv, Mirrored, FreshProof
<1>3. JobsKept
  BY RankIsNat DEF JobsKept
<1>4. ProofKept
  BY <1>1 DEF ProofKept
<1>. QED
  BY <1>2, <1>3, <1>4 DEF Kept

LEMMA GotoWorker ==
  ASSUME KeepInv, NEW j \in DOMAIN worker, NEW stage \in Stages, NEW reply \in Reply,
         stage # "prove", Goto(j, stage, reply)
  PROVE  /\ DOMAIN worker' = DOMAIN worker /\ worker'[j].stage = stage
         /\ DOMAIN worker' \subseteq DOMAIN dirs
         /\ \A k \in DOMAIN worker' :
               \/ k \in DOMAIN worker /\ worker'[k] = worker[k]
               \/ worker'[k].stage = "prove" => dirs[k].response = Absent
<1>1. worker' = [x \in DOMAIN worker \cup {j} |->
                   IF x = j THEN Worker(stage, reply) ELSE worker[x]]
  BY DEF Goto, With
<1>2. DOMAIN worker \cup {j} = DOMAIN worker
  OBVIOUS
<1>3. Worker(stage, reply).stage = stage
  BY DEF Worker
<1>. QED
  BY <1>1, <1>2, <1>3 DEF KeepInv, WebInv, WebTypeOK

LEMMA BeginWorker ==
  ASSUME KeepInv, NEW j \in DOMAIN jobs, RunFinalizeAndSubmit(j), DOMAIN worker = {}
  PROVE  /\ DOMAIN worker' \subseteq DOMAIN dirs
         /\ \A k \in DOMAIN worker' :
               worker'[k].stage = "prove" => dirs[k].response = Absent
<1>1. worker' = [x \in DOMAIN worker \cup {j} |->
                   IF x = j THEN Worker(FirstStage(j), NoReply) ELSE worker[x]]
  BY DEF RunFinalizeAndSubmit, With
<1>2. Worker(FirstStage(j), NoReply).stage = "prove" => dirs[j].response = Absent
  BY DEF Worker, FirstStage
<1>. QED
  BY <1>1, <1>2 DEF KeepInv, WebInv, WebTypeOK

LEMMA StartKept ==
  ASSUME KeepInv, NEW j \in JobIds, NEW c \in Challenges, Start(j, c)
  PROVE  Kept
<1>. DEFINE job == [state |-> "preparing", verdict |-> NoVerdict, toSign |-> FALSE]
            dir == [challenge |-> c, job |-> job, prepared |-> FALSE,
                    sigs |-> FALSE, response |-> Absent]
<1>1. /\ j \notin DOMAIN dirs /\ j \notin DOMAIN jobs /\ j \notin DOMAIN worker
      /\ DOMAIN jobs \subseteq DOMAIN dirs /\ DOMAIN worker \subseteq DOMAIN dirs
      /\ jobs' = With(jobs, j, job) /\ dirs' = With(dirs, j, dir)
      /\ UNCHANGED worker
  BY DEF Start, KeepInv, WebInv, WebTypeOK
<1>2. job \in Job /\ dir \in Dir
  BY DEF Job, JobStates, JobVerdicts, Dir
<1>3. dir.job = job
  OBVIOUS
<1>. HIDE DEF job, dir
<1>4. /\ DOMAIN jobs' = DOMAIN jobs \cup {j}
      /\ jobs'[j] = job /\ \A k \in DOMAIN jobs : jobs'[k] = jobs[k]
  BY <1>1, <1>2, JobsWith DEF KeepInv
<1>5. /\ DOMAIN dirs' = DOMAIN dirs \cup {j}
      /\ dirs'[j] = dir /\ \A k \in DOMAIN dirs : dirs'[k] = dirs[k]
  BY <1>1, <1>2, DirsWith DEF KeepInv
<1>6. Mirrored'
  BY <1>1, <1>3, <1>4, <1>5 DEF KeepInv, Mirrored, Rehydrated
<1>7. FreshProof'
  BY <1>1, <1>5 DEF KeepInv, FreshProof
<1>8. JobsKept
  BY <1>1, <1>4, RankIsNat DEF JobsKept
<1>9. ProofKept
  BY <1>1, <1>5 DEF KeepInv, FreshProof, ProofKept
<1>. QED
  BY <1>6, <1>7, <1>8, <1>9 DEF Kept

LEMMA PrepareKept ==
  ASSUME KeepInv, NEW j \in JobIds, Prepare(j)
  PROVE  Kept
<1>1. /\ j \in DOMAIN jobs /\ j \in DOMAIN dirs /\ jobs[j].state = "preparing"
      /\ jobs[j] \in Job /\ dirs[j] \in Dir /\ DOMAIN worker \subseteq DOMAIN dirs
      /\ DOMAIN jobs \subseteq DOMAIN dirs
  BY DEF Prepare, PrepareWrites, PrepareDone, PrepareFails,
         KeepInv, WebInv, WebTypeOK, PreparingOnly
<1>2. UNCHANGED worker
  BY DEF Prepare, PrepareWrites, PrepareDone, PrepareFails, memory
<1>3. CASE PrepareWrites(j)
  <2>1. UNCHANGED jobs /\ dirs' = [dirs EXCEPT ![j].prepared = TRUE]
    BY <1>3 DEF PrepareWrites, memory
  <2>2. /\ DOMAIN dirs' = DOMAIN dirs
        /\ \A k \in DOMAIN dirs : k # j => dirs'[k] = dirs[k]
        /\ dirs'[j].job = dirs[j].job /\ dirs'[j].response = dirs[j].response
    BY <1>1, <2>1 DEF Dir
  <2>3. Mirrored'
    <3>1. jobs[j] = dirs[j].job
      BY <1>1 DEF KeepInv, Mirrored, Rehydrated, Job
    <3>. QED
      BY <1>1, <2>1, <2>2, <3>1 DEF KeepInv, Mirrored, Rehydrated
  <2>4. FreshProof' /\ ProofKept
    BY <1>1, <1>2, <2>2 DEF KeepInv, FreshProof, ProofKept
  <2>5. JobsKept
    BY <2>1, RankIsNat DEF JobsKept
  <2>. QED
    BY <2>3, <2>4, <2>5 DEF Kept
<1>4. CASE PrepareDone(j) \/ PrepareFails(j)
  <2>1. PICK job \in Job : /\ SetAndSave(j, job)
                           /\ job.state \in {"awaiting-signatures", "error"}
    <3>1. /\ [jobs[j] EXCEPT !.state = "awaiting-signatures", !.toSign = TRUE] \in Job
          /\ [jobs[j] EXCEPT !.state = "error"] \in Job
          /\ [jobs[j] EXCEPT !.state = "awaiting-signatures", !.toSign = TRUE].state
               = "awaiting-signatures"
          /\ [jobs[j] EXCEPT !.state = "error"].state = "error"
      BY <1>1 DEF Job, JobStates, Final
    <3>. QED
      BY <1>4, <3>1 DEF PrepareDone, PrepareFails
  <2>2. /\ DOMAIN dirs' = DOMAIN dirs /\ dirs'[j].job = job
        /\ dirs'[j].response = dirs[j].response
        /\ \A k \in DOMAIN dirs : k # j => dirs'[k] = dirs[k]
    BY <1>1, <2>1 DEF SetAndSave, Dir
  <2>3. jobs[j].state \notin Final /\ Rank(job.state) >= Rank(jobs[j].state)
    BY <1>1, <2>1 DEF Final, Rank
  <2>. QED
    BY <1>1, <1>2, <2>1, <2>2, <2>3, SavedKept DEF SetAndSave
<1>. QED
  BY <1>3, <1>4 DEF Prepare

LEMMA FinalizeKept ==
  ASSUME KeepInv, NEW j \in JobIds, Finalize(j)
  PROVE  Kept
<1>. DEFINE job == [jobs[j] EXCEPT !.state = "proving"]
<1>1. /\ j \in DOMAIN jobs /\ j \in DOMAIN dirs /\ jobs[j].state = "awaiting-signatures"
      /\ jobs[j] \in Job /\ dirs[j] \in Dir /\ DOMAIN worker = {}
  BY DEF Finalize, Finalizable, KeepInv, WebInv, WebTypeOK, OneWorker
<1>2. job \in Job /\ job.state = "proving"
  BY <1>1 DEF Job, JobStates
<1>3. /\ jobs' = With(jobs, j, job) /\ RunFinalizeAndSubmit(j)
      /\ dirs' = [dirs EXCEPT ![j].sigs = TRUE, ![j].job = job]
  BY DEF Finalize
<1>. HIDE DEF job
<1>4. /\ DOMAIN dirs' = DOMAIN dirs /\ dirs'[j].job = job
      /\ dirs'[j].response = dirs[j].response
      /\ \A k \in DOMAIN dirs : k # j => dirs'[k] = dirs[k]
  BY <1>1, <1>3 DEF Dir
<1>5. jobs[j].state \notin Final /\ Rank(job.state) >= Rank(jobs[j].state)
  BY <1>1, <1>2 DEF Final, Rank
<1>6. /\ DOMAIN worker' \subseteq DOMAIN dirs
      /\ \A k \in DOMAIN worker' : worker'[k].stage = "prove" => dirs[k].response = Absent
  BY <1>1, <1>3, BeginWorker
<1>. QED
  BY <1>1, <1>2, <1>3, <1>4, <1>5, <1>6, SavedKept

LEMMA ResumeKept ==
  ASSUME KeepInv, NEW j \in JobIds, Resume(j)
  PROVE  Kept
<1>1. /\ j \in DOMAIN jobs /\ DOMAIN worker = {} /\ RunFinalizeAndSubmit(j)
      /\ UNCHANGED <<jobs, dirs>>
  BY DEF Resume, KeepInv, WebInv, WebTypeOK, OneWorker
<1>. QED
  BY <1>1, BeginWorker, DriveKept

LEMMA ProveKept ==
  ASSUME KeepInv, NEW j \in JobIds, Prove(j)
  PROVE  Kept
<1>1. {"written", "submit"} \subseteq Stages /\ NoReply \in Reply
  BY DEF Stages, NoReply, Reply
<1>2. CASE ProveWrites(j)
  <2>1. /\ j \in DOMAIN worker /\ j \in DOMAIN dirs /\ worker[j].stage = "prove"
        /\ DOMAIN jobs \subseteq DOMAIN dirs /\ dirs \in [DOMAIN dirs -> Dir]
        /\ Goto(j, "written", NoReply) /\ UNCHANGED jobs
    BY <1>2 DEF ProveWrites, At, KeepInv, WebInv, WebTypeOK
  <2>2. PICK answer : dirs' = [dirs EXCEPT ![j].response = answer]
    BY <1>2 DEF ProveWrites
  <2>3. /\ DOMAIN dirs' = DOMAIN dirs
        /\ \A k \in DOMAIN dirs : k # j => dirs'[k] = dirs[k]
        /\ \A k \in DOMAIN dirs : /\ dirs'[k].job = dirs[k].job
                                  /\ dirs'[k].prepared = dirs[k].prepared
    BY <2>1, <2>2 DEF Dir
  <2>4. Mirrored'
    BY <2>1, <2>3 DEF KeepInv, Mirrored, Rehydrated
  <2>5. /\ worker'[j].stage = "written" /\ DOMAIN worker' = DOMAIN worker
        /\ DOMAIN worker' \subseteq DOMAIN dirs
        /\ \A k \in DOMAIN worker' : k = j
    BY <1>1, <2>1, GotoWorker DEF KeepInv, WebInv, OneWorker
  <2>6. FreshProof' /\ ProofKept
    <3>1. dirs[j].response = Absent
      BY <2>1 DEF KeepInv, FreshProof
    <3>. QED
      BY <2>3, <2>5, <3>1 DEF FreshProof, ProofKept
  <2>7. JobsKept
    BY <2>1, RankIsNat DEF JobsKept
  <2>. QED
    BY <2>4, <2>6, <2>7 DEF Kept
<1>3. CASE ProveDone(j)
  BY <1>1, <1>3, GotoWorker, DriveKept DEF ProveDone, At
<1>. QED
  BY <1>2, <1>3 DEF Prove

LEMMA ExchangeKept ==
  ASSUME KeepInv, NEW j \in JobIds, Exchange(j)
  PROVE  Kept
<1>1. PICK stage \in Stages, reply \in Reply :
        stage # "prove" /\ j \in DOMAIN worker /\ Goto(j, stage, reply)
  <2>1. {"wait", "ask", "record"} \subseteq Stages /\ NoReply \in Reply
    BY DEF Stages, NoReply, Reply
  <2>2. CASE PostTaken(j)
    BY <2>1, <2>2 DEF PostTaken, At
  <2>3. CASE \E reply \in Reply : PostReply(j, reply)
    BY <2>1, <2>3 DEF PostReply, At
  <2>4. ASSUME NEW verdict \in {NoVerdict, "verified", "rejected"}, StatusReply(j, verdict)
        PROVE  \E reply \in Reply : j \in DOMAIN worker /\ Goto(j, "record", reply)
    <3>. DEFINE reply == IF verdict = NoVerdict THEN worker[j].reply
                         ELSE [verdict |-> verdict, answered |-> FALSE]
    <3>1. j \in DOMAIN worker /\ Goto(j, "record", reply)
      BY <2>4 DEF StatusReply, At
    <3>2. reply \in Reply
      BY <3>1 DEF KeepInv, WebInv, WebTypeOK, Reply
    <3>. QED
      BY <3>1, <3>2
  <2>. QED
    BY <2>1, <2>2, <2>3, <2>4 DEF Exchange
<1>2. UNCHANGED <<jobs, dirs>>
  BY DEF Exchange, PostTaken, PostReply, StatusReply
<1>. QED
  BY <1>1, <1>2, GotoWorker, DriveKept

LEMMA EndRunKept ==
  ASSUME KeepInv, NEW j \in JobIds, RecordVerdict(j) \/ RunFails(j)
  PROVE  Kept
<1>1. /\ j \in DOMAIN worker /\ j \in DOMAIN jobs /\ j \in DOMAIN dirs
      /\ jobs[j] \in Job /\ dirs[j] \in Dir /\ jobs[j].state = "proving"
      /\ worker[j].reply.verdict \in {NoVerdict, "verified", "rejected"}
      /\ DOMAIN worker \subseteq DOMAIN dirs
  BY DEF RecordVerdict, RunFails, At, KeepInv, WebInv, WebTypeOK, Driven, Reply
<1>2. PICK state \in Final, verdict \in JobVerdicts : EndRun(j, state, verdict)
  BY <1>1 DEF RecordVerdict, RunFails, Final, JobVerdicts, Job
<1>. DEFINE job == [jobs[j] EXCEPT !.state = state, !.verdict = verdict]
<1>3. job \in Job /\ job.state = state
  BY <1>1 DEF Job, JobStates
<1>4. /\ jobs' = With(jobs, j, job) /\ dirs' = [dirs EXCEPT ![j].job = job]
      /\ worker' = Without(worker, j)
  BY <1>2 DEF EndRun, SetAndSave
<1>. HIDE DEF job
<1>5. /\ DOMAIN dirs' = DOMAIN dirs /\ dirs'[j].job = job
      /\ dirs'[j].response = dirs[j].response
      /\ \A k \in DOMAIN dirs : k # j => dirs'[k] = dirs[k]
  BY <1>1, <1>4 DEF Dir
<1>6. /\ DOMAIN worker' \subseteq DOMAIN worker
      /\ \A k \in DOMAIN worker' : worker'[k] = worker[k]
  BY <1>4 DEF Without, Restrict
<1>7. jobs[j].state \notin Final /\ Rank(job.state) >= Rank(jobs[j].state)
  BY <1>1, <1>3 DEF Final, Rank
<1>. QED
  BY <1>1, <1>3, <1>4, <1>5, <1>6, <1>7, SavedKept

(***************************************************************************)
(* A crash: of a job whose job.json is whole, the mirror gives back the    *)
(* job that memory held.                                                   *)
(***************************************************************************)
LEMMA RestartKept ==
  ASSUME NEW disk, KeepInv, RestartFrom(disk), DOMAIN disk = DOMAIN dirs,
         \A k \in DOMAIN dirs :
            /\ disk[k].prepared = dirs[k].prepared
            /\ disk[k].job \in {dirs[k].job, NoJob}
            /\ dirs[k].response # Absent => disk[k].response = dirs[k].response
  PROVE  Kept
<1>. DEFINE found == {j \in DOMAIN disk : disk[j].job # NoJob}
<1>1. /\ dirs' = disk
      /\ jobs' = [j \in found |-> Rehydrated(disk[j])]
      /\ worker' = [j \in {} |-> NoJob]
  BY DEF RestartFrom
<1>2. DOMAIN worker' = {} /\ DOMAIN jobs' = found
  BY <1>1
<1>3. \A j \in found : jobs'[j] = Rehydrated(disk[j])
  BY <1>1
<1>4. \A j \in found : /\ j \in DOMAIN dirs /\ disk[j].job = dirs[j].job
                       /\ Rehydrated(disk[j]) = Rehydrated(dirs[j])
                       /\ dirs[j].job \in Job
  BY DEF Rehydrated, KeepInv, WebInv, WebTypeOK, Dir
<1>5. Mirrored' /\ FreshProof'
  BY <1>1, <1>2, <1>3 DEF Mirrored, FreshProof
<1>6. ProofKept
  BY <1>1, <1>2 DEF ProofKept
<1>7. ASSUME NEW j \in DOMAIN jobs, dirs'[j].job # NoJob
      PROVE  /\ j \in DOMAIN jobs'
             /\ Rank(jobs'[j].state) >= Rank(jobs[j].state)
             /\ jobs[j].state \in Final => jobs'[j] = jobs[j]
  <2>1. j \in found
    BY <1>1, <1>7 DEF KeepInv, WebInv, WebTypeOK
  <2>2. jobs'[j] = Rehydrated(dirs[j]) /\ jobs[j] \in {dirs[j].job, Rehydrated(dirs[j])}
    BY <1>3, <1>4, <2>1 DEF KeepInv, Mirrored
  <2>3. CASE jobs[j] = Rehydrated(dirs[j])
    BY <1>2, <2>1, <2>2, <2>3, RankIsNat
  <2>4. CASE jobs[j] # Rehydrated(dirs[j])
    <3>1. jobs[j].state = "preparing"
      BY <2>2, <2>4 DEF Rehydrated
    <3>. QED
      BY <1>2, <2>1, <3>1, RankIsNat DEF Rank, Final
  <2>. QED
    BY <2>3, <2>4
<1>. QED
  BY <1>5, <1>6, <1>7 DEF Kept, JobsKept

LEMMA CrashKept == ASSUME KeepInv, AnyCrash PROVE Kept
<1>1. dirs \in [DOMAIN dirs -> Dir]
  BY DEF KeepInv, WebInv, WebTypeOK
<1>2. CASE Crash
  BY <1>2, RestartKept DEF Crash
<1>3. ASSUME NEW j \in JobIds, CrashInFinalize(j) \/ CrashInResponse(j) \/ CrashInSave(j)
      PROVE  Kept
  <2>1. PICK disk : /\ RestartFrom(disk)
                    /\ \/ disk = [dirs EXCEPT ![j].sigs = TRUE]
                       \/ disk = [dirs EXCEPT ![j].response = Torn] /\ At(j, "prove")
                       \/ disk = [dirs EXCEPT ![j].job = NoJob]
    BY <1>3 DEF CrashInFinalize, CrashInResponse, CrashInSave
  <2>2. At(j, "prove") => dirs[j].response = Absent
    BY DEF At, KeepInv, FreshProof
  <2>3. /\ DOMAIN disk = DOMAIN dirs
        /\ \A k \in DOMAIN dirs :
              /\ disk[k].prepared = dirs[k].prepared
              /\ disk[k].job \in {dirs[k].job, NoJob}
              /\ dirs[k].response # Absent => disk[k].response = dirs[k].response
    BY <1>1, <2>1, <2>2 DEF Dir
  <2>. QED
    BY <2>1, <2>3, RestartKept
<1>. QED
  BY <1>2, <1>3 DEF AnyCrash

LEMMA WebKept == ASSUME KeepInv, WebNext PROVE Kept
<1>1. ASSUME NEW j \in JobIds, Run(j) PROVE Kept
  BY <1>1, ProveKept, ExchangeKept, EndRunKept DEF Run
<1>. QED
  BY <1>1, StartKept, PrepareKept, FinalizeKept, ResumeKept, CrashKept DEF WebNext

LEMMA KeepStep == KeepInv /\ [WebNext]_webVars => KeepInv'
<1>1. ASSUME KeepInv, UNCHANGED webVars PROVE Mirrored' /\ FreshProof'
  BY <1>1 DEF KeepInv, Mirrored, FreshProof, webVars, memory
<1>. QED
  BY <1>1, WebStep, WebKept DEF KeepInv, Kept

LEMMA KeepInit == WebInit => KeepInv
BY InitInv DEF KeepInv, WebInit, Mirrored, FreshProof

LEMMA KeepInvariant == WebSpec => []KeepInv
BY KeepInit, KeepStep, PTL DEF WebSpec

(***************************************************************************)
(* "So a job survives a server restart": over any number of steps and      *)
(* crashes no job is forgotten, put back or, once it is over, changed.     *)
(***************************************************************************)
THEOREM EveryJobSurvives == WebSpec => JobsSurvive
<1>1. KeepInv /\ [WebNext]_webVars => [JobsKept]_webVars
  BY WebKept DEF Kept
<1>. QED
  BY <1>1, KeepInvariant, PTL DEF WebSpec, JobsSurvive, JobsKept

(***************************************************************************)
(* A proof is computed once: with response.json there, no step runs the    *)
(* prover for that job again or replaces the answer.                       *)
(***************************************************************************)
THEOREM ProvesOnce == WebSpec => ProvedOnce
<1>1. KeepInv /\ [WebNext]_webVars => [ProofKept]_webVars
  BY WebKept DEF Kept
<1>. QED
  BY <1>1, KeepInvariant, PTL DEF WebSpec, ProvedOnce, ProofKept

=============================================================================
