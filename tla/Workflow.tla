------------------------------- MODULE Workflow -------------------------------
(***************************************************************************)
(* The pipeline of one project: internal/workflow/workflow.go drives it    *)
(* through its statuses, internal/handlers/handlers.go runs its jobs with  *)
(* the services of internal/{scripts,scenes,voice,images,subtitles,render},*)
(* and API requests create, approve, reject and retry the project.         *)
(*                                                                         *)
(* Workers and API requests interleave at every call to the database and   *)
(* to the queue.  The queue is taken at its word: each job is a record     *)
(* that lives as JobLifecycle says, and ids are delivered oldest first.    *)
(* RedisQueue looks into the queue itself.                                 *)
(***************************************************************************)
EXTENDS Naturals, Sequences, FiniteSets

CONSTANTS Workers,        \* goroutines of the worker process
          Clients,        \* concurrent API requests
          NumScenes,      \* scenes the script is broken into
          MaxAttempts,    \* models.Job.MaxAttempts
          MaxJobs,        \* bound: rows of table jobs
          MaxRetries,     \* bound: calls of RetryProject, at most one: what
                          \* concurrent retries do to the queue is RedisQueue's
          Faults          \* what may fail, a subset of FaultKinds

\* "generate": a generation service, "database": a call to the database or to
\* the queue, "noScenes": the scene generator finds no scene in the script.
FaultKinds == {"generate", "database", "noScenes"}

ASSUME WorkflowAssumption ==
    /\ Workers \cap Clients = {}
    /\ NumScenes \in Nat \ {0}
    /\ MaxAttempts \in Nat \ {0}
    /\ MaxJobs \in Nat
    /\ MaxRetries \in {0, 1}
    /\ Faults \subseteq FaultKinds

VARIABLES status,   \* projects.status, "NONE" before the project is created
          rows,     \* rows[k]: rows of the artifact a job of kind k makes
          jobs,     \* the table jobs, in creation order; the index is the id
          pending,  \* ids waiting in the queue, oldest first
          pc,       \* pc[w]: where worker w is
          cur,      \* cur[w]: the job w runs, 0 if none
          audios,   \* audios[w]: the audio count CheckAssetCompletion read
          prog,     \* prog[p]: calls that process p has still to make
          retries   \* calls of RetryProject so far

vars == <<status, rows, jobs, pending, pc, cur, audios, prog, retries>>

-----------------------------------------------------------------------------
Procs == Workers \cup Clients
Scenes == 1..NumScenes

\* A kind of job with the scene it is for; scene 0 stands for the project.
OfProject(type) == [type |-> type, scene |-> 0]
Voice(s) == [type |-> "VOICE", scene |-> s]
Image(s) == [type |-> "IMAGE", scene |-> s]
Kinds ==
    {OfProject(t) : t \in {"SCRIPT", "SCENES", "SUBTITLE", "RENDER", "REVIEW"}}
        \cup {Voice(s) : s \in Scenes} \cup {Image(s) : s \in Scenes}

AssetTypes == {"VOICE", "IMAGE"}

Statuses ==
    {"NONE", "CREATED", "SCRIPT_GENERATING", "SCRIPT_READY", "SCENES_GENERATING",
     "SCENES_READY", "VOICE_GENERATING", "ASSETS_READY", "SUBTITLES_GENERATING",
     "SUBTITLES_READY", "RENDERING", "RENDER_READY", "IN_REVIEW", "APPROVED",
     "REJECTED", "FAILED"}

Exists(k) == rows[k] > 0
SceneList == IF Exists(OfProject("SCENES")) THEN Scenes ELSE {}

-----------------------------------------------------------------------------
(* Calls a workflow function makes one after the other.                    *)

SetStatus(s)  == [call |-> "status",  status |-> s]
Enqueue(k)    == [call |-> "enqueue", kind |-> k]
SaveScript    == [call |-> "script"]
Requeue(i)    == [call |-> "requeue", id |-> i]
Push(i)       == [call |-> "push", id |-> i]
Restore(type) == [call |-> "restore", type |-> type]

\* EnqueueScriptGeneration, EnqueueSceneGeneration, EnqueueSubtitleGeneration
\* and EnqueueRender: the job first, then the status.
EnqueueThenStatus(type, s) == <<Enqueue(OfProject(type)), SetStatus(s)>>

\* OnScenesGenerated enqueues the voice and the image job of each scene.
AssetJobs(list) ==
    [i \in 1..(2 * Cardinality(list)) |->
        Enqueue(IF i % 2 = 1 THEN Voice((i + 1) \div 2) ELSE Image(i \div 2))]

OnScriptGenerated ==
    <<SetStatus("SCRIPT_READY")>> \o EnqueueThenStatus("SCENES", "SCENES_GENERATING")
OnScenesGenerated(list) ==
    <<SetStatus("SCENES_READY")>> \o AssetJobs(list) \o <<SetStatus("VOICE_GENERATING")>>
OnAssetsComplete ==
    <<SetStatus("ASSETS_READY")>> \o EnqueueThenStatus("SUBTITLE", "SUBTITLES_GENERATING")
OnSubtitlesGenerated ==
    <<SetStatus("SUBTITLES_READY")>> \o EnqueueThenStatus("RENDER", "RENDERING")
OnRenderComplete ==
    <<SetStatus("RENDER_READY"), Enqueue(OfProject("REVIEW"))>>
OnReviewPackageReady == <<SetStatus("IN_REVIEW")>>

\* What the handler of a job calls once the artifact is there.
Callback(type, list) ==
    CASE type = "SCRIPT"   -> OnScriptGenerated
      [] type = "SCENES"   -> OnScenesGenerated(list)
      [] type = "SUBTITLE" -> OnSubtitlesGenerated
      [] type = "RENDER"   -> OnRenderComplete
      [] type = "REVIEW"   -> OnReviewPackageReady

\* RetryProject: the status that fits the first failed job.
StatusForRetry(type) ==
    CASE type = "SCRIPT"      -> "SCRIPT_GENERATING"
      [] type = "SCENES"      -> "SCENES_GENERATING"
      [] type \in AssetTypes  -> "VOICE_GENERATING"
      [] type = "SUBTITLE"    -> "SUBTITLES_GENERATING"
      [] type = "RENDER"      -> "RENDERING"
      [] OTHER                -> "CREATED"

-----------------------------------------------------------------------------
Init ==
    /\ status = "NONE"
    /\ rows = [k \in Kinds |-> 0]
    /\ jobs = <<>>
    /\ pending = <<>>
    /\ pc = [w \in Workers |-> "idle"]
    /\ cur = [w \in Workers |-> 0]
    /\ audios = [w \in Workers |-> 0]
    /\ prog = [p \in Procs |-> <<>>]
    /\ retries = 0

\* One call of a process.
NewJob(k) == [kind |-> k, status |-> "QUEUED", attempts |-> 0]

\* Mutant of DoSetStatus: nothing is written over FAILED.
WrongDoSetStatus(op) ==
    /\ op.call = "status"
    /\ status' = IF status = "FAILED" THEN status ELSE op.status
    /\ UNCHANGED <<rows, jobs, pending>>

DoSetStatus(op) ==
    /\ op.call = "status"
    /\ status' = op.status
    /\ UNCHANGED <<rows, jobs, pending>>

\* jobRepo.Create: the row of a job, before its id is in the queue.
DoCreateJob(op) ==
    /\ op.call = "enqueue"
    /\ Len(jobs) < MaxJobs
    /\ jobs' = Append(jobs, NewJob(op.kind))
    /\ UNCHANGED <<status, rows, pending>>

\* RetryProject: jobRepo.Update of a failed job.
DoResetJob(op) ==
    /\ op.call = "requeue"
    /\ jobs' = [jobs EXCEPT ![op.id] = NewJob(@.kind)]
    /\ UNCHANGED <<status, rows, pending>>

\* queue.Enqueue.
DoPush(op) ==
    /\ op.call = "push"
    /\ pending' = Append(pending, op.id)
    /\ UNCHANGED <<status, rows, jobs>>

DoSaveScript(op) ==
    /\ op.call = "script"
    /\ rows' = [rows EXCEPT ![OfProject("SCRIPT")] = @ + 1]
    /\ UNCHANGED <<status, jobs, pending>>

\* RetryProject: GetByID, which only reads.
DoReadProject(op) ==
    /\ op.call = "restore"
    /\ UNCHANGED <<status, rows, jobs, pending>>

\* The call that comes right after: the id of a row that was written is pushed,
\* a project that was read as FAILED gets another status.
FollowedBy(op) ==
    CASE op.call = "enqueue" -> <<Push(Len(jobs) + 1)>>
      [] op.call = "requeue" -> <<Push(op.id)>>
      [] op.call = "restore" /\ status = "FAILED" -> <<SetStatus(StatusForRetry(op.type))>>
      [] OTHER -> <<>>

Perform(op) ==
    \/ DoSetStatus(op) \/ DoCreateJob(op) \/ DoResetJob(op) \/ DoPush(op)
    \/ DoSaveScript(op) \/ DoReadProject(op)

\* What is left to do after the next call of process p, and that call.
Rest(p) == FollowedBy(Head(prog[p])) \o Tail(prog[p])

NextCall(p) ==
    /\ prog[p] # <<>>
    /\ Perform(Head(prog[p]))
    /\ prog' = [prog EXCEPT ![p] = Rest(p)]

-----------------------------------------------------------------------------
(* API requests.                                                           *)

Request(c, calls) ==
    /\ prog[c] = <<>>
    /\ prog' = [prog EXCEPT ![c] = calls]
    /\ UNCHANGED <<rows, jobs, pending, pc, cur, audios>>

\* CreateProject from a topic, or from a script of the user's.
CreateProject(c) ==
    /\ status = "NONE"
    /\ status' = "CREATED"
    /\ \/ Request(c, EnqueueThenStatus("SCRIPT", "SCRIPT_GENERATING"))
       \/ Request(c, <<SaveScript>> \o OnScriptGenerated)
    /\ UNCHANGED retries

\* Mutant of Reviewable: a project may be decided as soon as it exists.
WrongReviewableEarly == status \notin {"NONE", "FAILED"}

\* ApproveProject and RejectProject look at the status, then write it.  Nothing
\* makes a project REVIEW_PACKAGED.
Reviewable == status \in {"IN_REVIEW", "REVIEW_PACKAGED"}

Approve(c) ==
    /\ Reviewable
    /\ Request(c, <<SetStatus("APPROVED")>>)
    /\ UNCHANGED <<status, retries>>

Reject(c) ==
    /\ Reviewable
    /\ Request(c, <<SetStatus("REJECTED")>>)
    /\ UNCHANGED <<status, retries>>

\* RetryProject: GetFailedJobs in creation order, each enqueued again, then
\* the status.
FailedJobs == {i \in 1..Len(jobs) : jobs[i].status = "FAILED"}

InCreationOrder(ids) ==
    {q \in [1..Cardinality(ids) -> ids] :
        \A i, k \in 1..Cardinality(ids) : i < k => q[i] < q[k]}

RetryProject(c) ==
    /\ retries < MaxRetries
    /\ FailedJobs # {}
    /\ \E failed \in InCreationOrder(FailedJobs) :
         Request(c, [i \in 1..Cardinality(FailedJobs) |-> Requeue(failed[i])]
                       \o <<Restore(jobs[failed[1]].kind.type)>>)
    /\ retries' = retries + 1
    /\ UNCHANGED status

ClientCall(c) ==
    /\ NextCall(c)
    /\ UNCHANGED <<pc, cur, audios, retries>>

\* A call returns an error, or the request is cancelled: the rest is not done,
\* also the push of a job whose row was written.
ClientError(c) ==
    /\ "database" \in Faults
    /\ prog[c] # <<>>
    /\ prog' = [prog EXCEPT ![c] = <<>>]
    /\ UNCHANGED <<status, rows, jobs, pending, pc, cur, audios, retries>>

-----------------------------------------------------------------------------
(* Workers: the goroutines of the worker process.                          *)

Goto(w, step) == pc' = [pc EXCEPT ![w] = step]
KindOf(w) == jobs[cur[w]].kind

\* The queue delivers the oldest job.
Take(w) ==
    /\ pc[w] = "idle"
    /\ pending # <<>>
    /\ cur' = [cur EXCEPT ![w] = Head(pending)]
    /\ pending' = Tail(pending)
    /\ jobs' = [jobs EXCEPT ![Head(pending)].status = "RUNNING",
                            ![Head(pending)].attempts = @ + 1]
    /\ Goto(w, "inputs")
    /\ UNCHANGED <<status, rows, audios, prog, retries>>

\* What a handler reads and returns an error without: the script for
\* SCENES, the audio and the image of each scene for RENDER.
InputsOf(type) ==
    CASE type = "SCENES" -> {OfProject("SCRIPT")}
      [] type = "RENDER" -> {Voice(s) : s \in SceneList} \cup {Image(s) : s \in SceneList}
      [] OTHER           -> {}

HasInputs(w) == \A k \in InputsOf(KindOf(w).type) : Exists(k)

ReadInputs(w) ==
    /\ pc[w] = "inputs"
    /\ \/ ~HasInputs(w) /\ Goto(w, "error")
       \/ /\ HasInputs(w)
          /\ KindOf(w).type = "RENDER" => Exists(OfProject("SUBTITLE"))
          /\ Goto(w, "check")
    /\ UNCHANGED <<status, rows, jobs, pending, cur, audios, prog, retries>>

\* HandleRender dereferences the subtitle it looked up, which is nil if there
\* is none and also if the query failed.  The panic ends the worker process
\* with all its goroutines; it is started again and has forgotten their jobs.
Panic(w) ==
    /\ pc[w] = "inputs"
    /\ KindOf(w).type = "RENDER"
    /\ HasInputs(w)
    /\ ~Exists(OfProject("SUBTITLE")) \/ "database" \in Faults
    /\ pc' = [v \in Workers |-> "idle"]
    /\ cur' = [v \in Workers |-> 0]
    /\ audios' = [v \in Workers |-> 0]
    /\ prog' = [p \in Procs |-> IF p \in Workers THEN <<>> ELSE prog[p]]
    /\ UNCHANGED <<status, rows, jobs, pending, retries>>

\* From here the artifact of the job exists: an asset counts towards the
\* completion of the project, any other calls the workflow back.  Scenes are
\* never removed, so the list the callback reads is the one of this moment.
Proceed(w) ==
    IF KindOf(w).type \in AssetTypes
    THEN Goto(w, "audios") /\ UNCHANGED prog
    ELSE /\ Goto(w, "calls")
         /\ prog' = [prog EXCEPT ![w] = Callback(KindOf(w).type, SceneList')]

\* Mutant of Reuses: the services do not look for an artifact.
WrongReusesNothing(k) == k.type = "REVIEW"

\* The services return the artifact if there is one; RENDER and REVIEW do not
\* look, and REVIEW makes none.
Reuses(k) == k.type = "REVIEW" \/ (k.type # "RENDER" /\ Exists(k))

CheckExisting(w) ==
    /\ pc[w] = "check"
    /\ UNCHANGED <<status, rows, jobs, pending, cur, audios, retries>>
    /\ IF Reuses(KindOf(w)) THEN Proceed(w) ELSE Goto(w, "generate") /\ UNCHANGED prog

\* The lookup of subtitles takes any error for "there are none".
MissSubtitle(w) ==
    /\ "database" \in Faults
    /\ pc[w] = "check"
    /\ KindOf(w).type = "SUBTITLE"
    /\ Goto(w, "generate")
    /\ UNCHANGED <<status, rows, jobs, pending, cur, audios, prog, retries>>

\* Only scenes are unique, by project and number.
Conflicts(k) == k.type = "SCENES" /\ Exists(k)

Generate(w) ==
    /\ pc[w] = "generate"
    /\ ~Conflicts(KindOf(w))
    /\ rows' = [rows EXCEPT ![KindOf(w)] = @ + 1]
    /\ Proceed(w)
    /\ UNCHANGED <<status, jobs, pending, cur, audios, retries>>

\* CreateBatch of an empty list succeeds.
GenerateNoScenes(w) ==
    /\ "noScenes" \in Faults
    /\ pc[w] = "generate"
    /\ KindOf(w).type = "SCENES"
    /\ UNCHANGED rows
    /\ Proceed(w)
    /\ UNCHANGED <<status, jobs, pending, cur, audios, retries>>

\* A service returns an error: its check, the generation or the insert failed.
ServiceFails(w) ==
    \/ pc[w] = "generate" /\ ("generate" \in Faults \/ Conflicts(KindOf(w)))
    \/ /\ pc[w] = "check"
       /\ "database" \in Faults
       /\ KindOf(w).type \notin {"SUBTITLE", "RENDER", "REVIEW"}

\* The handlers of all but assets mark the project failed before they return
\* the error, whether or not the job will be tried again; an error of that
\* write is ignored.
MarksFailed(type) == type \notin AssetTypes

GenerateError(w) ==
    /\ ServiceFails(w)
    /\ \/ MarksFailed(KindOf(w).type) /\ status' = "FAILED"
       \/ ~MarksFailed(KindOf(w).type) /\ UNCHANGED status
       \/ "database" \in Faults /\ UNCHANGED status
    /\ Goto(w, "error")
    /\ UNCHANGED <<rows, jobs, pending, cur, audios, prog, retries>>

\* CheckAssetCompletion reads the two counts one after the other.
CountRows(kinds) == Cardinality(UNION {{k} \X (1..rows[k]) : k \in kinds})

CountAudios(w) ==
    /\ pc[w] = "audios"
    /\ audios' = [audios EXCEPT ![w] = CountRows({Voice(s) : s \in Scenes})]
    /\ Goto(w, "images")
    /\ UNCHANGED <<status, rows, jobs, pending, cur, prog, retries>>

\* Mutants of AllAssets: one kind of asset is enough, the last one is missed.
WrongAllAssetsEither(w) ==
    \/ audios[w] >= Cardinality(SceneList)
    \/ CountRows({Image(s) : s \in Scenes}) >= Cardinality(SceneList)

WrongAllAssetsMore(w) ==
    /\ audios[w] > Cardinality(SceneList)
    /\ CountRows({Image(s) : s \in Scenes}) > Cardinality(SceneList)

AllAssets(w) ==
    /\ audios[w] >= Cardinality(SceneList)
    /\ CountRows({Image(s) : s \in Scenes}) >= Cardinality(SceneList)

CountImages(w) ==
    /\ pc[w] = "images"
    /\ audios' = [audios EXCEPT ![w] = 0]
    /\ \/ /\ AllAssets(w)
          /\ Goto(w, "calls")
          /\ prog' = [prog EXCEPT ![w] = OnAssetsComplete]
       \/ /\ ~AllAssets(w)
          /\ Goto(w, "done")
          /\ UNCHANGED prog
    /\ UNCHANGED <<status, rows, jobs, pending, cur, retries>>

WorkerCall(w) ==
    /\ pc[w] = "calls"
    /\ NextCall(w)
    /\ Goto(w, IF Rest(w) = <<>> THEN "done" ELSE "calls")
    /\ UNCHANGED <<cur, audios, retries>>

\* A call to the database or the queue fails: the handler returns the error.
WorkerError(w) ==
    /\ "database" \in Faults
    /\ \/ pc[w] = "inputs" /\ KindOf(w).type \notin {"SCRIPT", "REVIEW"}
       \/ pc[w] \in {"audios", "images", "calls"}
    /\ prog' = [prog EXCEPT ![w] = <<>>]
    /\ audios' = [audios EXCEPT ![w] = 0]
    /\ Goto(w, "error")
    /\ UNCHANGED <<status, rows, jobs, pending, cur, retries>>

\* Mutant of Release: the worker keeps its job.
WrongReleaseKeepsJob(w, next) == Goto(w, next) /\ UNCHANGED cur

Release(w, next) ==
    /\ Goto(w, next)
    /\ cur' = [cur EXCEPT ![w] = 0]

Complete(w) ==
    /\ pc[w] = "done"
    /\ jobs' = [jobs EXCEPT ![cur[w]].status = "SUCCEEDED"]
    /\ Release(w, "idle")
    /\ UNCHANGED <<status, rows, pending, audios, prog, retries>>

FailAndRetry(w) ==
    /\ pc[w] = "error"
    /\ jobs[cur[w]].attempts < MaxAttempts
    /\ jobs' = [jobs EXCEPT ![cur[w]].status = "QUEUED"]
    /\ pending' = Append(pending, cur[w])
    /\ Release(w, "idle")
    /\ UNCHANGED <<status, rows, audios, prog, retries>>

FailForGood(w) ==
    /\ pc[w] = "error"
    /\ jobs[cur[w]].attempts >= MaxAttempts
    /\ jobs' = [jobs EXCEPT ![cur[w]].status = "FAILED"]
    /\ Release(w, "failed")
    /\ UNCHANGED <<status, rows, pending, audios, prog, retries>>

\* The permanent failure callback of cmd/worker: MarkProjectFailed, whose
\* error is only logged.
FailProject(w) ==
    /\ pc[w] = "failed"
    /\ \/ status' = "FAILED"
       \/ "database" \in Faults /\ UNCHANGED status
    /\ Goto(w, "idle")
    /\ UNCHANGED <<rows, jobs, pending, cur, audios, prog, retries>>

-----------------------------------------------------------------------------
WorkerStep(w) ==
    \/ Take(w) \/ ReadInputs(w) \/ Panic(w) \/ CheckExisting(w) \/ MissSubtitle(w)
    \/ Generate(w) \/ GenerateNoScenes(w) \/ GenerateError(w)
    \/ CountAudios(w) \/ CountImages(w) \/ WorkerCall(w) \/ WorkerError(w)
    \/ Complete(w) \/ FailAndRetry(w) \/ FailForGood(w) \/ FailProject(w)

ClientStep(c) == ClientCall(c) \/ ClientError(c)

Next ==
    \/ \E w \in Workers : WorkerStep(w)
    \/ \E c \in Clients : \/ CreateProject(c) \/ Approve(c) \/ Reject(c)
                          \/ RetryProject(c) \/ ClientStep(c)

Spec == Init /\ [][Next]_vars

\* Workers keep working and started requests end; nobody has to make one.
FairSpec ==
    /\ Spec
    /\ \A w \in Workers : WF_vars(WorkerStep(w))
    /\ \A c \in Clients : WF_vars(ClientStep(c))

-----------------------------------------------------------------------------
(* Properties.                                                             *)

Call ==
    [call : {"status"}, status : Statuses] \cup [call : {"enqueue"}, kind : Kinds]
        \cup {SaveScript} \cup [call : {"requeue", "push"}, id : 1..Len(jobs)]
        \cup {Restore(k.type) : k \in Kinds}
WorkerPc == {"idle", "inputs", "check", "generate", "audios", "images", "calls",
             "done", "error", "failed"}
JobRecord == [kind : Kinds, status : {"QUEUED", "RUNNING", "SUCCEEDED", "FAILED"},
              attempts : 0..MaxAttempts]

\* Every variable holds what its comment says; a worker has a job, and calls to
\* make, exactly at the steps that need them.
TypeOK ==
    /\ status \in Statuses
    /\ rows \in [Kinds -> Nat]
    /\ jobs \in Seq(JobRecord) /\ Len(jobs) <= MaxJobs
    /\ pending \in Seq(1..Len(jobs))
    /\ pc \in [Workers -> WorkerPc]
    /\ cur \in [Workers -> 0..Len(jobs)]
    /\ audios \in [Workers -> Nat]
    /\ prog \in [Procs -> Seq(Call)]
    /\ retries \in 0..MaxRetries
    /\ \A w \in Workers : /\ cur[w] = 0 <=> pc[w] \in {"idle", "failed"}
                          /\ prog[w] # <<>> <=> pc[w] = "calls"

HasJob(type) == \E i \in 1..Len(jobs) : jobs[i].kind.type = type

AssetsExist == \A s \in Scenes : Exists(Voice(s)) /\ Exists(Image(s))

\* No stage is enqueued before the artifacts its handler reads exist, however
\* the jobs of the stage before it interleave.  HandleRender in particular
\* dereferences the subtitle row without asking whether it is there.
StagesInOrder ==
    /\ HasJob("SCENES") => Exists(OfProject("SCRIPT"))
    /\ HasJob("VOICE") \/ HasJob("IMAGE") \/ HasJob("SUBTITLE") => Exists(OfProject("SCENES"))
    /\ HasJob("RENDER") => Exists(OfProject("SUBTITLE"))
    /\ HasJob("REVIEW") => Exists(OfProject("RENDER"))

StagePrerequisites == StagesInOrder /\ (HasJob("SUBTITLE") => AssetsExist)

JobsOf(type) == {i \in 1..Len(jobs) : jobs[i].kind.type = type}

\* Only workers that count the last assets at the same time enqueue a stage
\* twice, so a stage has at most one job for each worker.  It does happen with
\* two, although SPECIFICATIONS.md:689 says that the completion check "prevents
\* race conditions when voice/image jobs complete out of order".
StageJobsBounded ==
    \A type \in {"SUBTITLE", "RENDER", "REVIEW"} :
        Cardinality(JobsOf(type)) <= Cardinality(Workers)

\* A scene has one audio and one image (SPECIFICATIONS.md:163, "One audio file
\* per scene", :187, "One image asset per scene") and a project one script,
\* although a job may run again after its artifact was stored.
OneArtifact ==
    \A k \in {OfProject("SCRIPT")} \cup {Voice(s) : s \in Scenes}
                \cup {Image(s) : s \in Scenes} : rows[k] <= 1

Decided == {"APPROVED", "REJECTED"}

\* What a reviewer approves or rejects has been rendered.
OnlyRenderedIsDecided == status \in Decided => Exists(OfProject("RENDER"))

AllQuiet ==
    /\ \A w \in Workers : pc[w] = "idle"
    /\ \A p \in Procs : prog[p] = <<>>

Reviewed == \E i \in JobsOf("REVIEW") : jobs[i].status = "SUCCEEDED"

\* Once the review package is made and everyone is done, the project waits for
\* its reviewer (project.md:36, "Package is marked for human
\* approval/rejection").
FinishedIsInReview ==
    AllQuiet /\ Reviewed => status \in {"IN_REVIEW"} \cup Decided

\* Whichever asset comes last, its job notices: with no one at work and
\* nothing queued, a project whose scenes all have their assets has gone on to
\* its subtitles (project.md:33, "When all assets ready, proceeds to
\* subtitles").
ReadyAssetsProceed ==
    /\ AllQuiet /\ pending = <<>>
    /\ \E i \in JobsOf("SCENES") : jobs[i].status = "SUCCEEDED"
    /\ \A s \in SceneList : Exists(Voice(s)) /\ Exists(Image(s))
    => HasJob("SUBTITLE")

\* A job that will not run again: it failed for good, or was running in a process
\* that ended.  With everyone done and an empty queue, so is a job that is QUEUED
\* in the table: the call that should have pushed its id was never made.
GivenUp == \E i \in 1..Len(jobs) : jobs[i].status \in {"FAILED", "RUNNING"}
Lost == \E i \in 1..Len(jobs) : jobs[i].status = "QUEUED"

\* A project is not left FAILED by an attempt that was repeated: the handlers
\* write FAILED at every failed attempt, and whatever succeeds later writes
\* over it.  Before anybody retries it, that is: a retry that is cut off between
\* a job's row and its push leaves FAILED a project without a failed job.
FailedHasReason ==
    AllQuiet /\ pending = <<>> /\ status = "FAILED" /\ retries = 0 => GivenUp

\* A project whose jobs all succeeded has been reviewed, unless its creation was
\* cut off before there was a job, or its script had no scenes: then
\* OnScenesGenerated enqueues nothing, and no status tells.  No callback that is
\* cut off half way, between two jobs or between the row of a job and its push,
\* lets the job it belongs to succeed.
StopsForAReason ==
    AllQuiet /\ pending = <<>> /\ status # "NONE" /\ ~Reviewed =>
        \/ GivenUp \/ Lost
        \/ jobs = <<>>
        \/ HasJob("SCENES") /\ SceneList = {}

\* A created project reaches its reviewer or fails.
PipelineFinishes ==
    status = "CREATED" ~> \/ Reviewed
                          \/ \E i \in 1..Len(jobs) : jobs[i].status = "FAILED"
=============================================================================
