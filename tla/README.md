# Verification of the YouTube video automation

TLA+ models of the program in `src/`: a Go API server and Go worker processes
that turn a topic or a script into a reviewed video, job by job, with Redis,
Postgres and external AI services.  The models are checked with TLC on small
instances and, where said so, proved with TLAPS for every instance.

    tlc -workers 2 -config RedisQueue_exclusion.cfg MCRedisQueue
    tlapm RedisQueueProofs.tla

`PROJECT.json` maps every definition to the lines it models and lists the
components, runs, mutants, findings, hazards and theorems.

## The system

| Component | State | Operations | Who uses it |
|---|---|---|---|
| Redis queue, `internal/jobs/redis_queue.go` | the list of ids, a record and a lock key per job | Enqueue, Dequeue, Complete, Fail, Start, Stop | API and workers of all processes |
| Memory queue, `internal/jobs/queue.go` | a slice of jobs under a mutex | the same | one process |
| Job rows, `internal/jobs/repository.go` | table `jobs` | Create, Update, GetFailedJobs | both queues (onJobStateChange), RetryProject |
| Workflow, `internal/workflow` | `projects.status` | CreateProject, On..., CheckAssetCompletion, ApproveProject, RejectProject, RetryProject, MarkProjectFailed | API, handlers |
| Handlers, `internal/handlers` | none | one function per job type | the queue calls them, they call services and workflow |
| Services, `internal/{scripts,scenes,voice,images,subtitles,render}` | their tables, files in storage | Generate: look for the artifact, make it, insert it | handlers |
| API, `internal/api`, `cmd/api` | none | one handler per route, 60 s timeout | the frontend |
| Worker process, `cmd/worker` | goroutines | start, shut down, permanent failure callback | operator |
| Providers, `internal/providers` | none | calls of OpenAI, Polly, mocks | services |
| Frontend, `frontend/src` | project ids, polled projects | create, poll, decide, retry | user |

A request or a handler changes rows and enqueues jobs in separate calls, with no
transaction around them; jobs run on any goroutine of any worker process.  So
what is hard here is order: two workers at one job, a row or a status written
after the job it speaks of has moved on, two workers counting the last asset, a
crash between two calls, a call that fails half way and is repeated, two requests
of reviewers at once.  `PROJECT.json` lists these hazards at their lines.

What makes each component correct:

- queue: one worker per job; no job lost, given up early or run too often;
  every job ends; Stop returns; the rows agree with Redis;
- workflow and handlers: no stage before its inputs; one artifact per scene and
  one job per stage; the last asset is never missed; only what was rendered is
  decided; FAILED and IN_REVIEW mean what they say;
- services: a repeated job finds the artifact of the first;
- subtitles: cues in order, with their audio, and no word left out;
- render: a video of its own files, its row and video together, no directory left
  behind unnoticed;
- frontend: no project forgotten, no project at work shown frozen.

## Modules

| Module | Models | Proofs | For TLC |
|---|---|---|---|
| `JobLifecycle` | what both queues promise of a job | | |
| `RedisQueue` | `jobs/redis_queue.go`, retrying clients, restarts | `RedisQueueProofs`, `RedisLifecycleProofs` | `MCRedisQueue` |
| `MemoryQueue` | `jobs/queue.go` | `MemoryQueueProofs` | `MCMemoryQueue` |
| `Workflow` | `workflow`, `handlers`, the Generate functions of the services, the requests of the API | `WorkflowProofs`, `PipelineProofs` | `MCWorkflow` |
| `Subtitles` | the lengths and speech marks of `providers/voice/polly`, the timeline of `subtitles/service.go` | `SubtitlesProofs` | `MCSubtitles` |
| `Render` | `render/service.go` | `RenderProofs` | `MCRender` |
| `Frontend` | `hooks.ts`, `storage.ts`, the pages that use them | `FrontendProofs` | `MCFrontend` |

**`JobLifecycle`** is the abstract specification of a job: QUEUED, RUNNING, at
most `MaxAttempts` times, then SUCCEEDED or FAILED, and only FAILED may be
retried.  Both queues are shown to implement it.

**`RedisQueue`**.  Every Redis command and every row write is one action,
because go-redis' `Pipeline` is no transaction.  `pc[w]` is the place of a
goroutine in Dequeue, processJob, Complete or Fail; `rec[w]` is the copy of the
record it holds.  Clients run RetryProject and the Enqueue functions.  Actions
named for faults (Crash, Stop, GetError, ...) happen at most `MaxDisruptions`
times, and only the kinds a run allows.  The lock key has no owner in the code;
the model remembers who set it, which only `LockHeld` looks at.  `runs` is a
history variable.  Payloads, times and log lines are left out; a handler just
returns, with or without an error.

**`MemoryQueue`**.  A method holds the mutex from its first to its last access,
so each is one step; handler and permanent failure callback run between steps.
The error of a row write is ignored, as in the code: `Failing` names the tables
whose writes may fail.  `Started` is FALSE in a process that makes a queue and
never starts it.

**`Workflow`**.  `prog[p]` are the calls process `p` has still to make, one per
step: a status, the row of a job, the push of its id.  The row of a new or retried
job and its push are two calls, and a failure or the end of a request between them
leaves a QUEUED row in no queue.  RetryProject reads the project in one call and
writes its status in the next.  An artifact is a number of rows.  The
queue delivers each id once and oldest first, and a job is settled in one step:
what can go wrong inside the queue is `RedisQueue`'s, and so are concurrent
retries (hence at most one RetryProject here).  `Faults` says which errors may
happen: `generate` (a service), `database` (any call of a callback or request),
`noScenes` (the generator returns an empty list).  The workers are goroutines
of one process, which a panic in HandleRender ends.

**`Subtitles`**.  First the voice job of each scene.  `Synthesize` is one attempt:
the length is that of the last speech mark plus half a second, or an estimate
where the marks could not be fetched; the marks go into a file (`stored`) whose key
is fixed for the scene; then the row is inserted, or that fails and there is another
attempt, which finds the file of the one before.  So a file may be whole, absent, torn,
or of another attempt than the row: `Timed(s)` says that the length of a scene is
that of the marks in its file.  Then the loops of generateSRTWithSpeechMarks over
scenes, marks and words, a step per turn.  A word is its start time and whether
punctuation ends it; times are tenths of a second.  Two voice jobs of one scene
side by side leave a file of one and a row of the other, which is the same outcome.

**`Render`**.  Several calls of Render for one project, in the directory named
after it.  A program truncates a file it opens, so ffmpeg is two steps.  A file
knows the renders it was made by, who has it open and whether it is torn.  The
removal at the end may fail half way, and its error is discarded.  `stored`,
`shared` and `left` are history variables.

**`Frontend`**.  A tab with one page mounted: the dashboard, the detail page or
the form.  `loading` belongs to the mounted form: who leaves it and comes back may
create another project meanwhile.  Requests overlap and their answers come in any
order; effects that React runs when a status changes are part of the step that changes it.  The
server is a status per project that moves on by itself.

How they fit together: `Workflow` relies on what `RedisQueue` and `MemoryQueue`
show of delivery; `StageJobsBounded` of `Workflow` says how many renders of a
project can overlap in `Render`; `Frontend` sees the statuses `Workflow` writes.
They are separate specifications, joined by these assumptions and not by
INSTANCE.

### Mutants

Definitions named `Wrong...` are one-line bugs of the definition that follows
them; no specification uses them.  Put in its place, each makes the property
listed under `mutants` fail: evidence that the property depends on the code.

## Runs

Passing runs:

| Run | Instance | What holds |
|---|---|---|
| `redis_exclusion` | 1 job, 2 worker processes, 2 clients, 2 retries, 2 disruptions of any kind but a lock that expires under its handler | `LockHeld`, `OneWorkerPerJob` |
| `redis_lifecycle` | 2 jobs, 2 worker processes, 1 client, 1 disruption (crash, stop, failed row write, aborted request, expired lock) | `NoEarlyGiveUp`, `RunsBounded`, `FailedRowIsSettled`, `ImplementsLifecycle` |
| `redis_one_worker` | 2 jobs, 1 worker, 1 client, a stop | `NoLostJob`, `EveryJobSettles`, `FailureReported`, `StopReturns` |
| `redis_two_workers` | 1 job, 2 workers, 2 clients, no disruption | `RunsEnd`, `LocksAreReleased` |
| `memory_worker` | 3 jobs, 2 attempts, failing writes of job and project rows, a stop | `OneAfterTheOther`, `SettledRowIsTrue`, `ImplementsLifecycle`, `EveryJobSettles`, `StopReturns` |
| `workflow_two_workers` | 2 scenes, 2 workers, failing services, 1 retry | `TypeOK`, `StagePrerequisites`, `StageJobsBounded`, `OnlyRenderedIsDecided`, `ReadyAssetsProceed`, `PipelineFinishes` |
| `workflow_database` | 1 scene, 1 worker, 1 client, 2 attempts, failing calls, rows without a push, empty lists, panics, no RetryProject | `OneArtifact`, `FailedHasReason`, `StopsForAReason` |
| `subtitles_timeline` | 2 scenes, 28 narrations of up to 3 words, 2 words per cue, marks or estimates, repeated voice jobs, mark files whole, absent, torn or of an earlier attempt | `CuesInOrder`, `ScenesDoNotOverlap`, `CuesWithTheirAudio`, `EveryWordShown`, `ChunksAreReadable` |
| `render_overlap` | 2 renders, 2 scenes, every kind of failure, also of the removal, crashes | `LoneDraftIsOwn`, `LoneRenderMissesNothing`, `RowHasVideo`, `NothingLeftBehind` |
| `frontend_tab` | 2 projects, 2 requests at a time, 1 error, 1 failure | `TypeOK`, `NoProjectForgotten`, `PageFollowsWork`, `ListFollowsWork` |

Runs that show the code disagree with what the repository says of it (each
checks one property; `findings` quotes the line):

| Run | What happens |
|---|---|
| `redis_lost_retry` | Fail pushes the id before it deletes the lock; another worker pops it, meets the lock, drops it: the retry is lost |
| `workflow_late_status` | a status written after Enqueue hides IN_REVIEW |

`NoLostJob` is in both tables: it holds for one worker and fails for two.  Other
passing properties depend on their instance as well, and the text of the
property or its hazard says so:

- `RunsBounded` and `ImplementsLifecycle` of `RedisQueue` hold for one client;
  two retries at once run a job more than `max_attempts` times.
- `OneArtifact` is checked with one worker: two that run a repeated voice job
  store two audios.
- No property says that a decision is final, because it is not: of two reviewers
  who both find IN_REVIEW the later one wins, and a status written late or by a
  repeated job comes after a decision as after IN_REVIEW.
- `StopsForAReason` names a job that was never pushed among the reasons: its
  creation, callback or retry was cut off between the row and the push.  Where
  RetryProject was cut off there, the job is no longer FAILED and a second
  RetryProject does not find it.  `workflow_database` has no RetryProject, so this
  case is the theorem's; `FailedHasReason` does not speak of retried projects.
- `ReadyAssetsProceed` and `PipelineFinishes` are checked where the generator
  returns scenes; `StopsForAReason` has the empty list among its reasons.
- `StageJobsBounded` bounds the jobs of a stage by the number of workers: two
  workers that count the last assets together enqueue the subtitles twice.
- After the first scene whose mark file is torn all cues are early by the length
  of that scene.  `CuesWithTheirAudio` says that this is the only reason for early
  cues, and that no cue is late.
- A scene that is not `Timed` may outlast its length: a voice job failed to insert its
  row, and its repetition got no marks and estimated a length beside the file of the first.
  `CuesInOrder`, `ScenesDoNotOverlap` and the end in `CuesWithTheirAudio` except
  the cues of such a scene; `EveryWordShown` and all starts do not.
- `NothingLeftBehind` excepts the directory of a last render that crashed or could
  not remove it; the next one whose removal succeeds takes it away.
- `LoneDraftIsOwn` and `LoneRenderMissesNothing` speak of renders that no other
  overlapped; an overlapped one may store a mixed or torn video.
- `NoProjectForgotten` excepts projects a request about which failed, and
  `PageFollowsWork` the ..._READY statuses, at which polling stops.

### Disagreements without a run

Found while modelling and described here only:

- With `QUEUE_BACKEND=memory` the API enqueues into a queue of its own that it
  never starts (`src/cmd/api/main.go:83`), and `cmd/worker` has another one.
- GetProject answers 404 for any error of the database
  (`src/internal/api/handlers.go:93`), and the dashboard forgets a project at any
  error (`src/frontend/src/hooks.ts:85`).
- A crash after BRPOP loses the job, whereas project.md:418 speaks of crash
  recovery from table `jobs`, which no process reads at its start.
- Two workers may enqueue the subtitles twice, whereas SPECIFICATIONS.md:689
  says that counting the assets prevents the race.
- Two cues of a scene may overlap, as a cue lasts 400 ms past the start of its
  last word, whereas SPECIFICATIONS.md:626 asks for a gap of 100 ms.
- The dashboard refreshes only while it shows a project at work, whereas
  docs/frontend-specs.md:279 asks for a refresh every 5 seconds; like the detail page
  it shows a ..._READY status until it is loaded again.
- A first request that fails is never repeated by the detail page; an answer
  that was under way at a Retry may bring FAILED back and stop its polling.

### Bounds

Two workers and two clients are enough for the races above, which are all between
two processes.  `MaxAttempts` is 2 where retries matter (a first, a middle and a
last attempt differ only in `attempts < MaxAttempts`) and 1 elsewhere; the program
uses 3.  `MaxRetries` is 2 for two clients and at most 1 for one, since a retry
starts a job afresh.  `MaxJobs` in `Workflow` is what the instance can enqueue
without `database` faults (2 jobs, 2 per scene, 3 stages for each worker:
`StagesBounded` proves that there are no more), so it cuts nothing off; with such
faults (`workflow_database`, 7 jobs) it cuts behaviours with still more
repetitions.  That run has 10 million states and takes the longest together with
`workflow_two_workers`, 2 million with liveness; every other is below 2 million.  The theorems have no bound.  Two scenes have a boundary between them,
and two words per cue let a narration of three fill a cue, leave a rest or break
at punctuation; gaps of 0.1 s and 0.6 s lie on both sides of the 400 ms of a cue.
Two renders suffice to overlap; three renders of one scene were checked once, with
the same result.  `Frontend` needs two requests for answers out of order, one error
to be forgiven, and a pipeline of three statuses, of which the proof takes any.
`redis_exclusion` treats the clients as symmetric, which is sound for its
invariants.  Deadlock is not checked: every instance stops once its work is done or
its bounds are used up.

### Fairness

`FairSpec` asks weak fairness of

- each worker and each request under way, in `RedisQueue` also of the restart
  of a stopped process: goroutines are scheduled by the Go runtime, BRPOP
  returns after 500 ms, calls to providers have timeouts of 120 s, requests end
  after 60 s, and the container restarts;
- in `MemoryQueue` the loop, whose ticker fires every 100 ms, and each enqueueing;
- in `Frontend` the timers, the server's answers, their delivery and each call
  of fetchAll: setInterval fires, and requests are answered or fail.

No fairness makes a user submit, decide or retry, a project move on, nor a
disruption happen; a handler may return an error every time.  `Subtitles` and
`Render` have no liveness property: their loops are over finite lists.

## Proofs

All theorems are for every value of the constants that the assumption of the
module allows.  Every invariant of a passing run has one; each module of proofs
says at the theorem which further assumption it makes, and below is why.
`TypeOK` of `RedisQueue`, `MemoryQueue`, `Subtitles` and `Render` is proved and
therefore in no run.

**`RedisQueueProofs`**.  `TypeCorrect`, one step per action.  `LockOwnership`
(`LockHeld`) assumes that no handler outlives its lock's five minutes.
`LockHeld` alone is not inductive: after `SettleDel` the worker goes to
`persist`, where it is locked only if its copy says RUNNING; `SettledCopy` (what
Complete and Fail write is never RUNNING) is the missing part.
`MutualExclusion` follows, since the key of a job names only one worker.
`NothingIsLost` (`NoLostJob`) is for one worker and any clients, when Redis
answers and no process or request is cut off.  Its invariant `LockInUse` says
that a lock held by nobody at work is impossible, so the only branch that drops
an id is never taken.

**`RedisLifecycleProofs`** assumes one client at a time and that Redis answers;
crashes, stops, failed row writes, aborted requests and expired locks, also
under a running handler, are allowed.  A job has at most one token: its id in
the queue, the worker carrying it, or the client about to push it; only who has
the token changes the record.  `LifeInv` states this of queue, records, copies,
rows and clients.  From it: `NeverGivenUpEarly`, `NeverRunTooOften`,
`RetryFindsSettledJobs` and `RefinesLifecycle`, each step of `RedisQueue` being a
step of `JobLifecycle` or none.

**`MemoryQueueProofs`**.  `IInv` adds to the properties that an id is in the
slice once, that the loop's job is the one RUNNING, and that a job that may run
has attempts left.  `TypeCorrect`, `Sequential`, `RowsAreTrue` and
`RefinesLifecycle`, without any assumption on failures.

**`SubtitlesProofs`**.  `Order` relates cues, chunks, words and the current time
in the middle of the loops.  The marks in a file end before the `Reach` of their
scene, also when the file is of another attempt; in a `Timed` scene `Reach` is
within its length (`AudioCovered`), and only then do its cues stay before the next
scene's; `ChunksReadable` says the same of the words of a
chunk.  `TypeCorrect`, `CuesAreInOrder`, `ScenesAreApart`, `CuesAreReadable`, and
`SrtTimeIsExact` of the time stamps.  `CuesKeepTime` rests on `OnTime`: the
running time is never more than the sum of the lengths so far, and is that sum up
to the first scene whose marks do not parse.  `EveryWordIsShown` rests on `WordsKept`: the words found so far are those
the filter returns for the marks read so far, and the chunks end to end are the
words grouped so far.  The sum, the filter and the concatenation are recursive
functions; that they have a value, and what they do with one element more, is
shown by induction over sets of numbers (`SetInduction`, `Recursion`,
`Flattening`), in which no operator is a parameter.

**`RenderProofs`**.  `LoneInv`: a file is open only in the ffmpeg of a render
that is at that step, and of a render nobody overlapped every file that it still
needs is whole and its own, whatever earlier renders left behind.  `LoneDrafts`
and `LoneRendersFindFiles` follow; `TypeCorrect`, `DirectoryIsRemoved` and
`RowsHaveVideos` need less.

**`WorkflowProofs`**.  `Ready` says of the tables, the workers and the programs
under way that each call still to be made has its prerequisites already.
`DecisionsAreOnRenders` (`OnlyRenderedIsDecided`) and `StagesInOrderAlways` follow;
the latter is `StagePrerequisites` without the counts of assets.

**`PipelineProofs`** builds on it.  `Delivery` says where each job is: a queued one
in the queue, once, a running one with at most one worker, and only a failed one
in a retry.  With the bounds it gives `WorkflowTypes`, and `Sound`, which the rest
uses.  Then:

- `StoppedForAReason` (`StopsForAReason`), for any workers, requests, faults and
  RetryProject.  `Flow` follows the
  pipeline: the project's first job is there, a job that is not over has enqueued
  its next stage or will, scenes have asset jobs or will, an artifact exists once
  its job is past it, and complete assets have a SUBTITLE job or somebody who will
  count them all.
- `AssetsAreNoticed` (`ReadyAssetsProceed`), from the same, where neither a call of
  the database nor the breakdown into scenes fails: with such an error the job
  that would notice may be given up.
- `FailureHasReason` (`FailedHasReason`), of projects nobody has retried: with two
  workers the job may be retried, and the pipeline end, before the permanent failure
  callback of its first run writes FAILED.
- `OneArtifactEach` (`OneArtifact`) and `PrerequisitesExist` (`StagePrerequisites`),
  for one worker or without errors of the database.  `Once` says that who is about
  to make an artifact found none and who counted all audios is right; it is
  inductive where no two workers have jobs of one kind.  With one worker that is
  plain.  Without errors it follows from `Unique`: a kind is named by one job or
  one call to come, never both, and only once the job before it called back.  Two
  workers and an error are enough to break it: OnScenesGenerated is repeated
  and two audio jobs of a scene run side by side.
- `StagesBounded` (`StageJobsBounded`), for finitely many workers and without
  errors of the database.  `Bounded` counts: the SUBTITLE jobs there are and the
  workers that may still enqueue one are at most as many as the workers, and a
  later stage has at most as many jobs as callbacks of the stage before it.

**`FrontendProofs`**.  `FrontendTypes` needs that ids are those of projects that
exist, also in answers under way, which outlive the page that asked.
`NothingIsForgotten`, for any projects, statuses and number of overlapping calls
of fetchAll and of creations under way.

Only model-checked: liveness (`EveryJobSettles`, `FailureReported`, `StopReturns`,
`RunsEnd`, `LocksAreReleased`, `PipelineFinishes`, `PageFollowsWork`,
`ListFollowsWork`), as the prover knows neither fairness nor ENABLED; and the two
properties that runs refute.

## Not modelled

- Providers other than Polly: external calls, which succeed, fail or return
  nothing; the real length of an audio is known to them only.
- Storage: `internal/storage` is not in the repository.  `Subtitles` and `Render`
  see whether a file is there, is not or is torn.
- Configuration, the database pool, logging: start-up values and text.
- Scene status, titles and review_required: stored, and nothing decides on them.
- MockRender, which HandleRender calls instead of Render when USE_MOCK_RENDER is set
  (`src/internal/handlers/handlers.go:331`; it is by default): it stores
  placeholder clips and the same draft, manifest and row, without a directory or
  ffmpeg.  `Workflow` holds for both, `Render` for a worker that really renders.
- Generate and GenerateWithAudioDurations of the subtitles with
  splitIntoSubtitleChunks: nothing calls them.
- useManifest, downloads and the layout of the views: they decide on nothing.

## Plan

`Pipeline`: `Workflow` over an instance of `RedisQueue` for one stage, so that
a late job meets a late status in one model.
