------------------------------ MODULE RedisQueue ------------------------------
(***************************************************************************)
(* The Redis job queue (internal/jobs/redis_queue.go) with the processes   *)
(* around it: worker goroutines that pop, lock, run and settle jobs, and   *)
(* clients (API requests) that submit jobs and retry the failed ones.      *)
(*                                                                         *)
(* Every command sent to Redis and every row written to Postgres is one    *)
(* atomic step.  go-redis' Pipeline() only batches commands, it is not     *)
(* MULTI/EXEC, so the commands of a pipeline are separate steps too and    *)
(* those of other connections may come between them.                       *)
(*                                                                         *)
(* LPUSH adds at the head of the Redis list and BRPOP takes from its tail; *)
(* here the list is written oldest first, so a push appends and a pop      *)
(* takes the first element.  All jobs belong to one project.               *)
(***************************************************************************)
EXTENDS Naturals, Sequences, FiniteSets

CONSTANTS Jobs,             \* job ids
          Workers,          \* worker goroutines of all worker processes
          Hosts,            \* worker processes
          HostOf,           \* HostOf[w]: the process goroutine w lives in
          Clients,          \* concurrent API requests
          NoJob,            \* a worker or client that holds no job
          Free,             \* the lock key of a job does not exist
          MaxAttempts,      \* models.Job.MaxAttempts (3 in CreateJob)
          MaxRetries,       \* bound: calls of RetryProject
          Disruptions,      \* the kinds of disruption that may happen
          MaxDisruptions    \* bound: disruptions in one behaviour

DisruptionKinds ==
    {"crash", "stop", "redis", "postgres", "client",
     "orphanLockExpires", "liveLockExpires", "dataExpires"}

ASSUME RedisQueueAssumption ==
    /\ HostOf \in [Workers -> Hosts]
    /\ NoJob \notin Jobs
    /\ Free \notin Workers
    /\ MaxAttempts \in Nat \ {0}
    /\ MaxRetries \in Nat
    /\ Disruptions \subseteq DisruptionKinds
    /\ MaxDisruptions \in Nat

VARIABLES
    queue,          \* the list jobs:queue, oldest id first
    data,           \* data[j]: the record under jobs:data:<j>
    lock,           \* lock[j]: who set jobs:lock:<j>, or Free
    db,             \* db[j]: status and attempt_count of the row of j in table jobs
    projectFailed,  \* projects.status = FAILED
    pc,             \* pc[w]: the next step of worker w
    job,            \* job[w]: the id worker w popped
    rec,            \* rec[w]: the copy of the job record in w's memory
    cpc,            \* cpc[c]: the next step of client c
    cjob,           \* cjob[c]: the job client c is enqueueing
    todo,           \* todo[c]: failed jobs RetryProject has still to enqueue
    stopping,       \* hosts whose queue was told to Stop
    runs,           \* history: handler calls for j since it was last enqueued
    retries,        \* calls of RetryProject so far
    disruptions     \* disruptions so far

redisVars  == <<queue, data, lock>>
workerVars == <<pc, job, rec>>
clientVars == <<cpc, cjob, todo>>
boundVars  == <<retries, disruptions>>
vars == <<queue, data, lock, db, projectFailed, pc, job, rec,
          cpc, cjob, todo, stopping, runs, retries, disruptions>>

-----------------------------------------------------------------------------
(* Records: the fields of models.Job the queue decides on.                 *)

Status == {"NONE", "QUEUED", "RUNNING", "SUCCEEDED", "FAILED"}
Record == [status : Status, attempts : Nat]
NoRecord == [status |-> "NONE", attempts |-> 0]

\* What CreateJob returns and what RetryProject resets a failed job to.
NewRecord == [status |-> "QUEUED", attempts |-> 0]

\* Definitions named Wrong... are mutations of the one that follows them; no
\* specification uses them (see README.md, "Mutants").

\* Dequeue: the record of a job whose lock was just taken.
WrongStartedUncounted(r) == [r EXCEPT !.status = "RUNNING"]
Started(r) == [status |-> "RUNNING", attempts |-> r.attempts + 1]

\* Fail: back to QUEUED while attempts remain, FAILED for good otherwise.
WrongFailedEarly(r) ==
    [r EXCEPT !.status = IF r.attempts + 1 < MaxAttempts THEN "QUEUED" ELSE "FAILED"]
WrongFailedLate(r) ==
    [r EXCEPT !.status = IF r.attempts <= MaxAttempts THEN "QUEUED" ELSE "FAILED"]
Failed(r) ==
    [r EXCEPT !.status = IF r.attempts < MaxAttempts THEN "QUEUED" ELSE "FAILED"]

WorkerPc == {"poll", "fetch", "lock", "mark", "persist", "run", "complete",
             "fail", "set", "push", "del", "callback", "stopped"}
ClientPc == {"idle", "reset", "set", "push", "persist", "project"}

-----------------------------------------------------------------------------
Init ==
    /\ queue = <<>>
    /\ data = [j \in Jobs |-> NoRecord]
    /\ lock = [j \in Jobs |-> Free]
    /\ db = [j \in Jobs |-> NoRecord]
    /\ projectFailed = FALSE
    /\ pc = [w \in Workers |-> "poll"]
    /\ job = [w \in Workers |-> NoJob]
    /\ rec = [w \in Workers |-> NoRecord]
    /\ cpc = [c \in Clients |-> "idle"]
    /\ cjob = [c \in Clients |-> NoJob]
    /\ todo = [c \in Clients |-> {}]
    /\ stopping = {}
    /\ runs = [j \in Jobs |-> 0]
    /\ retries = 0
    /\ disruptions = 0

-----------------------------------------------------------------------------
(* Clients: workflow.Enqueue* and workflow.RetryProject.                   *)

ClientGoto(c, step) == cpc' = [cpc EXCEPT ![c] = step]

\* jobRepo.Create of a fresh job, before queue.Enqueue.
Submit(c, j) ==
    /\ cpc[c] = "idle"
    /\ db[j] = NoRecord
    /\ db' = [db EXCEPT ![j] = NewRecord]
    /\ cjob' = [cjob EXCEPT ![c] = j]
    /\ ClientGoto(c, "set")
    /\ UNCHANGED <<redisVars, projectFailed, workerVars, todo, stopping, runs, boundVars>>

\* RetryProject reads the failed jobs of the project; none is an error.
Retryable == {j \in Jobs : db[j].status = "FAILED"}

Retry(c) ==
    /\ cpc[c] = "idle"
    /\ retries < MaxRetries
    /\ Retryable # {}
    /\ todo' = [todo EXCEPT ![c] = Retryable]
    /\ retries' = retries + 1
    /\ ClientGoto(c, "reset")
    /\ UNCHANGED <<redisVars, db, projectFailed, workerVars, cjob, stopping, runs, disruptions>>

\* ... then resets the row of each, in any order, and enqueues it again.
ResetRow(c) ==
    /\ cpc[c] = "reset"
    /\ \E j \in todo[c] :
         /\ db' = [db EXCEPT ![j] = NewRecord]
         /\ cjob' = [cjob EXCEPT ![c] = j]
         /\ todo' = [todo EXCEPT ![c] = @ \ {j}]
    /\ ClientGoto(c, "set")
    /\ UNCHANGED <<redisVars, projectFailed, workerVars, stopping, runs, boundVars>>

\* Enqueue: SET of the record, first command of the pipeline.
EnqueueSet(c) ==
    /\ cpc[c] = "set"
    /\ data' = [data EXCEPT ![cjob[c]] = NewRecord]
    /\ runs' = [runs EXCEPT ![cjob[c]] = 0]
    /\ ClientGoto(c, "push")
    /\ UNCHANGED <<queue, lock, db, projectFailed, workerVars, cjob, todo, stopping, boundVars>>

\* Enqueue: LPUSH of the id, second command of the pipeline.
EnqueuePush(c) ==
    /\ cpc[c] = "push"
    /\ queue' = Append(queue, cjob[c])
    /\ ClientGoto(c, "persist")
    /\ UNCHANGED <<data, lock, db, projectFailed, workerVars, cjob, todo, stopping, runs, boundVars>>

\* Enqueue: onJobStateChange writes the row, after the id became visible.
\* A retry goes on with its next job, or with the status of the project.
AfterEnqueue(c) ==
    /\ cjob' = [cjob EXCEPT ![c] = NoJob]
    /\ ClientGoto(c, IF todo[c] # {} THEN "reset" ELSE "project")

EnqueuePersist(c) ==
    /\ cpc[c] = "persist"
    /\ db' = [db EXCEPT ![cjob[c]] = NewRecord]
    /\ AfterEnqueue(c)
    /\ UNCHANGED <<redisVars, projectFailed, workerVars, todo, stopping, runs, boundVars>>

\* The status of the project is written after the jobs were enqueued.
ProjectStatus(c) ==
    /\ cpc[c] = "project"
    /\ projectFailed' = FALSE
    /\ ClientGoto(c, "idle")
    /\ UNCHANGED <<redisVars, db, workerVars, cjob, todo, stopping, runs, boundVars>>

-----------------------------------------------------------------------------
(* Workers: Dequeue, processJob, Complete and Fail.                        *)

Goto(w, step) == pc' = [pc EXCEPT ![w] = step]

\* Back to the top of the worker's loop, which first looks at stopCh.
WrongNextLoopNoStop(w) ==
    /\ Goto(w, "poll")
    /\ job' = [job EXCEPT ![w] = NoJob]
    /\ rec' = [rec EXCEPT ![w] = NoRecord]
NextLoop(w) ==
    /\ Goto(w, IF HostOf[w] \in stopping THEN "stopped" ELSE "poll")
    /\ job' = [job EXCEPT ![w] = NoJob]
    /\ rec' = [rec EXCEPT ![w] = NoRecord]

\* Dequeue: BRPOP delivers the oldest id ...
Pop(w) ==
    /\ pc[w] = "poll"
    /\ queue # <<>>
    /\ job' = [job EXCEPT ![w] = Head(queue)]
    /\ queue' = Tail(queue)
    /\ Goto(w, "fetch")
    /\ UNCHANGED <<data, lock, db, projectFailed, rec, clientVars, stopping, runs, boundVars>>

\* ... or times out, which only matters to a worker that is to stop.
PollTimeout(w) ==
    /\ pc[w] = "poll"
    /\ queue = <<>>
    /\ HostOf[w] \in stopping
    /\ NextLoop(w)
    /\ UNCHANGED <<redisVars, db, projectFailed, clientVars, stopping, runs, boundVars>>

\* Dequeue: GET of the record; without one the popped id is dropped.
Fetch(w) ==
    /\ pc[w] = "fetch"
    /\ \/ /\ data[job[w]] # NoRecord
          /\ rec' = [rec EXCEPT ![w] = data[job[w]]]
          /\ Goto(w, "lock")
          /\ UNCHANGED job
       \/ /\ data[job[w]] = NoRecord
          /\ NextLoop(w)
    /\ UNCHANGED <<redisVars, db, projectFailed, clientVars, stopping, runs, boundVars>>

\* Dequeue: SETNX of the lock key.
WrongLockIgnored(j) == TRUE
LockIsFree(j) == lock[j] = Free

AcquireLock(w) ==
    /\ pc[w] = "lock"
    /\ LockIsFree(job[w])
    /\ lock' = [lock EXCEPT ![job[w]] = w]
    /\ Goto(w, "mark")
    /\ UNCHANGED <<queue, data, db, projectFailed, job, rec, clientVars, stopping, runs, boundVars>>

\* Dequeue: the lock exists, the popped id is dropped.
SkipLocked(w) ==
    /\ pc[w] = "lock"
    /\ ~LockIsFree(job[w])
    /\ NextLoop(w)
    /\ UNCHANGED <<redisVars, db, projectFailed, clientVars, stopping, runs, boundVars>>

\* Dequeue: the record becomes RUNNING with one attempt more.
MarkRunning(w) ==
    /\ pc[w] = "mark"
    /\ rec' = [rec EXCEPT ![w] = Started(@)]
    /\ data' = [data EXCEPT ![job[w]] = rec'[w]]
    /\ Goto(w, "persist")
    /\ UNCHANGED <<queue, lock, db, projectFailed, job, clientVars, stopping, runs, boundVars>>

\* onJobStateChange, the last step of Dequeue, Complete and Fail; after the
\* FAILED one the permanent failure callback follows.
WrongAfterPersistSilent(w) ==
    IF rec[w].status = "RUNNING" THEN Goto(w, "run") /\ UNCHANGED <<job, rec>>
                                 ELSE NextLoop(w)
AfterPersist(w) ==
    CASE rec[w].status = "RUNNING" -> Goto(w, "run") /\ UNCHANGED <<job, rec>>
      [] rec[w].status = "FAILED"  -> Goto(w, "callback") /\ UNCHANGED <<job, rec>>
      [] OTHER                     -> NextLoop(w)

Persist(w) ==
    /\ pc[w] = "persist"
    /\ db' = [db EXCEPT ![job[w]] = rec[w]]
    /\ AfterPersist(w)
    /\ UNCHANGED <<redisVars, projectFailed, clientVars, stopping, runs, boundVars>>

\* processJob: the handler returns, with or without an error.
Run(w) ==
    /\ pc[w] = "run"
    /\ runs' = [runs EXCEPT ![job[w]] = @ + 1]
    /\ \E next \in {"complete", "fail"} : Goto(w, next)
    /\ UNCHANGED <<redisVars, db, projectFailed, job, rec, clientVars, stopping, boundVars>>

\* Complete and Fail read the record again before they change it.
CompleteGet(w) ==
    /\ pc[w] = "complete"
    /\ rec' = [rec EXCEPT ![w] = [data[job[w]] EXCEPT !.status = "SUCCEEDED"]]
    /\ Goto(w, "set")
    /\ UNCHANGED <<redisVars, db, projectFailed, job, clientVars, stopping, runs, boundVars>>

FailGet(w) ==
    /\ pc[w] = "fail"
    /\ rec' = [rec EXCEPT ![w] = Failed(data[job[w]])]
    /\ Goto(w, "set")
    /\ UNCHANGED <<redisVars, db, projectFailed, job, clientVars, stopping, runs, boundVars>>

\* The pipelines of Complete and Fail: SET, for a retry LPUSH, then DEL.
WrongAfterSetPush(r) == "push"
WrongAfterSetNoPush(r) == "del"
WrongAfterSetNoDel(r) == IF r.status = "QUEUED" THEN "push" ELSE "persist"
AfterSet(r) == IF r.status = "QUEUED" THEN "push" ELSE "del"

WrongSettleSet(w) ==
    /\ pc[w] = "set"
    /\ Goto(w, AfterSet(rec[w]))
    /\ UNCHANGED <<redisVars, db, projectFailed, job, rec, clientVars, stopping, runs, boundVars>>
SettleSet(w) ==
    /\ pc[w] = "set"
    /\ data' = [data EXCEPT ![job[w]] = rec[w]]
    /\ Goto(w, AfterSet(rec[w]))
    /\ UNCHANGED <<queue, lock, db, projectFailed, job, rec, clientVars, stopping, runs, boundVars>>

SettlePush(w) ==
    /\ pc[w] = "push"
    /\ queue' = Append(queue, job[w])
    /\ Goto(w, "del")
    /\ UNCHANGED <<data, lock, db, projectFailed, job, rec, clientVars, stopping, runs, boundVars>>

\* DEL removes the key whoever set it.
SettleDel(w) ==
    /\ pc[w] = "del"
    /\ lock' = [lock EXCEPT ![job[w]] = Free]
    /\ Goto(w, "persist")
    /\ UNCHANGED <<queue, data, db, projectFailed, job, rec, clientVars, stopping, runs, boundVars>>

\* The worker's callback: workflow.MarkProjectFailed.
Callback(w) ==
    /\ pc[w] = "callback"
    /\ projectFailed' = TRUE
    /\ NextLoop(w)
    /\ UNCHANGED <<redisVars, db, clientVars, stopping, runs, boundVars>>

-----------------------------------------------------------------------------
(* Disruptions.                                                            *)

Disrupt(kind) ==
    /\ kind \in Disruptions
    /\ disruptions < MaxDisruptions
    /\ disruptions' = disruptions + 1

\* A worker process dies (a panic in a handler, a kill) and is started again.
Crash(h) ==
    /\ Disrupt("crash")
    /\ pc' = [w \in Workers |-> IF HostOf[w] = h THEN "poll" ELSE pc[w]]
    /\ job' = [w \in Workers |-> IF HostOf[w] = h THEN NoJob ELSE job[w]]
    /\ rec' = [w \in Workers |-> IF HostOf[w] = h THEN NoRecord ELSE rec[w]]
    /\ stopping' = stopping \ {h}
    /\ UNCHANGED <<redisVars, db, projectFailed, clientVars, runs, retries>>

\* Stop closes stopCh; the workers finish the job they are at and return.
Stop(h) ==
    /\ h \notin stopping
    /\ Disrupt("stop")
    /\ stopping' = stopping \cup {h}
    /\ UNCHANGED <<redisVars, db, projectFailed, workerVars, clientVars, runs, retries>>

\* A stopped worker process is started again.
Restart(h) ==
    /\ h \in stopping
    /\ \A w \in Workers : HostOf[w] = h => pc[w] = "stopped"
    /\ stopping' = stopping \ {h}
    /\ pc' = [w \in Workers |-> IF HostOf[w] = h THEN "poll" ELSE pc[w]]
    /\ UNCHANGED <<redisVars, db, projectFailed, job, rec, clientVars, runs, boundVars>>

\* A GET fails: Dequeue returns an error and the popped id is gone; Complete
\* and Fail return one nobody looks at, with the lock still set.
GetError(w) ==
    /\ pc[w] \in {"fetch", "complete", "fail"}
    /\ Disrupt("redis")
    /\ NextLoop(w)
    /\ UNCHANGED <<redisVars, db, projectFailed, clientVars, stopping, runs, retries>>

\* SETNX fails: the id goes back to the queue; the key may be set all the same.
LockError(w) ==
    /\ pc[w] = "lock"
    /\ Disrupt("redis")
    /\ lock' \in {lock, [lock EXCEPT ![job[w]] = IF LockIsFree(job[w]) THEN w ELSE @]}
    /\ queue' = Append(queue, job[w])
    /\ NextLoop(w)
    /\ UNCHANGED <<data, db, projectFailed, clientVars, stopping, runs, retries>>

\* The SET of MarkRunning fails; its error is not looked at.
MarkError(w) ==
    /\ pc[w] = "mark"
    /\ Disrupt("redis")
    /\ rec' = [rec EXCEPT ![w] = Started(@)]
    /\ Goto(w, "persist")
    /\ UNCHANGED <<redisVars, db, projectFailed, job, clientVars, stopping, runs, retries>>

\* What is left of a settling pipeline is not executed; neither is that error.
PipelineError(w) ==
    /\ pc[w] \in {"set", "push", "del"}
    /\ Disrupt("redis")
    /\ Goto(w, "persist")
    /\ UNCHANGED <<redisVars, db, projectFailed, job, rec, clientVars, stopping, runs, retries>>

\* A row is not written; the error is only logged.
PersistError(w) ==
    /\ pc[w] = "persist"
    /\ Disrupt("postgres")
    /\ AfterPersist(w)
    /\ UNCHANGED <<redisVars, db, projectFailed, clientVars, stopping, runs, retries>>

\* MarkProjectFailed fails; that error is only logged too.
CallbackError(w) ==
    /\ pc[w] = "callback"
    /\ Disrupt("postgres")
    /\ NextLoop(w)
    /\ UNCHANGED <<redisVars, db, projectFailed, clientVars, stopping, runs, retries>>

EnqueuePersistError(c) ==
    /\ cpc[c] = "persist"
    /\ Disrupt("postgres")
    /\ AfterEnqueue(c)
    /\ UNCHANGED <<redisVars, db, projectFailed, workerVars, todo, stopping, runs, retries>>

\* A client's request ends early: an error returned, its timeout, a crash.
Abort(c) ==
    /\ cpc[c] # "idle"
    /\ Disrupt("client")
    /\ ClientGoto(c, "idle")
    /\ cjob' = [cjob EXCEPT ![c] = NoJob]
    /\ todo' = [todo EXCEPT ![c] = {}]
    /\ UNCHANGED <<redisVars, db, projectFailed, workerVars, stopping, runs, retries>>

\* Steps a worker takes while it relies on the lock it took.
Locked(w) ==
    \/ pc[w] \in {"mark", "run", "complete", "fail", "set", "push", "del"}
    \/ pc[w] = "persist" /\ rec[w].status = "RUNNING"

Owns(w, j) == job[w] = j /\ Locked(w)

\* The TTL of 5 minutes ends for a lock nobody relies on any more ...
OrphanLockExpires(j) ==
    /\ lock[j] # Free
    /\ \A w \in Workers : ~Owns(w, j)
    /\ Disrupt("orphanLockExpires")
    /\ lock' = [lock EXCEPT ![j] = Free]
    /\ UNCHANGED <<queue, data, db, projectFailed, workerVars, clientVars, stopping, runs, retries>>

\* ... or for one whose handler is still at work.
LiveLockExpires(j) ==
    /\ lock[j] # Free
    /\ \E w \in Workers : Owns(w, j)
    /\ Disrupt("liveLockExpires")
    /\ lock' = [lock EXCEPT ![j] = Free]
    /\ UNCHANGED <<queue, data, db, projectFailed, workerVars, clientVars, stopping, runs, retries>>

\* The TTL of 24 hours ends for a record no worker is at.
DataExpires(j) ==
    /\ data[j] # NoRecord
    /\ lock[j] = Free
    /\ \A w \in Workers : job[w] # j
    /\ \A c \in Clients : cjob[c] # j
    /\ Disrupt("dataExpires")
    /\ data' = [data EXCEPT ![j] = NoRecord]
    /\ UNCHANGED <<queue, lock, db, projectFailed, workerVars, clientVars, stopping, runs, retries>>

-----------------------------------------------------------------------------
ClientStep(c) ==
    \/ ResetRow(c) \/ EnqueueSet(c) \/ EnqueuePush(c)
    \/ EnqueuePersist(c) \/ ProjectStatus(c)

WorkerStep(w) ==
    \/ Pop(w) \/ PollTimeout(w) \/ Fetch(w) \/ AcquireLock(w) \/ SkipLocked(w)
    \/ MarkRunning(w) \/ Persist(w) \/ Run(w) \/ CompleteGet(w) \/ FailGet(w)
    \/ SettleSet(w) \/ SettlePush(w) \/ SettleDel(w) \/ Callback(w)

RedisFault(w) ==
    GetError(w) \/ LockError(w) \/ MarkError(w) \/ PipelineError(w)

PostgresFault(w) == PersistError(w) \/ CallbackError(w)

Next ==
    \/ \E c \in Clients : \/ \E j \in Jobs : Submit(c, j)
                          \/ Retry(c) \/ ClientStep(c) \/ EnqueuePersistError(c) \/ Abort(c)
    \/ \E w \in Workers : WorkerStep(w) \/ RedisFault(w) \/ PostgresFault(w)
    \/ \E h \in Hosts : Crash(h) \/ Stop(h) \/ Restart(h)
    \/ \E j \in Jobs : OrphanLockExpires(j) \/ LiveLockExpires(j) \/ DataExpires(j)

Spec == Init /\ [][Next]_vars

\* Redis and Postgres answer, handlers return (they call services with
\* timeouts), a started request goes on, a stopped process is restarted.
\* Nobody has to submit or retry, nothing has to go wrong.
FairSpec ==
    /\ Spec
    /\ \A w \in Workers : WF_vars(WorkerStep(w))
    /\ \A c \in Clients : WF_vars(ClientStep(c))
    /\ \A h \in Hosts : WF_vars(Restart(h))

-----------------------------------------------------------------------------
(* Properties.                                                             *)

\* Every variable holds what its comment says; a worker or client has a job
\* exactly at the steps that need one.
WorkersTypeOK ==
    /\ pc \in [Workers -> WorkerPc]
    /\ job \in [Workers -> Jobs \cup {NoJob}]
    /\ rec \in [Workers -> Record]
    /\ \A w \in Workers : job[w] = NoJob <=> pc[w] \in {"poll", "stopped"}

ClientsTypeOK ==
    /\ cpc \in [Clients -> ClientPc]
    /\ cjob \in [Clients -> Jobs \cup {NoJob}]
    /\ todo \in [Clients -> SUBSET Jobs]
    /\ \A c \in Clients : cjob[c] = NoJob <=> cpc[c] \in {"idle", "reset", "project"}

StoresTypeOK ==
    /\ queue \in Seq(Jobs)
    /\ data \in [Jobs -> Record]
    /\ lock \in [Jobs -> Workers \cup {Free}]
    /\ db \in [Jobs -> Record]
    /\ projectFailed \in BOOLEAN
    /\ stopping \in SUBSET Hosts
    /\ runs \in [Jobs -> Nat]
    /\ retries \in Nat
    /\ disruptions \in Nat

TypeOK == WorkersTypeOK /\ ClientsTypeOK /\ StoresTypeOK

\* Two workers never work on the same job: whoever is between taking the lock
\* and the DEL of Complete or Fail is alone, although the key does not say
\* whose it is, DEL asks for no owner, and the same id may be queued twice.
OneWorkerPerJob ==
    \A v, w \in Workers :
        v # w /\ Locked(v) /\ Locked(w) => job[v] # job[w]

\* Whoever relies on the lock of a job is the one who set its key, so no DEL
\* takes a key another worker set.
LockHeld == \A w \in Workers : Locked(w) => lock[job[w]] = w

\* What Complete and Fail write back is never RUNNING.
SettledCopy ==
    \A w \in Workers :
        pc[w] \in {"set", "push", "del"} => rec[w].status \in {"QUEUED", "SUCCEEDED", "FAILED"}

\* A job is given up only after its handler was called MaxAttempts times since
\* it was enqueued (Dequeue counts an attempt before the handler runs).
NoEarlyGiveUp ==
    \A j \in Jobs : data[j].status = "FAILED" => runs[j] >= MaxAttempts

\* A handler is called at most MaxAttempts times for one enqueueing of a job.
RunsBounded == \A j \in Jobs : runs[j] <= MaxAttempts

InQueue(j) == \E i \in 1..Len(queue) : queue[i] = j

\* Worker w will still run j, settle it or hand its id back to the queue.
Carries(w, j) ==
    /\ job[w] = j
    /\ \/ pc[w] \in {"fetch", "lock", "mark", "run", "complete", "fail", "set", "push"}
       \/ pc[w] = "persist" /\ rec[w].status = "RUNNING"

Busy(j) == InQueue(j) \/ \E w \in Workers : Carries(w, j)

\* A row that RetryProject would pick up belongs to a job that is over: its id
\* is nowhere in the queue and no worker holds it, late row writes included.
FailedRowIsSettled ==
    \A j \in Retryable :
        data[j].status \in {"FAILED", "NONE"} /\ ~Busy(j)

\* A job that is QUEUED or RUNNING in Redis has its id in the queue or with a
\* worker or an enqueueing client: nothing is accepted and then forgotten.
NoLostJob ==
    \A j \in Jobs :
        data[j].status \in {"QUEUED", "RUNNING"} =>
            Busy(j) \/ \E c \in Clients : cjob[c] = j /\ cpc[c] = "push"

Lifecycle == INSTANCE JobLifecycle WITH
    status <- [j \in Jobs |-> data[j].status],
    attempts <- [j \in Jobs |-> data[j].attempts]

\* The records in Redis go through the life JobLifecycle describes.
ImplementsLifecycle == Lifecycle!LifecycleSpec

\* Every job accepted by the queue ends, whatever its handler returns.
EveryJobSettles ==
    \A j \in Jobs :
        data[j].status = "QUEUED" ~> data[j].status \in {"SUCCEEDED", "FAILED"}

\* A job does not stay RUNNING, also with duplicate ids and several workers.
RunsEnd == \A j \in Jobs : data[j].status = "RUNNING" ~> data[j].status # "RUNNING"

\* A job that a worker gives up gets its project marked FAILED, also when the
\* worker is told to stop meanwhile: Stop waits for the callback.
GivesUp(w) == pc[w] = "set" /\ rec[w].status = "FAILED"

FailureReported == \A w \in Workers : GivesUp(w) ~> projectFailed

\* Stop returns: the workers of the process all leave their loops, even with
\* work left in the queue.
StopReturns ==
    \A h \in Hosts :
        h \in stopping ~> \A w \in Workers : HostOf[w] = h => pc[w] = "stopped"

\* A lock does not outlive the work it protects.
LocksAreReleased == \A j \in Jobs : lock[j] # Free ~> lock[j] = Free
=============================================================================
