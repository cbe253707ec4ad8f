------------------------------ MODULE MemoryQueue ------------------------------
(***************************************************************************)
(* The in-memory job queue (internal/jobs/queue.go): a slice of pointers   *)
(* to jobs under one mutex, and one goroutine, processLoop, that runs them *)
(* one at a time.                                                          *)
(*                                                                         *)
(* Every method holds the mutex from its first to its last access, the     *)
(* write of the row included, and is one step; the handler and the         *)
(* permanent failure callback run outside it.  The ids in a slice differ,  *)
(* for CreateJob makes a new one each time and the process that runs jobs  *)
(* never calls RetryProject; so the slice is a sequence of ids and rec the *)
(* jobs they point to.                                                     *)
(***************************************************************************)
EXTENDS Naturals, Sequences

CONSTANTS Jobs,          \* job ids
          NoJob,         \* the loop holds no job
          MaxAttempts,   \* models.Job.MaxAttempts
          Started,       \* whether the process calls Start: cmd/worker does,
                         \* cmd/api does not
          Failing        \* the tables whose writes may fail

ASSUME MemoryQueueAssumption ==
    /\ NoJob \notin Jobs
    /\ MaxAttempts \in Nat \ {0}
    /\ Started \in BOOLEAN
    /\ Failing \subseteq {"jobs", "projects"}

VARIABLES slice,           \* MemoryQueue.jobs
          rec,             \* rec[j]: the job j points to
          db,              \* db[j]: status and attempt_count of its row
          projectFailed,   \* projects.status = FAILED
          loop,            \* the next step of processLoop
          cur,             \* the job the loop runs
          stopping         \* Stop was called

vars == <<slice, rec, db, projectFailed, loop, cur, stopping>>

-----------------------------------------------------------------------------
Status == {"NONE", "QUEUED", "RUNNING", "SUCCEEDED", "FAILED"}
Record == [status : Status, attempts : Nat]
NoRecord == [status |-> "NONE", attempts |-> 0]
NewRecord == [status |-> "QUEUED", attempts |-> 0]

InSlice(j) == \E i \in 1..Len(slice) : slice[i] = j

\* Definitions named Wrong... are mutants of the one that follows them.
WrongAnyQueued(i) == rec[slice[i]].status = "QUEUED"
WrongOnlyFresh(i) == rec[slice[i]] = NewRecord

\* The first entry Dequeue finds QUEUED.
IsFirstQueued(i) ==
    /\ rec[slice[i]].status = "QUEUED"
    /\ \A k \in 1..(i - 1) : rec[slice[k]].status # "QUEUED"

WrongPersistNoAttempts(j) == db' = [db EXCEPT ![j].status = rec'[j].status]

\* onJobStateChange; its error is only logged.
Persist(j) ==
    \/ db' = [db EXCEPT ![j] = rec'[j]]
    \/ "jobs" \in Failing /\ UNCHANGED db

-----------------------------------------------------------------------------
Init ==
    /\ slice = <<>>
    /\ rec = [j \in Jobs |-> NoRecord]
    /\ db = [j \in Jobs |-> NoRecord]
    /\ projectFailed = FALSE
    /\ loop = IF Started THEN "select" ELSE "stopped"
    /\ cur = NoJob
    /\ stopping = FALSE

\* The workflow creates the row of a new job ...
CreateRow(j) ==
    /\ db[j] = NoRecord
    /\ db' = [db EXCEPT ![j] = NewRecord]
    /\ UNCHANGED <<slice, rec, projectFailed, loop, cur, stopping>>

\* ... and enqueues it, from a request or from the handler of another job.
Enqueue(j) ==
    /\ db[j] # NoRecord
    /\ rec[j] = NoRecord
    /\ slice' = Append(slice, j)
    /\ rec' = [rec EXCEPT ![j] = NewRecord]
    /\ Persist(j)
    /\ UNCHANGED <<projectFailed, loop, cur, stopping>>

\* A tick of the loop: Dequeue returns a job, which is RUNNING from now on, or
\* none and nothing changes.
Dequeue ==
    /\ loop = "select"
    /\ \E i \in 1..Len(slice) :
         /\ IsFirstQueued(i)
         /\ cur' = slice[i]
         /\ rec' = [rec EXCEPT ![slice[i]] = [status |-> "RUNNING", attempts |-> @.attempts + 1]]
         /\ Persist(slice[i])
    /\ loop' = "run"
    /\ UNCHANGED <<slice, projectFailed, stopping>>

WrongLoopEndsDrained ==
    /\ loop = "select"
    /\ stopping /\ slice = <<>>
    /\ loop' = "stopped"
    /\ UNCHANGED <<slice, rec, db, projectFailed, cur, stopping>>

\* The select of the loop finds stopCh closed, or its context cancelled.
LoopEnds ==
    /\ loop = "select"
    /\ stopping
    /\ loop' = "stopped"
    /\ UNCHANGED <<slice, rec, db, projectFailed, cur, stopping>>

Release(next) == loop' = next /\ cur' = NoJob

\* The handler returned nil.
Complete ==
    /\ loop = "run"
    /\ rec' = [rec EXCEPT ![cur].status = "SUCCEEDED"]
    /\ Persist(cur)
    /\ Release("select")
    /\ UNCHANGED <<slice, projectFailed, stopping>>

WrongHasAttempts(j) == rec[j].attempts + 1 < MaxAttempts
HasAttempts(j) == rec[j].attempts < MaxAttempts

\* The handler returned an error, or none is registered for the job.
FailRequeues ==
    /\ loop = "run"
    /\ HasAttempts(cur)
    /\ rec' = [rec EXCEPT ![cur].status = "QUEUED"]
    /\ Persist(cur)
    /\ Release("select")
    /\ UNCHANGED <<slice, projectFailed, stopping>>

FailForGood ==
    /\ loop = "run"
    /\ ~HasAttempts(cur)
    /\ rec' = [rec EXCEPT ![cur].status = "FAILED"]
    /\ Persist(cur)
    /\ Release("callback")
    /\ UNCHANGED <<slice, projectFailed, stopping>>

\* The permanent failure callback of cmd/worker, outside the lock.
Callback ==
    /\ loop = "callback"
    /\ \/ projectFailed' = TRUE
       \/ "projects" \in Failing /\ UNCHANGED projectFailed
    /\ loop' = "select"
    /\ UNCHANGED <<slice, rec, db, cur, stopping>>

\* Stop closes stopCh and waits for the loop.
Stop ==
    /\ ~stopping
    /\ stopping' = TRUE
    /\ UNCHANGED <<slice, rec, db, projectFailed, loop, cur>>

-----------------------------------------------------------------------------
LoopStep ==
    Dequeue \/ LoopEnds \/ Complete \/ FailRequeues \/ FailForGood \/ Callback

Next ==
    \/ \E j \in Jobs : CreateRow(j) \/ Enqueue(j)
    \/ LoopStep
    \/ Stop

Spec == Init /\ [][Next]_vars

\* The goroutine runs, handlers return, and a request that created its row
\* goes on to enqueue it.  Nobody has to create a job or to stop the queue.
FairSpec ==
    /\ Spec
    /\ WF_vars(LoopStep)
    /\ \A j \in Jobs : WF_vars(Enqueue(j))

-----------------------------------------------------------------------------
(* Properties.                                                             *)

Settled == {"SUCCEEDED", "FAILED"}

\* Every variable holds what its comment says; the loop has a job exactly while
\* a handler runs.
TypeOK ==
    /\ slice \in Seq(Jobs)
    /\ rec \in [Jobs -> Record]
    /\ db \in [Jobs -> Record]
    /\ projectFailed \in BOOLEAN
    /\ loop \in {"select", "run", "callback", "stopped"}
    /\ cur \in Jobs \cup {NoJob}
    /\ stopping \in BOOLEAN
    /\ cur = NoJob <=> loop # "run"

\* Jobs run strictly one after the other, repetitions included: when a job has
\* started, every job enqueued before it is settled.  A job that fails keeps its
\* place in the slice, so Dequeue finds it again before any later one.
OneAfterTheOther ==
    \A i, k \in 1..Len(slice) :
        i < k /\ rec[slice[k]].attempts > 0 => rec[slice[i]].status \in Settled

\* What a row says of a job that is over is what happened, with the number of
\* its attempts, although errors of the writes of rows are ignored.
SettledRowIsTrue ==
    \A j \in Jobs : db[j].status \in Settled => db[j] = rec[j]

Lifecycle == INSTANCE JobLifecycle WITH
    status <- [j \in Jobs |-> rec[j].status],
    attempts <- [j \in Jobs |-> rec[j].attempts]

\* The jobs of the queue go through the life JobLifecycle describes.
ImplementsLifecycle == Lifecycle!LifecycleSpec

\* Every job that is enqueued ends unless the process stops, whatever its
\* handler returns and however many jobs fail before it.
EveryJobSettles ==
    \A j \in Jobs : InSlice(j) ~> rec[j].status \in Settled \/ stopping

\* Stop returns although jobs are left and more may come.
StopReturns == stopping ~> loop = "stopped"
=============================================================================
