---------------------------- MODULE JobLifecycle ----------------------------
(***************************************************************************)
(* The life of a background job as the queues promise it, one job at a     *)
(* time and without any queue, lock or worker: a job is submitted, runs at *)
(* most MaxAttempts times, and ends SUCCEEDED or FAILED; only a FAILED job *)
(* may be retried, with its attempts counted from zero again.              *)
(*                                                                         *)
(* This is what project.md:74 and SPECIFICATIONS.md, section 6.1, draw.    *)
(* RedisQueue implements it as long as a project is retried by one client  *)
(* at a time and Redis answers.                                            *)
(***************************************************************************)
EXTENDS Naturals

CONSTANTS Jobs,         \* the job ids
          MaxAttempts   \* models.Job.MaxAttempts

VARIABLES status,       \* status[j]: the state of job j, "NONE" before it exists
          attempts      \* attempts[j]: how many runs of j were started

lifecycleVars == <<status, attempts>>

LifecycleInit ==
    /\ status = [j \in Jobs |-> "NONE"]
    /\ attempts = [j \in Jobs |-> 0]

Move(j, from, to) ==
    /\ status[j] = from
    /\ status' = [status EXCEPT ![j] = to]

Submit(j) ==
    /\ Move(j, "NONE", "QUEUED")
    /\ UNCHANGED attempts

Start(j) ==
    /\ attempts[j] < MaxAttempts
    /\ Move(j, "QUEUED", "RUNNING")
    /\ attempts' = [attempts EXCEPT ![j] = @ + 1]

Succeed(j) ==
    /\ Move(j, "RUNNING", "SUCCEEDED")
    /\ UNCHANGED attempts

TryAgain(j) ==
    /\ attempts[j] < MaxAttempts
    /\ Move(j, "RUNNING", "QUEUED")
    /\ UNCHANGED attempts

GiveUp(j) ==
    /\ attempts[j] = MaxAttempts
    /\ Move(j, "RUNNING", "FAILED")
    /\ UNCHANGED attempts

Revive(j) ==
    /\ Move(j, "FAILED", "QUEUED")
    /\ attempts' = [attempts EXCEPT ![j] = 0]

LifecycleNext ==
    \E j \in Jobs :
        Submit(j) \/ Start(j) \/ Succeed(j) \/ TryAgain(j) \/ GiveUp(j) \/ Revive(j)

LifecycleSpec == LifecycleInit /\ [][LifecycleNext]_lifecycleVars
=============================================================================
