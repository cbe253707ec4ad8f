--------------------------- MODULE RedisQueueProofs ---------------------------
(***************************************************************************)
(* Proofs about RedisQueue, for any number of jobs, workers, hosts and     *)
(* clients, any MaxAttempts and any kind and number of disruptions that    *)
(* each theorem does not exclude.                                          *)
(***************************************************************************)
EXTENDS RedisQueue, TLAPS

-----------------------------------------------------------------------------
(* Type correctness.                                                       *)

\* The records of the queue have the right type.
LEMMA RecordTypes ==
    /\ NoRecord \in Record
    /\ NewRecord \in Record
    /\ \A r \in Record : /\ Started(r) \in Record
                         /\ Failed(r) \in Record
                         /\ [r EXCEPT !.status = "SUCCEEDED"] \in Record
BY DEF NoRecord, NewRecord, Record, Status, Started, Failed

\* Going back to the top of the loop leaves the workers well typed.
LEMMA NextLoopType ==
    ASSUME NEW w \in Workers, WorkersTypeOK, NextLoop(w)
    PROVE  WorkersTypeOK'
BY RedisQueueAssumption, RecordTypes
   DEF WorkersTypeOK, WorkerPc, NextLoop, Goto

\* A step of the queue leaves every variable with its type.
LEMMA TypeStep == TypeOK /\ [Next]_vars => TypeOK'
<1> SUFFICES ASSUME TypeOK, [Next]_vars PROVE TypeOK'
  OBVIOUS
<1> USE RedisQueueAssumption, RecordTypes
    DEF TypeOK, WorkersTypeOK, ClientsTypeOK, StoresTypeOK, WorkerPc, ClientPc
<1>1. ASSUME NEW c \in Clients, NEW j \in Jobs, Submit(c, j) PROVE TypeOK'
  BY <1>1 DEF Submit, ClientGoto, redisVars, workerVars, clientVars, boundVars
<1>2. ASSUME NEW c \in Clients, Retry(c) PROVE TypeOK'
  BY <1>2 DEF Retry, ClientGoto, Retryable, redisVars, workerVars, clientVars, boundVars
<1>3. ASSUME NEW c \in Clients, ResetRow(c) PROVE TypeOK'
  BY <1>3 DEF ResetRow, ClientGoto, redisVars, workerVars, clientVars, boundVars
<1>4. ASSUME NEW c \in Clients, EnqueueSet(c) PROVE TypeOK'
  BY <1>4 DEF EnqueueSet, ClientGoto, redisVars, workerVars, clientVars, boundVars
<1>5. ASSUME NEW c \in Clients, EnqueuePush(c) PROVE TypeOK'
  <2>1. cjob[c] \in Jobs /\ queue \in Seq(Jobs)
    BY <1>5 DEF EnqueuePush
  <2>2. queue' \in Seq(Jobs)
    BY <2>1, <1>5 DEF EnqueuePush
  <2>. QED
    BY <2>2, <1>5 DEF EnqueuePush, ClientGoto, redisVars, workerVars, clientVars, boundVars
<1>6. ASSUME NEW c \in Clients, EnqueuePersist(c) PROVE TypeOK'
  BY <1>6 DEF EnqueuePersist, AfterEnqueue, ClientGoto, redisVars, workerVars, clientVars, boundVars
<1>7. ASSUME NEW c \in Clients, ProjectStatus(c) PROVE TypeOK'
  BY <1>7 DEF ProjectStatus, ClientGoto, redisVars, workerVars, clientVars, boundVars
<1>8. ASSUME NEW c \in Clients, EnqueuePersistError(c) PROVE TypeOK'
  BY <1>8 DEF EnqueuePersistError, Disrupt, AfterEnqueue, ClientGoto, redisVars, workerVars, clientVars, boundVars
<1>9. ASSUME NEW c \in Clients, Abort(c) PROVE TypeOK'
  BY <1>9 DEF Abort, Disrupt, ClientGoto, redisVars, workerVars, clientVars, boundVars
<1>10. ASSUME NEW w \in Workers, Pop(w) PROVE TypeOK'
  BY <1>10 DEF Pop, Goto, redisVars, workerVars, clientVars, boundVars
<1>11. ASSUME NEW w \in Workers, PollTimeout(w) PROVE TypeOK'
  BY <1>11 DEF PollTimeout, NextLoop, Goto, redisVars, workerVars, clientVars, boundVars
<1>12. ASSUME NEW w \in Workers, Fetch(w) PROVE TypeOK'
  <2>1. CASE data[job[w]] # NoRecord
    <3>1. job[w] \in Jobs /\ data[job[w]] \in Record
      BY <1>12 DEF Fetch
    <3>2. WorkersTypeOK'
      BY <1>12, <2>1, <3>1 DEF Fetch, Goto
    <3>. QED
      BY <1>12, <3>2 DEF Fetch, redisVars, clientVars, boundVars
  <2>2. CASE data[job[w]] = NoRecord
    BY <1>12, <2>2, NextLoopType DEF Fetch, redisVars, clientVars, boundVars
  <2>. QED
    BY <2>1, <2>2
<1>13. ASSUME NEW w \in Workers, AcquireLock(w) PROVE TypeOK'
  BY <1>13 DEF AcquireLock, Goto, redisVars, workerVars, clientVars, boundVars
<1>14. ASSUME NEW w \in Workers, SkipLocked(w) PROVE TypeOK'
  BY <1>14 DEF SkipLocked, NextLoop, Goto, redisVars, workerVars, clientVars, boundVars
<1>15. ASSUME NEW w \in Workers, MarkRunning(w) PROVE TypeOK'
  BY <1>15 DEF MarkRunning, Goto, redisVars, workerVars, clientVars, boundVars
<1>16. ASSUME NEW w \in Workers, Persist(w) PROVE TypeOK'
  BY <1>16 DEF Persist, AfterPersist, NextLoop, Goto, redisVars, workerVars, clientVars, boundVars
<1>17. ASSUME NEW w \in Workers, Run(w) PROVE TypeOK'
  BY <1>17 DEF Run, Goto, redisVars, workerVars, clientVars, boundVars
<1>18. ASSUME NEW w \in Workers, CompleteGet(w) PROVE TypeOK'
  BY <1>18 DEF CompleteGet, Goto, redisVars, workerVars, clientVars, boundVars
<1>19. ASSUME NEW w \in Workers, FailGet(w) PROVE TypeOK'
  BY <1>19 DEF FailGet, Goto, redisVars, workerVars, clientVars, boundVars
<1>20. ASSUME NEW w \in Workers, SettleSet(w) PROVE TypeOK'
  BY <1>20 DEF SettleSet, Goto, AfterSet, redisVars, workerVars, clientVars, boundVars
<1>21. ASSUME NEW w \in Workers, SettlePush(w) PROVE TypeOK'
  <2>1. job[w] \in Jobs /\ queue \in Seq(Jobs)
    BY <1>21 DEF SettlePush
  <2>2. queue' \in Seq(Jobs)
    BY <2>1, <1>21 DEF SettlePush
  <2>. QED
    BY <2>2, <1>21 DEF SettlePush, Goto, redisVars, workerVars, clientVars, boundVars
<1>22. ASSUME NEW w \in Workers, SettleDel(w) PROVE TypeOK'
  BY <1>22 DEF SettleDel, Goto, redisVars, workerVars, clientVars, boundVars
<1>23. ASSUME NEW w \in Workers, Callback(w) PROVE TypeOK'
  BY <1>23 DEF Callback, NextLoop, Goto, redisVars, workerVars, clientVars, boundVars
<1>24. ASSUME NEW w \in Workers, GetError(w) PROVE TypeOK'
  BY <1>24 DEF GetError, Disrupt, NextLoop, Goto, redisVars, workerVars, clientVars, boundVars
<1>25. ASSUME NEW w \in Workers, LockError(w) PROVE TypeOK'
  <2>1. WorkersTypeOK'
    BY <1>25, NextLoopType DEF LockError
  <2>2. job[w] \in Jobs /\ queue \in Seq(Jobs)
    BY <1>25 DEF LockError
  <2>3. queue' \in Seq(Jobs)
    BY <2>2, <1>25 DEF LockError
  <2>4. lock' \in [Jobs -> Workers \cup {Free}]
    BY <2>2, <1>25 DEF LockError
  <2>. QED
    BY <2>1, <2>3, <2>4, <1>25 DEF LockError, Disrupt, clientVars
<1>26. ASSUME NEW w \in Workers, MarkError(w) PROVE TypeOK'
  <2>1. Started(rec[w]) \in Record
    OBVIOUS
  <2>2. WorkersTypeOK'
    BY <1>26, <2>1 DEF MarkError, Goto
  <2>. QED
    BY <2>2, <1>26 DEF MarkError, Disrupt, redisVars, clientVars
<1>27. ASSUME NEW w \in Workers, PipelineError(w) PROVE TypeOK'
  BY <1>27 DEF PipelineError, Disrupt, Goto, redisVars, workerVars, clientVars, boundVars
<1>28. ASSUME NEW w \in Workers, PersistError(w) PROVE TypeOK'
  <2>1. WorkersTypeOK'
    <3>1. CASE rec[w].status \in {"RUNNING", "FAILED"}
      BY <1>28, <3>1 DEF PersistError, AfterPersist, Goto
    <3>2. CASE rec[w].status \notin {"RUNNING", "FAILED"}
      BY <1>28, <3>2, NextLoopType DEF PersistError, AfterPersist
    <3>. QED
      BY <3>1, <3>2
  <2>. QED
    BY <2>1, <1>28 DEF PersistError, Disrupt, redisVars, clientVars
<1>29. ASSUME NEW h \in Hosts, Crash(h) PROVE TypeOK'
  BY <1>29 DEF Crash, Disrupt, redisVars, workerVars, clientVars, boundVars
<1>30. ASSUME NEW h \in Hosts, Stop(h) PROVE TypeOK'
  BY <1>30 DEF Stop, Disrupt, redisVars, workerVars, clientVars, boundVars
<1>31. ASSUME NEW h \in Hosts, Restart(h) PROVE TypeOK'
  BY <1>31 DEF Restart, redisVars, workerVars, clientVars, boundVars
<1>32. ASSUME NEW j \in Jobs, OrphanLockExpires(j) PROVE TypeOK'
  BY <1>32 DEF OrphanLockExpires, Disrupt, redisVars, workerVars, clientVars, boundVars
<1>33. ASSUME NEW j \in Jobs, LiveLockExpires(j) PROVE TypeOK'
  BY <1>33 DEF LiveLockExpires, Disrupt, redisVars, workerVars, clientVars, boundVars
<1>34. ASSUME NEW j \in Jobs, DataExpires(j) PROVE TypeOK'
  BY <1>34 DEF DataExpires, Disrupt, redisVars, workerVars, clientVars, boundVars
<1>35. ASSUME NEW w \in Workers, CallbackError(w) PROVE TypeOK'
  BY <1>35 DEF CallbackError, Disrupt, NextLoop, Goto, redisVars, workerVars, clientVars, boundVars
<1>36. CASE UNCHANGED vars
  BY <1>36 DEF redisVars, workerVars, clientVars, boundVars, vars
<1>. QED
  BY <1>1, <1>2, <1>3, <1>4, <1>5, <1>6, <1>7, <1>8, <1>9, <1>10, <1>11,
     <1>12, <1>13, <1>14, <1>15, <1>16, <1>17, <1>18, <1>19, <1>20, <1>21,
     <1>22, <1>23, <1>24, <1>25, <1>26, <1>27, <1>28, <1>29, <1>30, <1>31,
     <1>32, <1>33, <1>34, <1>35, <1>36 DEF Next, ClientStep, WorkerStep,
       RedisFault, PostgresFault

\* Every variable keeps its type in every behaviour of the queue.
THEOREM TypeCorrect == Spec => []TypeOK
<1>1. ASSUME Init PROVE TypeOK
  <2>1. WorkersTypeOK
    BY <1>1, RecordTypes DEF Init, WorkersTypeOK, WorkerPc
  <2>2. ClientsTypeOK
    BY <1>1 DEF Init, ClientsTypeOK, ClientPc
  <2>3. StoresTypeOK
    <3>1. queue \in Seq(Jobs)
      BY <1>1 DEF Init
    <3>2. lock \in [Jobs -> Workers \cup {Free}] /\ data \in [Jobs -> Record]
      BY <1>1, RecordTypes DEF Init
    <3>. QED
      BY <1>1, <3>1, <3>2, RecordTypes DEF Init, StoresTypeOK
  <2>. QED
    BY <2>1, <2>2, <2>3 DEF TypeOK
<1>. QED
  BY <1>1, TypeStep, PTL DEF Spec

-----------------------------------------------------------------------------
(* Mutual exclusion.                                                       *)

\* Complete and Fail decide on a status that is not RUNNING, and the steps up
\* to their last Redis command keep it.
LEMMA SettledStep == TypeOK /\ SettledCopy /\ [Next]_vars => SettledCopy'
<1> SUFFICES ASSUME TypeOK, SettledCopy, [Next]_vars PROVE SettledCopy'
  OBVIOUS
<1> USE RedisQueueAssumption DEF TypeOK, WorkersTypeOK, StoresTypeOK, SettledCopy
<1>1. CASE UNCHANGED <<pc, rec>>
  BY <1>1
<1>2. ASSUME NEW w \in Workers, CompleteGet(w) \/ FailGet(w) PROVE SettledCopy'
  <2>1. rec'[w].status \in {"QUEUED", "SUCCEEDED", "FAILED"}
    <3>1. job[w] \in Jobs /\ data[job[w]] \in Record
      BY <1>2 DEF CompleteGet, FailGet
    <3>. QED
      BY <1>2, <3>1 DEF CompleteGet, FailGet, Failed, Record
  <2>. QED
    BY <1>2, <2>1 DEF CompleteGet, FailGet, Goto
<1>3. ASSUME NEW w \in Workers, SettleSet(w) \/ SettlePush(w) \/ SettleDel(w)
      PROVE  SettledCopy'
  BY <1>3 DEF SettleSet, SettlePush, SettleDel, AfterSet, Goto
<1>4. ASSUME NEW w \in Workers,
             Pop(w) \/ PollTimeout(w) \/ Fetch(w) \/ AcquireLock(w) \/ SkipLocked(w)
      PROVE  SettledCopy'
  BY <1>4 DEF Pop, PollTimeout, Fetch, AcquireLock, SkipLocked, NextLoop, Goto
<1>5. ASSUME NEW w \in Workers, MarkRunning(w) \/ Persist(w) \/ Run(w) \/ Callback(w)
      PROVE  SettledCopy'
  BY <1>5 DEF MarkRunning, Persist, Run, Callback, AfterPersist, NextLoop, Goto
<1>6. ASSUME NEW w \in Workers, RedisFault(w) \/ PostgresFault(w) PROVE SettledCopy'
  BY <1>6 DEF RedisFault, PostgresFault, CallbackError, GetError, LockError, MarkError, PipelineError,
       PersistError, AfterPersist, NextLoop, Goto
<1>7. ASSUME NEW h \in Hosts, Crash(h) \/ Restart(h) PROVE SettledCopy'
  BY <1>7 DEF Crash, Restart
<1>8. ASSUME NEW c \in Clients,
             \/ \E j \in Jobs : Submit(c, j)
             \/ Retry(c) \/ ClientStep(c) \/ EnqueuePersistError(c) \/ Abort(c)
      PROVE  UNCHANGED <<pc, rec>>
  BY <1>8 DEF Submit, Retry, ClientStep, ResetRow, EnqueueSet, EnqueuePush,
       EnqueuePersist, ProjectStatus, EnqueuePersistError, Abort, workerVars
<1>9. ASSUME \/ \E h \in Hosts : Stop(h)
             \/ \E j \in Jobs :
                  OrphanLockExpires(j) \/ LiveLockExpires(j) \/ DataExpires(j)
             \/ UNCHANGED vars
      PROVE  UNCHANGED <<pc, rec>>
  BY <1>9 DEF Stop, OrphanLockExpires, LiveLockExpires, DataExpires, workerVars, vars
<1>. QED
  BY <1>1, <1>2, <1>3, <1>4, <1>5, <1>6, <1>7, <1>8, <1>9 DEF Next, WorkerStep

\* After a row was written, or not, a worker goes on with the job it has locked
\* or with one it has already released.
LEMMA AfterPersistLock ==
    ASSUME TypeOK, LockHeld, NEW w \in Workers, pc[w] = "persist",
           AfterPersist(w), UNCHANGED lock
    PROVE  LockHeld'
<1> SUFFICES ASSUME NEW v \in Workers, Locked(v)'
             PROVE  lock'[job'[v]] = v
  BY DEF LockHeld
<1> USE DEF TypeOK, WorkersTypeOK, Locked
<1>1. CASE v # w
  <2>1. pc'[v] = pc[v] /\ job'[v] = job[v] /\ rec'[v] = rec[v]
    BY <1>1 DEF AfterPersist, NextLoop, Goto
  <2>. QED
    BY <2>1 DEF LockHeld
<1>2. CASE v = w /\ rec[w].status = "RUNNING"
  BY <1>2 DEF AfterPersist, Goto, LockHeld
<1>3. CASE v = w /\ rec[w].status # "RUNNING"
  <2>1. pc'[w] \in {"callback", "poll", "stopped"}
    BY <1>3 DEF AfterPersist, NextLoop, Goto
  <2>. QED
    BY <1>3, <2>1
<1>. QED
  BY <1>1, <1>2, <1>3

\* A step keeps every key with the worker that relies on it, as long as no
\* lock expires under a running handler: nobody else sets a key that exists,
\* and DEL and the end of a TTL reach only keys nobody else relies on.
LEMMA LockStep ==
    ASSUME "liveLockExpires" \notin Disruptions
    PROVE  TypeOK /\ SettledCopy /\ LockHeld /\ [Next]_vars => LockHeld'
<1> SUFFICES ASSUME TypeOK, SettledCopy, LockHeld, [Next]_vars PROVE LockHeld'
  OBVIOUS
<1> USE RedisQueueAssumption DEF TypeOK, WorkersTypeOK, StoresTypeOK, LockHeld, Locked
<1>1. CASE UNCHANGED <<pc, job, rec, lock>>
  BY <1>1
<1>2. ASSUME NEW w \in Workers, Pop(w) PROVE LockHeld'
  BY <1>2 DEF Pop, Goto, redisVars
<1>3. ASSUME NEW w \in Workers, PollTimeout(w) PROVE LockHeld'
  BY <1>3 DEF PollTimeout, NextLoop, Goto, redisVars
<1>4. ASSUME NEW w \in Workers, Fetch(w) PROVE LockHeld'
  BY <1>4 DEF Fetch, NextLoop, Goto, redisVars
<1>5. ASSUME NEW w \in Workers, AcquireLock(w) PROVE LockHeld'
  BY <1>5 DEF AcquireLock, LockIsFree, Goto, redisVars
<1>6. ASSUME NEW w \in Workers, SkipLocked(w) PROVE LockHeld'
  BY <1>6 DEF SkipLocked, NextLoop, Goto, redisVars
<1>7. ASSUME NEW w \in Workers, MarkRunning(w) PROVE LockHeld'
  BY <1>7 DEF MarkRunning, Goto, Started, redisVars
<1>8. ASSUME NEW w \in Workers, Persist(w) PROVE LockHeld'
  BY <1>8, AfterPersistLock DEF Persist, redisVars
<1>9. ASSUME NEW w \in Workers, Run(w) PROVE LockHeld'
  BY <1>9 DEF Run, Goto, redisVars
<1>10. ASSUME NEW w \in Workers, CompleteGet(w) PROVE LockHeld'
  BY <1>10 DEF CompleteGet, Goto, redisVars
<1>11. ASSUME NEW w \in Workers, FailGet(w) PROVE LockHeld'
  BY <1>11 DEF FailGet, Goto, redisVars
<1>12. ASSUME NEW w \in Workers, SettleSet(w) PROVE LockHeld'
  BY <1>12 DEF SettleSet, Goto, AfterSet, redisVars
<1>13. ASSUME NEW w \in Workers, SettlePush(w) PROVE LockHeld'
  BY <1>13 DEF SettlePush, Goto, redisVars
<1>14. ASSUME NEW w \in Workers, SettleDel(w) PROVE LockHeld'
  <2> SUFFICES ASSUME NEW v \in Workers, Locked(v)'
               PROVE  lock'[job'[v]] = v
    BY DEF LockHeld
  <2>1. v # w /\ Locked(v) /\ job'[v] = job[v]
    BY <1>14 DEF SettleDel, SettledCopy, Goto
  <2>2. lock[job[v]] = v /\ lock[job[w]] = w
    BY <1>14, <2>1 DEF SettleDel
  <2>. QED
    BY <1>14, <2>1, <2>2 DEF SettleDel
<1>15. ASSUME NEW w \in Workers, Callback(w) PROVE LockHeld'
  BY <1>15 DEF Callback, NextLoop, Goto, redisVars
<1>16. ASSUME NEW w \in Workers, GetError(w) PROVE LockHeld'
  BY <1>16 DEF GetError, NextLoop, Goto, redisVars
<1>17. ASSUME NEW w \in Workers, LockError(w) PROVE LockHeld'
  <2> SUFFICES ASSUME NEW v \in Workers, Locked(v)'
               PROVE  lock'[job'[v]] = v
    BY DEF LockHeld
  <2>1. v # w /\ Locked(v) /\ job'[v] = job[v]
    BY <1>17 DEF LockError, NextLoop, Goto
  <2>2. lock[job[v]] = v /\ v # Free
    BY <2>1
  <2>. QED
    BY <1>17, <2>1, <2>2 DEF LockError, LockIsFree
<1>18. ASSUME NEW w \in Workers, MarkError(w) PROVE LockHeld'
  BY <1>18 DEF MarkError, Goto, Started, redisVars
<1>19. ASSUME NEW w \in Workers, PipelineError(w) PROVE LockHeld'
  BY <1>19 DEF PipelineError, Goto, redisVars
<1>20. ASSUME NEW w \in Workers, PersistError(w) PROVE LockHeld'
  BY <1>20, AfterPersistLock DEF PersistError, redisVars
<1>21. ASSUME NEW w \in Workers, CallbackError(w) PROVE LockHeld'
  BY <1>21 DEF CallbackError, NextLoop, Goto, redisVars
<1>22. ASSUME NEW h \in Hosts, Crash(h) PROVE LockHeld'
  BY <1>22 DEF Crash, redisVars
<1>23. ASSUME NEW h \in Hosts, Restart(h) PROVE LockHeld'
  BY <1>23 DEF Restart, redisVars
<1>24. ASSUME NEW j \in Jobs, OrphanLockExpires(j) PROVE LockHeld'
  <2> SUFFICES ASSUME NEW v \in Workers, Locked(v)'
               PROVE  lock'[job'[v]] = v
    BY DEF LockHeld
  <2>1. Locked(v) /\ job'[v] = job[v]
    BY <1>24 DEF OrphanLockExpires, workerVars
  <2>2. lock[job[v]] = v /\ job[v] # j
    BY <1>24, <2>1 DEF OrphanLockExpires, Owns
  <2>. QED
    BY <1>24, <2>1, <2>2 DEF OrphanLockExpires
<1>25. ASSUME NEW j \in Jobs, LiveLockExpires(j) PROVE LockHeld'
  BY <1>25 DEF LiveLockExpires, Disrupt, redisVars
<1>26. ASSUME NEW c \in Clients,
              \/ \E j \in Jobs : Submit(c, j)
              \/ Retry(c) \/ ClientStep(c) \/ EnqueuePersistError(c) \/ Abort(c)
       PROVE  UNCHANGED <<pc, job, rec, lock>>
  BY <1>26 DEF Submit, Retry, ClientStep, ResetRow, EnqueueSet, EnqueuePush,
       EnqueuePersist, ProjectStatus, EnqueuePersistError, Abort, redisVars, workerVars
<1>27. ASSUME NEW w \in Workers, WorkerStep(w) \/ RedisFault(w) \/ PostgresFault(w)
       PROVE  LockHeld'
  BY <1>27, <1>2, <1>3, <1>4, <1>5, <1>6, <1>7, <1>8, <1>9, <1>10, <1>11, <1>12,
     <1>13, <1>14, <1>15, <1>16, <1>17, <1>18, <1>19, <1>20, <1>21
     DEF WorkerStep, RedisFault, PostgresFault
<1>28. ASSUME \/ \E h \in Hosts : Stop(h)
              \/ \E j \in Jobs : DataExpires(j)
              \/ UNCHANGED vars
       PROVE  UNCHANGED <<pc, job, rec, lock>>
  BY <1>28 DEF Stop, DataExpires, redisVars, workerVars, vars
<1>. QED
  BY <1>1, <1>22, <1>23, <1>24, <1>25, <1>26, <1>27, <1>28 DEF Next

\* Whoever relies on a lock set it, in every behaviour in which a handler
\* returns before the TTL of its lock ends.
THEOREM LockOwnership ==
    ASSUME "liveLockExpires" \notin Disruptions
    PROVE  Spec => []LockHeld
<1>1. Init => SettledCopy /\ LockHeld
  BY DEF Init, SettledCopy, LockHeld, Locked
<1>. QED
  BY <1>1, SettledStep, LockStep, TypeCorrect, PTL DEF Spec

\* Two workers never process the same job at once, although ids may be queued
\* twice, processes crash and Redis fails.
THEOREM MutualExclusion ==
    ASSUME "liveLockExpires" \notin Disruptions
    PROVE  Spec => []OneWorkerPerJob
<1>1. LockHeld => OneWorkerPerJob
  BY DEF LockHeld, OneWorkerPerJob
<1>. QED
  BY <1>1, LockOwnership, PTL

-----------------------------------------------------------------------------
(* One worker loses nothing.                                               *)

SingleWorker == \A v, w \in Workers : v = w
NothingIsCut == Disruptions \cap {"crash", "redis", "client"} = {}

\* A lock is there only for a worker that relies on it.
LockInUse == \A j \in Jobs : lock[j] # Free => \E w \in Workers : Owns(w, j)

\* A step of the only worker keeps that, and so its own locks never stop it.
LEMMA LockInUseStep ==
    ASSUME SingleWorker, NothingIsCut
    PROVE  TypeOK /\ LockInUse /\ [Next]_vars => LockInUse'
<1> SUFFICES ASSUME TypeOK, LockInUse, [Next]_vars PROVE LockInUse'
  OBVIOUS
<1> USE RedisQueueAssumption
    DEF TypeOK, WorkersTypeOK, StoresTypeOK, LockInUse, Owns, Locked, redisVars, Goto
<1>1. CASE UNCHANGED <<pc, job, rec, lock>>
  BY <1>1
<1>2. ASSUME NEW w \in Workers, WorkerStep(w) \/ PostgresFault(w) PROVE LockInUse'
  <2>1. \A v \in Workers : v = w
    BY DEF SingleWorker
  <2>2. \A j \in Jobs : lock[j] # Free => Owns(w, j)
    BY <2>1
  <2>3. CASE AcquireLock(w)
    BY <2>2, <2>3 DEF AcquireLock, LockIsFree
  <2>4. CASE Pop(w) \/ PollTimeout(w) \/ Fetch(w) \/ SkipLocked(w) \/ Callback(w) \/ CallbackError(w)
    BY <2>2, <2>4 DEF Pop, PollTimeout, Fetch, SkipLocked, Callback, CallbackError
  <2>5. CASE MarkRunning(w)
    BY <2>2, <2>5 DEF MarkRunning, Started
  <2>6. CASE Persist(w) \/ PersistError(w)
    <3>1. UNCHANGED lock /\ pc[w] = "persist" /\ AfterPersist(w)
      BY <2>6 DEF Persist, PersistError
    <3>2. CASE rec[w].status = "RUNNING"
      BY <2>2, <3>1, <3>2 DEF AfterPersist
    <3>3. CASE rec[w].status # "RUNNING"
      BY <2>2, <3>1, <3>3
    <3> QED
      BY <3>2, <3>3
  <2>7. CASE Run(w) \/ CompleteGet(w) \/ FailGet(w)
    BY <2>2, <2>7 DEF Run, CompleteGet, FailGet
  <2>8. CASE SettleSet(w) \/ SettlePush(w)
    BY <2>2, <2>8 DEF SettleSet, AfterSet, SettlePush
  <2>9. CASE SettleDel(w)
    BY <2>2, <2>9 DEF SettleDel
  <2> QED
    BY <1>2, <2>3, <2>4, <2>5, <2>6, <2>7, <2>8, <2>9 DEF WorkerStep, PostgresFault
<1>3. ASSUME NEW w \in Workers, RedisFault(w) PROVE FALSE
  BY <1>3 DEF RedisFault, GetError, LockError, MarkError, PipelineError, Disrupt, NothingIsCut
<1>4. ASSUME NEW h \in Hosts, Crash(h) PROVE FALSE
  BY <1>4 DEF Crash, Disrupt, NothingIsCut
<1>5. ASSUME NEW h \in Hosts, Restart(h) PROVE LockInUse'
  <2>1. UNCHANGED <<job, rec, lock>> /\ \A w \in Workers : Locked(w) => pc'[w] = pc[w]
    BY <1>5 DEF Restart
  <2> QED
    BY <2>1
<1>6. ASSUME NEW j \in Jobs, OrphanLockExpires(j) \/ LiveLockExpires(j) PROVE LockInUse'
  <2>1. UNCHANGED <<pc, job, rec>> /\ lock' = [lock EXCEPT ![j] = Free]
    BY <1>6 DEF OrphanLockExpires, LiveLockExpires, workerVars
  <2>2. \A k \in Jobs : lock'[k] # Free => lock[k] # Free
    BY <2>1
  <2> QED
    BY <2>1, <2>2
<1>7. ASSUME NEW c \in Clients,
             \/ \E j \in Jobs : Submit(c, j)
             \/ Retry(c) \/ ClientStep(c) \/ EnqueuePersistError(c) \/ Abort(c)
      PROVE  UNCHANGED <<pc, job, rec, lock>>
  BY <1>7 DEF Submit, Retry, ClientStep, ResetRow, EnqueueSet, EnqueuePush,
       EnqueuePersist, ProjectStatus, EnqueuePersistError, Abort, workerVars
<1>8. ASSUME \/ \E h \in Hosts : Stop(h)
             \/ \E j \in Jobs : DataExpires(j)
             \/ UNCHANGED vars
      PROVE  UNCHANGED <<pc, job, rec, lock>>
  BY <1>8 DEF Stop, DataExpires, workerVars, vars
<1> QED
  BY <1>1, <1>2, <1>3, <1>4, <1>5, <1>6, <1>7, <1>8 DEF Next

\* Who has the id of job j: the queue, a worker or a client about to push it.
Kept(j) == Busy(j) \/ \E c \in Clients : cjob[c] = j /\ cpc[c] = "push"

\* A step that leaves the records and takes an id from nobody.
LEMMA IdsStay ==
    ASSUME NoLostJob, UNCHANGED data,
           \A j \in Jobs : data[j].status \in {"QUEUED", "RUNNING"} /\ Kept(j) => Kept(j)'
    PROVE  NoLostJob'
  BY DEF NoLostJob, Kept

\* What the queue holds after a push and a pop.
LEMMA IdsInQueue ==
    ASSUME TypeOK
    PROVE  /\ \A j \in Jobs : queue' = Append(queue, j) =>
                InQueue(j)' /\ \A k \in Jobs : InQueue(k) => InQueue(k)'
           /\ queue # <<>> /\ queue' = Tail(queue) =>
                \A k \in Jobs : InQueue(k) => k = Head(queue) \/ InQueue(k)'
<1>1. queue \in Seq(Jobs)
  BY DEF TypeOK, StoresTypeOK
<1>2. ASSUME NEW j \in Jobs, queue' = Append(queue, j)
      PROVE  InQueue(j)' /\ \A k \in Jobs : InQueue(k) => InQueue(k)'
  <2>1. Len(queue') = Len(queue) + 1 /\ Len(queue) \in Nat /\ queue'[Len(queue) + 1] = j
        /\ \A i \in 1..Len(queue) : queue'[i] = queue[i]
    BY <1>1, <1>2
  <2>2. Len(queue) + 1 \in 1..Len(queue') /\ 1..Len(queue) \subseteq 1..Len(queue')
    BY <2>1
  <2> QED
    BY <2>1, <2>2 DEF InQueue
<1>3. ASSUME queue # <<>>, queue' = Tail(queue), NEW k \in Jobs, InQueue(k), k # Head(queue)
      PROVE  InQueue(k)'
  <2>1. PICK i \in 1..Len(queue) : queue[i] = k
    BY <1>3 DEF InQueue
  <2>2. Len(queue') = Len(queue) - 1 /\ i # 1
    BY <1>1, <1>3, <2>1
  <2>3. i - 1 \in 1..Len(queue') /\ queue'[i - 1] = queue[i]
    BY <1>1, <1>3, <2>1, <2>2
  <2> QED
    BY <2>1, <2>3 DEF InQueue
<1> QED
  BY <1>2, <1>3

\* While the queue and the clients keep their ids, only those of the worker count.
LEMMA WorkerIds ==
    ASSUME SingleWorker, NEW w \in Workers, UNCHANGED <<queue, cpc, cjob>>,
           NEW j \in Jobs, Kept(j), Carries(w, j) => Carries(w, j)'
    PROVE  Kept(j)'
<1>1. CASE InQueue(j)
  BY <1>1 DEF Kept, Busy, InQueue
<1>2. CASE \E c \in Clients : cjob[c] = j /\ cpc[c] = "push"
  BY <1>2 DEF Kept
<1>3. ASSUME NEW v \in Workers, Carries(v, j) PROVE Kept(j)'
  <2>1. v = w
    BY DEF SingleWorker
  <2>2. Carries(w, j)'
    BY <1>3, <2>1
  <2> QED
    BY <2>2 DEF Kept, Busy
<1> QED
  BY <1>1, <1>2, <1>3 DEF Kept, Busy

\* A step of the only worker loses no id.
LEMMA WorkerLosesNothing ==
    ASSUME SingleWorker, TypeOK, SettledCopy, LockInUse, NoLostJob,
           NEW w \in Workers, WorkerStep(w) \/ PostgresFault(w)
    PROVE  NoLostJob'
<1> USE DEF redisVars, clientVars, Goto
<1>0. /\ pc \in [Workers -> WorkerPc] /\ job \in [Workers -> Jobs \cup {NoJob}]
      /\ rec \in [Workers -> Record] /\ data \in [Jobs -> Record]
  BY DEF TypeOK, WorkersTypeOK, StoresTypeOK
<1>1. CASE Pop(w)
  <2>1. /\ pc[w] = "poll" /\ pc'[w] = "fetch" /\ job'[w] = Head(queue)
        /\ UNCHANGED <<data, cpc, cjob>> /\ queue # <<>> /\ queue' = Tail(queue)
    BY <1>0, <1>1 DEF Pop
  <2>2. ASSUME NEW j \in Jobs, Kept(j) PROVE Kept(j)'
    <3>1. CASE InQueue(j) /\ j # Head(queue)
      <4>1. InQueue(j)'
        BY <2>1, <3>1, IdsInQueue
      <4> QED
        BY <4>1 DEF Kept, Busy
    <3>2. CASE j = Head(queue)
      <4>1. Carries(w, j)'
        BY <2>1, <3>2 DEF Carries
      <4> QED
        BY <4>1 DEF Kept, Busy
    <3>3. ~\E v \in Workers : Carries(v, j)
      BY <2>1 DEF SingleWorker, Carries
    <3>4. CASE \E c \in Clients : cjob[c] = j /\ cpc[c] = "push"
      BY <2>1, <3>4 DEF Kept
    <3> QED
      BY <2>2, <3>1, <3>2, <3>3, <3>4 DEF Kept, Busy
  <2> QED
    BY <2>1, <2>2, IdsStay
<1>2. CASE SettlePush(w)
  <2>1. /\ job[w] \in Jobs /\ queue' = Append(queue, job[w]) /\ UNCHANGED <<data, cpc, cjob>>
    BY <1>0, <1>2 DEF SettlePush, TypeOK, WorkersTypeOK
  <2>2. ASSUME NEW j \in Jobs, Kept(j) PROVE Kept(j)'
    <3>1. CASE InQueue(j) \/ j = job[w]
      <4>1. InQueue(j)'
        BY <2>1, <3>1, IdsInQueue
      <4> QED
        BY <4>1 DEF Kept, Busy
    <3>2. CASE \E v \in Workers : Carries(v, j)
      BY <3>1, <3>2 DEF SingleWorker, Carries
    <3>3. CASE \E c \in Clients : cjob[c] = j /\ cpc[c] = "push"
      BY <2>1, <3>3 DEF Kept
    <3> QED
      BY <2>2, <3>1, <3>2, <3>3 DEF Kept, Busy
  <2> QED
    BY <2>1, <2>2, IdsStay
<1>3. CASE SkipLocked(w)
  <2>1. /\ pc[w] = "lock" /\ job[w] \in Jobs /\ lock[job[w]] # Free
    BY <1>0, <1>3 DEF SkipLocked, LockIsFree, TypeOK, WorkersTypeOK
  <2> QED
    BY <2>1 DEF LockInUse, SingleWorker, Owns, Locked
<1>4. CASE MarkRunning(w)
  <2>1. /\ pc'[w] = "persist" /\ rec'[w].status = "RUNNING" /\ job' = job
        /\ UNCHANGED <<queue, cpc, cjob>>
        /\ \A j \in Jobs : j # job[w] => data'[j] = data[j]
    BY <1>0, <1>4 DEF MarkRunning, Started
  <2>2. Carries(w, job[w])'
    BY <2>1 DEF Carries
  <2>3. ASSUME NEW j \in Jobs, data'[j].status \in {"QUEUED", "RUNNING"} PROVE Kept(j)'
    <3>1. CASE j = job[w]
      BY <2>1, <3>1 DEF Kept, Busy, Carries
    <3>2. CASE j # job[w]
      <4>1. Kept(j) /\ ~Carries(w, j)
        BY <2>1, <2>3, <3>2 DEF NoLostJob, Kept, Carries
      <4> QED
        BY <2>1, <4>1, WorkerIds
    <3> QED
      BY <3>1, <3>2
  <2> QED
    BY <2>3 DEF NoLostJob, Kept
<1>5. CASE SettleSet(w)
  <2>1. /\ job[w] \in Jobs /\ job' = job /\ rec' = rec /\ pc'[w] = AfterSet(rec[w])
        /\ UNCHANGED <<queue, cpc, cjob>>
        /\ data'[job[w]] = rec[w] /\ rec[w].status # "RUNNING"
        /\ \A j \in Jobs : j # job[w] => data'[j] = data[j]
    BY <1>0, <1>5 DEF SettleSet, TypeOK, WorkersTypeOK, SettledCopy
  <2>2. ASSUME NEW j \in Jobs, data'[j].status \in {"QUEUED", "RUNNING"} PROVE Kept(j)'
    <3>1. CASE j = job[w]
      BY <2>1, <2>2, <3>1 DEF Kept, Busy, Carries, AfterSet
    <3>2. CASE j # job[w]
      <4>1. Kept(j) /\ ~Carries(w, j)
        BY <2>1, <2>2, <3>2 DEF NoLostJob, Kept, Carries
      <4> QED
        BY <2>1, <4>1, WorkerIds
    <3> QED
      BY <3>1, <3>2
  <2> QED
    BY <2>2 DEF NoLostJob, Kept
<1>6. CASE \/ PollTimeout(w) \/ Fetch(w) \/ AcquireLock(w) \/ Persist(w) \/ Run(w)
           \/ CompleteGet(w) \/ FailGet(w) \/ SettleDel(w) \/ Callback(w)
           \/ PostgresFault(w)
  <2>1. UNCHANGED <<queue, data, cpc, cjob>>
    BY <1>6 DEF PollTimeout, Fetch, AcquireLock, Persist, Run, CompleteGet, FailGet,
         SettleDel, Callback, PostgresFault, PersistError, CallbackError
  <2>2. ASSUME NEW j \in Jobs, data[j].status \in {"QUEUED", "RUNNING"}, Carries(w, j)
        PROVE  Carries(w, j)'
    <3>1. pc[w] \notin {"poll", "del", "callback"} /\ job[w] = j
      BY <2>2 DEF Carries
    <3>2. CASE Fetch(w)
      BY <1>0, <2>2, <3>1, <3>2 DEF Fetch, Carries, NoRecord
    <3>3. CASE AcquireLock(w)
      BY <1>0, <3>1, <3>3 DEF AcquireLock, Carries
    <3>4. CASE Persist(w) \/ PersistError(w)
      <4>1. pc[w] = "persist" /\ rec[w].status = "RUNNING" /\ AfterPersist(w)
        BY <2>2, <3>4 DEF Persist, PersistError, Carries
      <4> QED
        BY <1>0, <3>1, <4>1 DEF AfterPersist, Carries
    <3>5. CASE Run(w)
      BY <1>0, <3>1, <3>5 DEF Run, Carries
    <3>6. CASE CompleteGet(w) \/ FailGet(w)
      BY <1>0, <3>1, <3>6 DEF CompleteGet, FailGet, Carries
    <3>7. CASE PollTimeout(w) \/ SettleDel(w) \/ Callback(w) \/ CallbackError(w)
      BY <3>1, <3>7 DEF PollTimeout, SettleDel, Callback, CallbackError
    <3> QED
      BY <1>6, <3>2, <3>3, <3>4, <3>5, <3>6, <3>7 DEF PostgresFault
  <2>3. ASSUME NEW j \in Jobs, data[j].status \in {"QUEUED", "RUNNING"}, Kept(j)
        PROVE  Kept(j)'
    BY <2>1, <2>2, <2>3, WorkerIds
  <2> QED
    BY <2>1, <2>3, IdsStay
<1> QED
  BY <1>1, <1>2, <1>3, <1>4, <1>5, <1>6 DEF WorkerStep

\* Nor does a client that is not cut off.
LEMMA ClientsLoseNothing ==
    ASSUME TypeOK, NoLostJob, NEW c \in Clients,
           \/ \E j \in Jobs : Submit(c, j)
           \/ Retry(c) \/ ClientStep(c) \/ EnqueuePersistError(c)
    PROVE  NoLostJob'
<1> USE DEF redisVars, workerVars, ClientGoto
<1>0. /\ cpc \in [Clients -> ClientPc] /\ cjob \in [Clients -> Jobs \cup {NoJob}]
      /\ data \in [Jobs -> Record]
  BY DEF TypeOK, ClientsTypeOK, StoresTypeOK
<1>1. ASSUME UNCHANGED <<queue, pc, job, rec>>, NEW j \in Jobs, Kept(j),
             \A d \in Clients :
                 cjob[d] = j /\ cpc[d] = "push" => cjob'[d] = j /\ cpc'[d] = "push"
      PROVE  Kept(j)'
  BY <1>1 DEF Kept, Busy, InQueue, Carries
<1>2. CASE EnqueueSet(c)
  <2>1. /\ cpc[c] = "set" /\ cjob' = cjob /\ cpc' = [cpc EXCEPT ![c] = "push"]
        /\ UNCHANGED <<queue, pc, job, rec>>
        /\ \A j \in Jobs : j # cjob[c] => data'[j] = data[j]
    BY <1>0, <1>2 DEF EnqueueSet
  <2>2. \A d \in Clients : cpc[d] = "push" => cpc'[d] = "push"
    BY <1>0, <2>1
  <2>3. ASSUME NEW j \in Jobs, data'[j].status \in {"QUEUED", "RUNNING"} PROVE Kept(j)'
    <3>1. CASE j = cjob[c]
      BY <1>0, <2>1, <3>1 DEF Kept
    <3>2. CASE j # cjob[c]
      <4>1. Kept(j)
        BY <2>1, <2>3, <3>2 DEF NoLostJob, Kept
      <4> QED
        BY <1>1, <2>1, <2>2, <4>1
    <3> QED
      BY <3>1, <3>2
  <2> QED
    BY <2>3 DEF NoLostJob, Kept
<1>3. CASE EnqueuePush(c)
  <2>1. /\ cpc[c] = "push" /\ cjob[c] \in Jobs /\ cjob' = cjob
        /\ cpc' = [cpc EXCEPT ![c] = "persist"]
        /\ queue' = Append(queue, cjob[c]) /\ UNCHANGED <<data, pc, job, rec>>
    BY <1>3, <1>0 DEF EnqueuePush, TypeOK, ClientsTypeOK
  <2>2. ASSUME NEW j \in Jobs, Kept(j) PROVE Kept(j)'
    <3>1. CASE InQueue(j) \/ j = cjob[c]
      <4>1. InQueue(j)'
        BY <2>1, <3>1, IdsInQueue
      <4> QED
        BY <4>1 DEF Kept, Busy
    <3>2. CASE \E v \in Workers : Carries(v, j)
      BY <2>1, <3>2 DEF Kept, Busy, Carries
    <3>3. ASSUME NEW d \in Clients, cjob[d] = j, cpc[d] = "push", j # cjob[c] PROVE Kept(j)'
      <4>1. d # c /\ cpc'[d] = "push"
        BY <1>0, <2>1, <3>3
      <4> QED
        BY <2>1, <3>3, <4>1 DEF Kept
    <3> QED
      BY <2>2, <3>1, <3>2, <3>3 DEF Kept, Busy
  <2> QED
    BY <2>1, <2>2, IdsStay
<1>4. CASE \/ \E j \in Jobs : Submit(c, j)
           \/ Retry(c) \/ ResetRow(c) \/ EnqueuePersist(c) \/ ProjectStatus(c)
           \/ EnqueuePersistError(c)
  <2>1. UNCHANGED <<queue, data, pc, job, rec>> /\ cpc[c] # "push"
    BY <1>4 DEF Submit, Retry, ResetRow, EnqueuePersist, ProjectStatus, EnqueuePersistError
  <2>2. \A d \in Clients : d # c => cjob'[d] = cjob[d] /\ cpc'[d] = cpc[d]
    BY <1>0, <1>4 DEF Submit, Retry, ResetRow, EnqueuePersist, ProjectStatus,
         EnqueuePersistError, AfterEnqueue
  <2>3. \A j \in Jobs : Kept(j) => Kept(j)'
    BY <1>1, <2>1, <2>2
  <2> QED
    BY <2>1, <2>3, IdsStay
<1> QED
  BY <1>2, <1>3, <1>4 DEF ClientStep

\* Nothing is accepted and then forgotten by one worker, whatever clients ask at
\* once and whichever rows are not written, keys expire and stops come, as long
\* as Redis answers and neither the worker nor a request is cut off (Enqueue,
\* Dequeue, Complete and Fail of redis_queue.go).  Two workers do lose jobs.
THEOREM NothingIsLost ==
    ASSUME SingleWorker, NothingIsCut
    PROVE  Spec => []NoLostJob
<1>1. Init => SettledCopy /\ LockInUse /\ NoLostJob
  BY DEF Init, SettledCopy, LockInUse, NoLostJob, NoRecord
<1>2. ASSUME TypeOK, SettledCopy, LockInUse, NoLostJob, [Next]_vars PROVE NoLostJob'
  <2> USE <1>2
  <2>1. ASSUME NEW w \in Workers, WorkerStep(w) \/ PostgresFault(w) PROVE NoLostJob'
    BY <2>1, WorkerLosesNothing
  <2>2. ASSUME NEW c \in Clients,
               \/ \E j \in Jobs : Submit(c, j)
               \/ Retry(c) \/ ClientStep(c) \/ EnqueuePersistError(c)
        PROVE  NoLostJob'
    BY <2>2, ClientsLoseNothing
  <2>3. ASSUME \/ \E w \in Workers : RedisFault(w)
               \/ \E h \in Hosts : Crash(h)
               \/ \E c \in Clients : Abort(c)
        PROVE  FALSE
    BY <2>3 DEF RedisFault, GetError, LockError, MarkError, PipelineError, Crash, Abort,
         Disrupt, NothingIsCut
  <2>4. ASSUME NEW h \in Hosts, Restart(h) PROVE NoLostJob'
    <3>1. /\ UNCHANGED <<queue, data, cpc, cjob, job, rec>>
          /\ \A v \in Workers : pc[v] # "stopped" => pc'[v] = pc[v]
      BY <2>4 DEF Restart, redisVars, clientVars, TypeOK, WorkersTypeOK
    <3>2. \A j \in Jobs : Kept(j) => Kept(j)'
      BY <3>1 DEF Kept, Busy, InQueue, Carries
    <3> QED
      BY <3>1, <3>2, IdsStay
  <2>5. CASE \/ \E h \in Hosts : Stop(h)
             \/ \E j \in Jobs : OrphanLockExpires(j) \/ LiveLockExpires(j)
             \/ UNCHANGED vars
    <3>1. UNCHANGED <<queue, data, cpc, cjob, pc, job, rec>>
      BY <2>5 DEF Stop, OrphanLockExpires, LiveLockExpires, vars, redisVars, workerVars, clientVars
    <3> QED
      BY <3>1 DEF NoLostJob, Busy, InQueue, Carries
  <2>6. ASSUME NEW j \in Jobs, DataExpires(j) PROVE NoLostJob'
    <3>1. /\ UNCHANGED <<queue, cpc, cjob, pc, job, rec>>
          /\ data' = [data EXCEPT ![j] = NoRecord]
      BY <2>6 DEF DataExpires, workerVars, clientVars
    <3>2. \A k \in Jobs : data'[k].status \in {"QUEUED", "RUNNING"} => data'[k] = data[k]
      BY <3>1 DEF TypeOK, StoresTypeOK, NoRecord
    <3> QED
      BY <3>1, <3>2 DEF NoLostJob, Busy, InQueue, Carries
  <2> QED
    BY <2>1, <2>2, <2>3, <2>4, <2>5, <2>6 DEF Next
<1> QED
  BY <1>1, <1>2, SettledStep, LockInUseStep, TypeCorrect, PTL DEF Spec

===============================================================================
