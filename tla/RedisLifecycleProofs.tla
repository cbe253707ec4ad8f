------------------------- MODULE RedisLifecycleProofs -------------------------
(***************************************************************************)
(* Proof that the records in Redis go through the life JobLifecycle draws, *)
(* for any number of jobs and workers, any MaxAttempts and any crashes,    *)
(* stops, failed row writes, aborted requests and expired locks, as long   *)
(* as one client at a time enqueues and retries and Redis answers.         *)
(*                                                                         *)
(* A job has one token: its id in the queue, or the worker that popped it  *)
(* until it settles the job or pushes the id again, or the client about to *)
(* push it.  Only who has the token changes the record.  The rows follow   *)
(* later, but a FAILED one only once there is no token left, so that       *)
(* RetryProject makes no second one.                                       *)
(***************************************************************************)
EXTENDS RedisQueueProofs

-----------------------------------------------------------------------------
(* The inductive invariant.                                                *)

\* Worker w will still run its job, settle it or hand its id back to the queue.
Carrying(w) ==
    \/ pc[w] \in {"fetch", "lock", "mark", "run", "complete", "fail", "set", "push"}
    \/ pc[w] = "persist" /\ rec[w].status = "RUNNING"

\* Worker w will still write a FAILED row.
Reporting(w) == pc[w] \in {"del", "persist"} /\ rec[w].status = "FAILED"

\* What the record of job j says of its runs.
Counts(j) ==
    /\ data[j].attempts <= MaxAttempts /\ runs[j] <= data[j].attempts
    /\ data[j].status = "NONE" => data[j].attempts = 0
    /\ data[j].status = "QUEUED" =>
         data[j].attempts < MaxAttempts /\ runs[j] = data[j].attempts
    /\ data[j].status = "FAILED" =>
         data[j].attempts = MaxAttempts /\ runs[j] = MaxAttempts

RecordsInv == \A j \in Jobs : Counts(j)

\* A job has one token: its id in the queue, or a worker, or a client that will
\* push it; while there is one the record is QUEUED or RUNNING.
Once(q) == \A i, k \in 1..Len(q) : q[i] = q[k] => i = k

TokenInv ==
    /\ Once(queue)
    /\ \A j \in Jobs : InQueue(j) => data[j].status = "QUEUED"
    /\ \A w \in Workers : Carrying(w) => ~InQueue(job[w])
    /\ \A v, w \in Workers : Carrying(v) /\ Carrying(w) /\ job[v] = job[w] => v = w
    /\ \A c \in Clients :
         cpc[c] = "push" =>
             /\ data[cjob[c]].status = "QUEUED"
             /\ ~InQueue(cjob[c])
             /\ \A w \in Workers : Carrying(w) => job[w] # cjob[c]

\* What the copy of worker w and the step it is at say of the record.
Copy(w) ==
    /\ pc[w] \in {"fetch", "lock", "mark", "push"} => data[job[w]].status = "QUEUED"
    /\ pc[w] \in {"lock", "mark"} => rec[w] = data[job[w]]
    /\ pc[w] = "run" => rec[w].status = "RUNNING"
    /\ pc[w] \in {"persist", "run"} /\ rec[w].status = "RUNNING" =>
         data[job[w]].status = "RUNNING" /\ runs[job[w]] + 1 = data[job[w]].attempts
    /\ pc[w] \in {"complete", "fail", "set"} =>
         data[job[w]].status = "RUNNING" /\ runs[job[w]] = data[job[w]].attempts
    /\ pc[w] = "set" =>
         /\ rec[w].attempts = data[job[w]].attempts
         /\ rec[w].status \in {"QUEUED", "SUCCEEDED", "FAILED"}
         /\ rec[w].status = "QUEUED" => rec[w].attempts < MaxAttempts
         /\ rec[w].status = "FAILED" => rec[w].attempts = MaxAttempts
    /\ pc[w] = "push" => rec[w].status = "QUEUED"
    /\ pc[w] = "del" => rec[w].status \in {"QUEUED", "SUCCEEDED", "FAILED"}
    /\ pc[w] = "persist" => rec[w].status # "NONE"

CopyInv == \A w \in Workers : Copy(w)

\* A row is FAILED, or about to be, only while its record is and nobody retries
\* it; the row of a job nobody submitted is empty.
RowInv ==
    /\ \A j \in Jobs :
         /\ db[j].status = "FAILED" => data[j].status = "FAILED"
         /\ db[j].status = "NONE" =>
              data[j].status = "NONE" /\ \A w \in Workers : job[w] # j
    /\ \A w \in Workers :
         Reporting(w) => data[job[w]].status = "FAILED" /\ db[job[w]].status # "FAILED"
    /\ \A v, w \in Workers : Reporting(v) /\ Reporting(w) /\ job[v] = job[w] => v = w

ClientInv ==
    \A c \in Clients :
        /\ cpc[c] = "set" =>
             /\ data[cjob[c]].status \in {"NONE", "FAILED"}
             /\ db[cjob[c]].status \notin {"NONE", "FAILED"}
             /\ \A w \in Workers : Reporting(w) => job[w] # cjob[c]
             /\ cjob[c] \notin todo[c]
        /\ cpc[c] \in {"idle", "project"} => todo[c] = {}
        /\ \A j \in todo[c] :
             /\ data[j].status = "FAILED" /\ db[j].status # "NONE"
             /\ \A w \in Workers : Reporting(w) => job[w] # j

LifeInv == RecordsInv /\ TokenInv /\ CopyInv /\ RowInv /\ ClientInv

-----------------------------------------------------------------------------
(* Each step keeps the invariant.                                          *)

\* The parts of a record, and the job of a worker or client that has one.
LEMMA Typing ==
    ASSUME TypeOK
    PROVE  /\ \A j \in Jobs : data[j] \in Record /\ db[j] \in Record /\ runs[j] \in Nat
           /\ \A w \in Workers : pc[w] \in WorkerPc /\ rec[w] \in Record
           /\ \A w \in Workers : pc[w] \notin {"poll", "stopped"} => job[w] \in Jobs
           /\ \A w \in Workers : pc[w] \in {"poll", "stopped"} => job[w] = NoJob
           /\ \A c \in Clients : cpc[c] \in {"set", "push", "persist"} => cjob[c] \in Jobs
           /\ \A c \in Clients : todo[c] \subseteq Jobs
  BY DEF TypeOK, WorkersTypeOK, ClientsTypeOK, StoresTypeOK, WorkerPc, ClientPc

\* Push of an id that is not in the queue.
LEMMA PushOnce ==
    ASSUME NEW q \in Seq(Jobs), NEW j \in Jobs, Once(q), \A i \in 1..Len(q) : q[i] # j
    PROVE  Once(Append(q, j))
  BY DEF Once

\* What is in the queue after a push.
LEMMA PushIn ==
    ASSUME NEW q \in Seq(Jobs), NEW j \in Jobs, NEW k
    PROVE  (\E i \in 1..Len(Append(q, j)) : Append(q, j)[i] = k)
              <=> k = j \/ \E i \in 1..Len(q) : q[i] = k
<1>1. CASE k = j
  <2>1. Len(q) + 1 \in 1..Len(Append(q, j)) /\ Append(q, j)[Len(q) + 1] = j
    OBVIOUS
  <2> QED
    BY <1>1, <2>1
<1>2. CASE k # j
  BY <1>2
<1> QED
  BY <1>1, <1>2

\* Pop: the oldest id is gone.
LEMMA PopOnce ==
    ASSUME NEW q \in Seq(Jobs), q # <<>>, Once(q)
    PROVE  /\ Once(Tail(q))
           /\ Head(q) \in Jobs
           /\ \E i \in 1..Len(q) : q[i] = Head(q)
           /\ \A i \in 1..Len(Tail(q)) : Tail(q)[i] # Head(q)
           /\ \A k : (\E i \in 1..Len(Tail(q)) : Tail(q)[i] = k) => \E i \in 1..Len(q) : q[i] = k
<1>1. /\ Len(q) \in Nat \ {0} /\ Len(Tail(q)) = Len(q) - 1 /\ Head(q) = q[1]
      /\ \A i \in 1..Len(Tail(q)) : Tail(q)[i] = q[i + 1]
  OBVIOUS
<1> QED
  BY <1>1 DEF Once

\* A step of worker w that leaves the records of the other jobs leaves the
\* copies of the other workers true.
LEMMA OtherCopies ==
    ASSUME TypeOK, LifeInv, NEW w \in Workers, NEW v \in Workers, v # w, Carrying(w),
           pc'[v] = pc[v], job'[v] = job[v], rec'[v] = rec[v],
           \A j \in Jobs : j # job[w] => data'[j] = data[j] /\ runs'[j] = runs[j]
    PROVE  Copy(v)'
<1> USE Typing DEF LifeInv, TokenInv, CopyInv, Copy, Carrying, WorkerPc
<1>1. CASE Carrying(v)
  BY <1>1
<1>2. CASE ~Carrying(v)
  BY <1>2
<1> QED
  BY <1>1, <1>2

\* A worker that does not move keeps a true copy while no record changes.
LEMMA SameCopies ==
    ASSUME LifeInv, NEW v \in Workers, pc'[v] = pc[v], job'[v] = job[v], rec'[v] = rec[v],
           UNCHANGED <<data, runs>>
    PROVE  Copy(v)'
  BY DEF LifeInv, CopyInv, Copy

\* Worker w goes back to the top of its loop.
LEMMA NextLoopKeeps ==
    ASSUME TypeOK, LifeInv, NEW w \in Workers, NextLoop(w),
           UNCHANGED <<queue, data, db, runs, clientVars>>
    PROVE  LifeInv'
<1>1. /\ pc'[w] \in {"poll", "stopped"} /\ job'[w] = NoJob
      /\ \A v \in Workers : v # w => pc'[v] = pc[v] /\ job'[v] = job[v] /\ rec'[v] = rec[v]
  BY DEF NextLoop, Goto, TypeOK, WorkersTypeOK
<1>2. \A v \in Workers :
        /\ Carrying(v)' => v # w /\ Carrying(v) /\ job'[v] = job[v]
        /\ Reporting(v)' => v # w /\ Reporting(v) /\ job'[v] = job[v]
  BY <1>1 DEF Carrying, Reporting
<1> USE DEF LifeInv, clientVars
<1>3. RecordsInv'
  BY DEF RecordsInv, Counts
<1>4. TokenInv'
  BY <1>2 DEF TokenInv, InQueue
<1>5. CopyInv'
  <2>1. Copy(w)'
    BY <1>1 DEF Copy
  <2> QED
    BY <1>1, <2>1, SameCopies DEF CopyInv
<1>6. RowInv'
  BY <1>1, <1>2, RedisQueueAssumption DEF RowInv
<1>7. ClientInv'
  BY <1>2 DEF ClientInv
<1> QED
  BY <1>3, <1>4, <1>5, <1>6, <1>7

\* Worker w goes on after a row was written, or not.
LEMMA AfterPersistKeeps ==
    ASSUME TypeOK, LifeInv, NEW w \in Workers, pc[w] = "persist", AfterPersist(w),
           UNCHANGED <<queue, data, runs, clientVars>>,
           db' = db \/ db' = [db EXCEPT ![job[w]] = rec[w]]
    PROVE  LifeInv'
<1> USE DEF LifeInv, clientVars
<1>1. /\ job[w] \in Jobs /\ rec[w].status # "NONE"
      /\ \A v \in Workers : v # w => pc'[v] = pc[v] /\ job'[v] = job[v] /\ rec'[v] = rec[v]
      /\ \/ pc'[w] = "run" /\ rec[w].status = "RUNNING" /\ job'[w] = job[w] /\ rec'[w] = rec[w]
         \/ pc'[w] = "callback" /\ rec[w].status = "FAILED" /\ job'[w] = job[w]
         \/ pc'[w] \in {"poll", "stopped"} /\ job'[w] = NoJob
  BY DEF AfterPersist, NextLoop, Goto, TypeOK, WorkersTypeOK, CopyInv, Copy
<1>2. \A v \in Workers :
        /\ Carrying(v)' => Carrying(v) /\ job'[v] = job[v]
        /\ Reporting(v)' => v # w /\ Reporting(v) /\ job'[v] = job[v]
        /\ job'[v] \in Jobs => job'[v] = job[v]
  <2>1. NoJob \notin Jobs
    BY RedisQueueAssumption
  <2> QED
    BY <1>1, <2>1 DEF Carrying, Reporting
<1>3. \A j \in Jobs : db'[j] = db[j] \/ (j = job[w] /\ db'[j] = rec[w])
  <2>1. CASE db' = db
    BY <2>1
  <2>2. CASE db' = [db EXCEPT ![job[w]] = rec[w]]
    BY <2>2 DEF TypeOK, StoresTypeOK
  <2> QED
    BY <2>1, <2>2
<1>4. RecordsInv'
  BY DEF RecordsInv, Counts
<1>5. TokenInv'
  BY <1>2 DEF TokenInv, InQueue
<1>6. CopyInv'
  <2>1. Copy(w)'
    BY <1>1 DEF CopyInv, Copy
  <2> QED
    BY <1>1, <2>1, SameCopies DEF CopyInv
<1>7. rec[w].status = "FAILED" => Reporting(w)
  BY DEF Reporting
<1>8. RowInv'
  <2>1. \A v \in Workers : Reporting(v) => job[v] \in Jobs
    BY Typing DEF Reporting
  <2>2. \A j \in Jobs : /\ db'[j].status = "FAILED" => data[j].status = "FAILED"
                        /\ db'[j].status = "NONE" => db[j].status = "NONE"
    BY <1>1, <1>3, <1>7 DEF RowInv
  <2>3. ASSUME NEW v \in Workers, Reporting(v)' PROVE db'[job[v]].status # "FAILED"
    BY <1>1, <1>2, <1>3, <1>7, <2>1, <2>3 DEF RowInv
  <2>4. ASSUME NEW j \in Jobs, db'[j].status = "NONE", NEW v \in Workers
        PROVE  data[j].status = "NONE" /\ job'[v] # j
    BY <1>2, <2>2, <2>4 DEF RowInv
  <2>5. ASSUME NEW v \in Workers, Reporting(v)' PROVE data[job'[v]].status = "FAILED"
    BY <1>2, <2>5 DEF RowInv
  <2>6. ASSUME NEW u \in Workers, NEW v \in Workers, Reporting(u)', Reporting(v)', job'[u] = job'[v]
        PROVE  u = v
    BY <1>2, <2>6 DEF RowInv
  <2>7. \A v \in Workers : Reporting(v)' => db'[job'[v]].status # "FAILED"
    BY <1>2, <2>3
  <2> QED
    BY <2>2, <2>4, <2>5, <2>6, <2>7 DEF RowInv
<1>9. ClientInv'
  <2>1. ASSUME NEW c \in Clients, cpc[c] = "set"
        PROVE  db'[cjob[c]].status \notin {"NONE", "FAILED"}
    <3>1. cjob[c] \in Jobs
      BY <2>1, Typing
    <3> QED
      BY <1>1, <1>3, <1>7, <2>1, <3>1 DEF ClientInv
  <2>2. ASSUME NEW c \in Clients, NEW j \in todo[c] PROVE db'[j].status # "NONE"
    BY <1>1, <1>3, Typing DEF ClientInv
  <2> QED
    BY <1>2, <2>1, <2>2 DEF ClientInv
<1> QED
  BY <1>4, <1>5, <1>6, <1>8, <1>9

\* BRPOP hands the token to the worker.
LEMMA PopStep ==
    ASSUME TypeOK, LifeInv, NEW w \in Workers, Pop(w)
    PROVE  LifeInv'
<1> USE DEF LifeInv, clientVars
<1>1. PICK j \in Jobs : j = Head(queue)
  <2>1. queue \in Seq(Jobs) /\ queue # <<>>
    BY DEF Pop, TypeOK, StoresTypeOK
  <2> QED
    BY <2>1
<1>2. /\ pc[w] = "poll" /\ pc'[w] = "fetch" /\ job'[w] = j
      /\ \A v \in Workers : v # w => pc'[v] = pc[v] /\ job'[v] = job[v] /\ rec'[v] = rec[v]
      /\ UNCHANGED <<data, db, runs, cpc, cjob, todo>>
  BY <1>1 DEF Pop, Goto, TypeOK, WorkersTypeOK
<1>3. Once(queue)' /\ InQueue(j) /\ ~InQueue(j)' /\ \A k : InQueue(k)' => InQueue(k)
  <2>1. queue \in Seq(Jobs) /\ queue # <<>> /\ queue' = Tail(queue) /\ Once(queue)
    BY DEF Pop, TypeOK, StoresTypeOK, TokenInv
  <2>2. /\ Once(Tail(queue))
        /\ \E i \in 1..Len(queue) : queue[i] = j
        /\ \A i \in 1..Len(Tail(queue)) : Tail(queue)[i] # j
        /\ \A k : (\E i \in 1..Len(Tail(queue)) : Tail(queue)[i] = k)
                   => \E i \in 1..Len(queue) : queue[i] = k
    BY <1>1, <2>1, PopOnce
  <2>3. Once(queue)'
    BY <2>1, <2>2 DEF Once
  <2>4. \A k : InQueue(k)' <=> \E i \in 1..Len(Tail(queue)) : Tail(queue)[i] = k
    BY <2>1 DEF InQueue
  <2> QED
    BY <2>2, <2>3, <2>4 DEF InQueue
<1>4. \A v \in Workers :
        /\ Carrying(v)' => v = w \/ (v # w /\ Carrying(v) /\ job'[v] = job[v])
        /\ Reporting(v)' => v # w /\ Reporting(v) /\ job'[v] = job[v]
  BY <1>2 DEF Carrying, Reporting
<1>5. data[j].status = "QUEUED"
  BY <1>3 DEF TokenInv
<1>6. RecordsInv'
  BY <1>2 DEF RecordsInv, Counts
<1>7. TokenInv'
  <2>1. \A v \in Workers : Carrying(v)' =>
           (v = w /\ job'[v] = j) \/ (Carrying(v) /\ job'[v] = job[v] /\ job[v] # j)
    BY <1>2, <1>3, <1>4 DEF TokenInv
  <2>2. \A v \in Workers : Carrying(v)' => ~InQueue(job[v])'
    BY <1>3, <2>1 DEF TokenInv, InQueue
  <2>3. \A u, v \in Workers : Carrying(u)' /\ Carrying(v)' /\ job'[u] = job'[v] => u = v
    BY <2>1 DEF TokenInv
  <2>4. \A c \in Clients : cpc[c] = "push" => cjob[c] # j
    BY <1>3 DEF TokenInv
  <2>5. \A c \in Clients :
          cpc[c] = "push" => \A v \in Workers : Carrying(v)' => job'[v] # cjob[c]
    BY <2>1, <2>4 DEF TokenInv
  <2> QED
    BY <1>2, <1>3, <2>2, <2>3, <2>5 DEF TokenInv, InQueue
<1>8. CopyInv'
  <2>1. Copy(w)'
    BY <1>2, <1>5 DEF Copy
  <2> QED
    BY <1>2, <2>1, SameCopies DEF CopyInv
<1>9. RowInv'
  <2>2. \A k \in Jobs, v \in Workers : data[k].status = "NONE" /\ job[v] # k => job'[v] # k
    BY <1>2, <1>5
  <2> QED
    BY <1>2, <1>4, <2>2 DEF RowInv
<1>10. ClientInv'
  BY <1>2, <1>4 DEF ClientInv
<1> QED
  BY <1>6, <1>7, <1>8, <1>9, <1>10

\* The worker with the token of job j changes nothing but its own state and the
\* record of j.
LEMMA CarrierKeeps ==
    ASSUME TypeOK, LifeInv, NEW w \in Workers, Carrying(w), NEW j \in Jobs, j = job[w],
           job' = job, UNCHANGED <<queue, db, clientVars>>,
           \A v \in Workers : v # w => pc'[v] = pc[v] /\ rec'[v] = rec[v],
           \A k \in Jobs : k # j => data'[k] = data[k] /\ runs'[k] = runs[k],
           Counts(j)', Copy(w)', Reporting(w)' => data'[j].status = "FAILED"
    PROVE  LifeInv'
<1> USE DEF LifeInv, clientVars
<1>1. data[j].status \in {"QUEUED", "RUNNING"}
  BY DEF Carrying, CopyInv, Copy
<1>2. \A v \in Workers :
        /\ Carrying(v)' => Carrying(v)
        /\ Reporting(v)' =>
             \/ v # w /\ Reporting(v) /\ job[v] # j
             \/ v = w /\ data'[j].status = "FAILED"
  <2>1. \A v \in Workers :
          v # w => (Carrying(v)' <=> Carrying(v)) /\ (Reporting(v)' <=> Reporting(v))
    BY DEF Carrying, Reporting
  <2>2. \A v \in Workers : Reporting(v) => job[v] # j
    BY <1>1 DEF RowInv
  <2> QED
    BY <2>1, <2>2
<1>3. RecordsInv'
  BY DEF RecordsInv, Counts
<1>4. ~InQueue(j) /\ \A k : InQueue(k)' <=> InQueue(k)
  BY DEF TokenInv, InQueue
<1>5. TokenInv'
  <2>1. \A c \in Clients : cpc[c] = "push" => cjob[c] \in Jobs \ {j}
    BY Typing DEF TokenInv
  <2>2. \A k \in Jobs : InQueue(k) => data'[k].status = "QUEUED"
    BY <1>4 DEF TokenInv
  <2>3. Once(queue')
    BY DEF TokenInv
  <2> QED
    BY <1>2, <2>1, <2>2, <2>3 DEF TokenInv, InQueue, Once
<1>6. CopyInv'
  BY OtherCopies DEF CopyInv
<1>7. RowInv'
  <2>1. db[j].status \notin {"FAILED", "NONE"}
    BY <1>1 DEF RowInv
  <2>2. \A v \in Workers : Reporting(v) => job[v] \in Jobs
    BY Typing DEF Reporting
  <2> QED
    BY <1>2, <2>1, <2>2 DEF RowInv
<1>8. ClientInv'
  <2>1. \A c \in Clients :
          /\ cpc[c] = "set" => cjob[c] \in Jobs \ {j}
          /\ todo[c] \subseteq Jobs \ {j}
    BY <1>1, Typing DEF ClientInv
  <2> QED
    BY <1>2, <2>1 DEF ClientInv
<1> QED
  BY <1>3, <1>5, <1>6, <1>7, <1>8

\* Steps of a worker between its steps at the queue.
LEMMA WorkerKeeps ==
    ASSUME TypeOK, LifeInv, NEW w \in Workers,
           \/ PollTimeout(w) \/ Fetch(w) \/ AcquireLock(w) \/ SkipLocked(w)
           \/ MarkRunning(w) \/ Persist(w) \/ Run(w) \/ CompleteGet(w) \/ FailGet(w)
           \/ SettleSet(w) \/ Callback(w) \/ PersistError(w) \/ CallbackError(w)
    PROVE  LifeInv'
<1> USE DEF redisVars, clientVars, boundVars
<1>1. CASE PollTimeout(w) \/ SkipLocked(w) \/ Callback(w) \/ CallbackError(w)
  BY <1>1, NextLoopKeeps DEF PollTimeout, SkipLocked, Callback, CallbackError
<1>2. CASE Fetch(w) /\ data[job[w]] = NoRecord
  BY <1>2, NextLoopKeeps DEF Fetch
<1>3. CASE Persist(w) \/ PersistError(w)
  BY <1>3, AfterPersistKeeps DEF Persist, PersistError
<1>4. CASE \/ Fetch(w) /\ data[job[w]] # NoRecord
           \/ AcquireLock(w) \/ MarkRunning(w) \/ Run(w) \/ CompleteGet(w) \/ FailGet(w)
           \/ SettleSet(w)
  <2>1. /\ Carrying(w) /\ pc[w] \in WorkerPc /\ rec[w] \in Record
        /\ job' = job /\ UNCHANGED <<queue, db, clientVars>>
    BY <1>4, Typing DEF Fetch, AcquireLock, MarkRunning, Run, CompleteGet, FailGet,
         SettleSet, Carrying
  <2>2. PICK j \in Jobs : j = job[w]
    BY <2>1, Typing DEF Carrying
  <2>3. /\ Counts(j) /\ Copy(w) /\ data[j] \in Record /\ runs[j] \in Nat
        /\ MaxAttempts \in Nat
    BY Typing, RedisQueueAssumption DEF LifeInv, RecordsInv, CopyInv
  <2>4. /\ \A v \in Workers : v # w => pc'[v] = pc[v] /\ rec'[v] = rec[v]
        /\ \A k \in Jobs : k # j => data'[k] = data[k] /\ runs'[k] = runs[k]
    BY <1>4, <2>2 DEF Fetch, AcquireLock, MarkRunning, Run, CompleteGet, FailGet,
         SettleSet, Goto, TypeOK, WorkersTypeOK, StoresTypeOK
  <2> SUFFICES Counts(j)' /\ Copy(w)' /\ (Reporting(w)' => data'[j].status = "FAILED")
    BY <2>1, <2>2, <2>4, CarrierKeeps
  <2> USE DEF Goto, TypeOK, WorkersTypeOK, StoresTypeOK, Record
  <2>5. CASE Fetch(w) /\ data[job[w]] # NoRecord
    BY <2>1, <2>2, <2>3, <2>5 DEF Fetch, Counts, Copy, Reporting
  <2>6. CASE AcquireLock(w)
    BY <2>1, <2>2, <2>3, <2>6 DEF AcquireLock, Counts, Copy, Reporting
  <2>7. CASE MarkRunning(w)
    <3>1. /\ pc'[w] = "persist" /\ rec'[w] = Started(rec[w]) /\ data'[j] = rec'[w]
          /\ runs'[j] = runs[j]
      BY <2>2, <2>7 DEF MarkRunning
    <3>2. /\ rec'[w].status = "RUNNING" /\ rec'[w].attempts = data[j].attempts + 1
          /\ data[j].status = "QUEUED"
      BY <2>2, <2>3, <2>7, <3>1 DEF MarkRunning, Started, Copy
    <3> QED
      BY <2>1, <2>2, <2>3, <3>1, <3>2 DEF Counts, Copy, Reporting
  <2>8. CASE Run(w)
    BY <2>1, <2>2, <2>3, <2>8 DEF Run, Counts, Copy, Reporting
  <2>9. CASE CompleteGet(w)
    BY <2>1, <2>2, <2>3, <2>9 DEF CompleteGet, Counts, Copy, Reporting
  <2>10. CASE FailGet(w)
    BY <2>1, <2>2, <2>3, <2>10 DEF FailGet, Failed, Counts, Copy, Reporting
  <2>11. CASE SettleSet(w)
    BY <2>1, <2>2, <2>3, <2>11 DEF SettleSet, AfterSet, Counts, Copy, Reporting
  <2> QED
    BY <1>4, <2>5, <2>6, <2>7, <2>8, <2>9, <2>10, <2>11
<1> QED
  BY <1>1, <1>2, <1>3, <1>4

\* Fail hands the token back to the queue.
LEMMA SettlePushKeeps ==
    ASSUME TypeOK, LifeInv, NEW w \in Workers, SettlePush(w)
    PROVE  LifeInv'
<1> USE DEF LifeInv, clientVars
<1>1. PICK j \in Jobs : j = job[w]
  BY Typing DEF SettlePush
<1>2. /\ pc[w] = "push" /\ pc'[w] = "del" /\ UNCHANGED <<data, db, runs, job, rec, clientVars>>
      /\ \A v \in Workers : v # w => pc'[v] = pc[v]
      /\ rec[w].status = "QUEUED" /\ data[j].status = "QUEUED"
  BY <1>1 DEF SettlePush, Goto, TypeOK, WorkersTypeOK, CopyInv, Copy
<1>3. Carrying(w)
  BY <1>2 DEF Carrying
<1>4. Once(queue)' /\ \A k : InQueue(k)' <=> k = j \/ InQueue(k)
  <2>1. queue \in Seq(Jobs) /\ queue' = Append(queue, j) /\ Once(queue) /\ ~InQueue(j)
    BY <1>1, <1>3 DEF SettlePush, TypeOK, StoresTypeOK, TokenInv
  <2>2. Once(Append(queue, j))
    BY <2>1, PushOnce DEF InQueue
  <2>3. \A k : (\E i \in 1..Len(Append(queue, j)) : Append(queue, j)[i] = k)
                  <=> k = j \/ \E i \in 1..Len(queue) : queue[i] = k
    BY <2>1, PushIn
  <2> QED
    BY <2>1, <2>2, <2>3 DEF InQueue, Once
<1>5. \A v \in Workers :
        /\ Carrying(v)' => Carrying(v) /\ job[v] # j
        /\ Reporting(v)' => Reporting(v)
  <2>1. \A v \in Workers : v # w /\ Carrying(v) => job[v] # j
    BY <1>1, <1>3 DEF TokenInv
  <2> QED
    BY <1>2, <2>1 DEF Carrying, Reporting
<1>6. RecordsInv'
  BY <1>2 DEF RecordsInv, Counts
<1>7. TokenInv'
  <2>1. \A c \in Clients : cpc[c] = "push" => cjob[c] # j
    BY <1>1, <1>3 DEF TokenInv
  <2> QED
    BY <1>2, <1>4, <1>5, <2>1 DEF TokenInv, InQueue
<1>8. CopyInv'
  <2>1. Copy(w)'
    BY <1>2 DEF Copy
  <2> QED
    BY <1>2, <2>1, SameCopies DEF CopyInv
<1>9. RowInv'
  BY <1>2, <1>5 DEF RowInv
<1>10. ClientInv'
  BY <1>2, <1>5 DEF ClientInv
<1> QED
  BY <1>6, <1>7, <1>8, <1>9, <1>10

\* Steps that touch neither the queue nor a record, and put no worker where it
\* would have a token or write a row.
LEMMA WorkersLeave ==
    ASSUME TypeOK, LifeInv, UNCHANGED <<queue, data, db, runs, clientVars>>,
           \A v \in Workers :
               \/ pc'[v] = pc[v] /\ job'[v] = job[v] /\ rec'[v] = rec[v]
               \/ pc'[v] \in {"poll", "stopped", "callback"} /\ job'[v] = NoJob
               \/ pc'[v] = "persist" /\ pc[v] = "del" /\ job'[v] = job[v] /\ rec'[v] = rec[v]
    PROVE  LifeInv'
<1> USE DEF LifeInv, clientVars
<1>1. \A v \in Workers :
        /\ Carrying(v)' => Carrying(v) /\ job'[v] = job[v]
        /\ Reporting(v)' => Reporting(v) /\ job'[v] = job[v]
        /\ job'[v] \in Jobs => job'[v] = job[v]
  <2>1. NoJob \notin Jobs
    BY RedisQueueAssumption
  <2> QED
    BY <2>1 DEF CopyInv, Copy, Carrying, Reporting
<1>2. RecordsInv'
  BY DEF RecordsInv, Counts
<1>3. TokenInv'
  BY <1>1 DEF TokenInv, InQueue
<1>4. CopyInv'
  BY DEF CopyInv, Copy
<1>5. RowInv'
  BY <1>1 DEF RowInv
<1>6. ClientInv'
  BY <1>1 DEF ClientInv
<1> QED
  BY <1>2, <1>3, <1>4, <1>5, <1>6

\* DEL, crashes, restarts, stops and the end of a TTL.
LEMMA FaultsKeep ==
    ASSUME TypeOK, LifeInv,
           \/ \E w \in Workers : SettleDel(w)
           \/ \E h \in Hosts : Crash(h) \/ Stop(h) \/ Restart(h)
           \/ \E j \in Jobs : OrphanLockExpires(j) \/ LiveLockExpires(j)
           \/ UNCHANGED vars
    PROVE  LifeInv'
<1> USE DEF redisVars, workerVars, boundVars
<1>1. ASSUME NEW w \in Workers, SettleDel(w) PROVE LifeInv'
  BY <1>1, WorkersLeave DEF SettleDel, Goto, TypeOK, WorkersTypeOK
<1>2. ASSUME NEW h \in Hosts, Crash(h) PROVE LifeInv'
  BY <1>2, WorkersLeave DEF Crash
<1>3. ASSUME NEW h \in Hosts, Restart(h) PROVE LifeInv'
  <2>1. \A v \in Workers : HostOf[v] = h => pc[v] = "stopped" /\ job[v] = NoJob
    BY <1>3, Typing DEF Restart
  <2> QED
    BY <1>3, <2>1, WorkersLeave DEF Restart
<1>4. ASSUME NEW h \in Hosts, Stop(h) PROVE LifeInv'
  BY <1>4, WorkersLeave DEF Stop
<1>5. ASSUME NEW j \in Jobs, OrphanLockExpires(j) \/ LiveLockExpires(j) PROVE LifeInv'
  BY <1>5, WorkersLeave DEF OrphanLockExpires, LiveLockExpires
<1>6. CASE UNCHANGED vars
  BY <1>6, WorkersLeave DEF vars, clientVars
<1> QED
  BY <1>1, <1>2, <1>3, <1>4, <1>5, <1>6

-----------------------------------------------------------------------------
(* Clients.                                                                *)

OneClient == \A c, d \in Clients : c = d

\* The only client is not at a job that it will push: it is at the row of a job,
\* or at none.
LEMMA ClientKeeps ==
    ASSUME TypeOK, TypeOK', LifeInv, OneClient, NEW c \in Clients,
           UNCHANGED <<queue, data, db, runs, workerVars>>,
           cpc'[c] \notin {"set", "push"}, todo'[c] \subseteq todo[c],
           cpc'[c] \in {"idle", "project"} => todo'[c] = {}
    PROVE  LifeInv'
<1> USE DEF LifeInv, workerVars
<1>1. \A v \in Workers : (Carrying(v)' <=> Carrying(v)) /\ (Reporting(v)' <=> Reporting(v))
  BY DEF Carrying, Reporting
<1>2. RecordsInv'
  BY DEF RecordsInv, Counts
<1>3. TokenInv'
  BY <1>1 DEF TokenInv, InQueue, OneClient
<1>4. CopyInv'
  BY DEF CopyInv, Copy
<1>5. RowInv'
  BY <1>1 DEF RowInv
<1>6. ClientInv'
  BY <1>1 DEF ClientInv, OneClient
<1> QED
  BY <1>2, <1>3, <1>4, <1>5, <1>6

\* A client writes a row that is not FAILED, with its record QUEUED or about to be.
LEMMA RowKeeps ==
    ASSUME TypeOK, TypeOK', LifeInv, OneClient, NEW c \in Clients, NEW j \in Jobs,
           UNCHANGED <<queue, data, runs, workerVars>>,
           db' = [db EXCEPT ![j] = NewRecord], cpc'[c] # "push",
           cpc'[c] = "set" =>
               /\ cjob'[c] = j /\ j \notin todo'[c]
               /\ data[j].status \in {"NONE", "FAILED"}
               /\ \A v \in Workers : Reporting(v) => job[v] # j,
           todo'[c] \subseteq todo[c],
           cpc'[c] \in {"idle", "project"} => todo'[c] = {}
    PROVE  LifeInv'
<1> USE DEF LifeInv, workerVars
<1>1. \A v \in Workers : (Carrying(v)' <=> Carrying(v)) /\ (Reporting(v)' <=> Reporting(v))
  BY DEF Carrying, Reporting
<1>2. /\ db'[j].status = "QUEUED" /\ \A k \in Jobs : k # j => db'[k] = db[k]
  BY DEF TypeOK, StoresTypeOK, NewRecord
<1>3. RecordsInv'
  BY DEF RecordsInv, Counts
<1>4. TokenInv'
  BY <1>1 DEF TokenInv, InQueue, OneClient
<1>5. CopyInv'
  BY DEF CopyInv, Copy
<1>6. RowInv'
  <2>1. \A v \in Workers : Reporting(v) => job[v] \in Jobs
    BY Typing DEF Reporting
  <2> QED
    BY <1>1, <1>2, <2>1 DEF RowInv
<1>7. ClientInv'
  BY <1>1, <1>2, Typing DEF ClientInv, OneClient
<1> QED
  BY <1>3, <1>4, <1>5, <1>6, <1>7

\* Steps of the client at the rows.
LEMMA ClientRowSteps ==
    ASSUME TypeOK, TypeOK', LifeInv, OneClient, NEW c \in Clients,
           \/ \E j \in Jobs : Submit(c, j)
           \/ ResetRow(c) \/ EnqueuePersist(c) \/ EnqueuePersistError(c)
           \/ ProjectStatus(c) \/ Abort(c)
    PROVE  LifeInv'
<1> USE DEF redisVars, boundVars, ClientGoto
<1>0. /\ cpc \in [Clients -> ClientPc] /\ cjob \in [Clients -> Jobs \cup {NoJob}]
      /\ todo \in [Clients -> SUBSET Jobs]
  BY DEF TypeOK, ClientsTypeOK
<1>1. ASSUME NEW j \in Jobs, Submit(c, j) PROVE LifeInv'
  <2>1. data[j].status = "NONE" /\ \A v \in Workers : job[v] # j
    BY <1>1 DEF Submit, LifeInv, RowInv, NoRecord
  <2>2. todo[c] = {}
    BY <1>1 DEF Submit, LifeInv, ClientInv
  <2> QED
    BY <1>0, <1>1, <2>1, <2>2, RowKeeps DEF Submit
<1>2. CASE ResetRow(c)
  <2>1. PICK j \in todo[c] :
          /\ db' = [db EXCEPT ![j] = NewRecord]
          /\ cjob' = [cjob EXCEPT ![c] = j]
          /\ todo' = [todo EXCEPT ![c] = @ \ {j}]
    BY <1>2 DEF ResetRow
  <2>2. /\ j \in Jobs /\ data[j].status = "FAILED"
        /\ \A v \in Workers : Reporting(v) => job[v] # j
    BY <1>0 DEF LifeInv, ClientInv
  <2>3. /\ cpc'[c] = "set" /\ cjob'[c] = j /\ todo'[c] = todo[c] \ {j}
        /\ UNCHANGED <<queue, data, runs, workerVars>>
    BY <1>0, <1>2, <2>1 DEF ResetRow
  <2> QED
    BY <2>1, <2>2, <2>3, RowKeeps
<1>3. CASE EnqueuePersist(c)
  <2>1. cjob[c] \in Jobs
    BY <1>3, Typing DEF EnqueuePersist
  <2>2. /\ cpc'[c] = IF todo[c] # {} THEN "reset" ELSE "project"
        /\ todo' = todo /\ UNCHANGED <<queue, data, runs, workerVars>>
    BY <1>0, <1>3 DEF EnqueuePersist, AfterEnqueue
  <2> QED
    BY <1>3, <2>1, <2>2, RowKeeps DEF EnqueuePersist
<1>4. CASE EnqueuePersistError(c)
  <2>1. /\ cpc'[c] = IF todo[c] # {} THEN "reset" ELSE "project"
        /\ todo' = todo /\ UNCHANGED <<queue, data, db, runs, workerVars>>
    BY <1>0, <1>4 DEF EnqueuePersistError, AfterEnqueue
  <2> QED
    BY <2>1, ClientKeeps
<1>5. CASE ProjectStatus(c)
  <2>1. todo[c] = {}
    BY <1>5 DEF ProjectStatus, LifeInv, ClientInv
  <2> QED
    BY <1>0, <1>5, <2>1, ClientKeeps DEF ProjectStatus
<1>6. CASE Abort(c)
  <2>1. /\ cpc'[c] = "idle" /\ todo'[c] = {}
        /\ UNCHANGED <<queue, data, db, runs, workerVars>>
    BY <1>0, <1>6 DEF Abort
  <2> QED
    BY <2>1, ClientKeeps
<1> QED
  BY <1>1, <1>2, <1>3, <1>4, <1>5, <1>6

\* RetryProject reads rows that say FAILED: their records do, and nobody is about
\* to write another one.
LEMMA RetryKeeps ==
    ASSUME TypeOK, LifeInv, OneClient, NEW c \in Clients, Retry(c)
    PROVE  LifeInv'
<1> USE DEF LifeInv, workerVars, redisVars, ClientGoto
<1>1. /\ cpc'[c] = "reset" /\ todo'[c] = Retryable
      /\ UNCHANGED <<queue, data, db, runs, workerVars>>
  BY DEF Retry, TypeOK, ClientsTypeOK
<1>2. \A v \in Workers : (Carrying(v)' <=> Carrying(v)) /\ (Reporting(v)' <=> Reporting(v))
  BY <1>1 DEF Carrying, Reporting
<1>3. RecordsInv'
  BY <1>1 DEF RecordsInv, Counts
<1>4. TokenInv'
  BY <1>1, <1>2 DEF TokenInv, InQueue, OneClient
<1>5. CopyInv'
  BY <1>1 DEF CopyInv, Copy
<1>6. RowInv'
  BY <1>1, <1>2 DEF RowInv
<1>7. ClientInv'
  <2>1. \A j \in Retryable :
          /\ data[j].status = "FAILED" /\ db[j].status # "NONE"
          /\ \A v \in Workers : Reporting(v) => job[v] # j
    BY DEF RowInv, Retryable
  <2> QED
    BY <1>1, <1>2, <2>1 DEF ClientInv, OneClient
<1> QED
  BY <1>3, <1>4, <1>5, <1>6, <1>7

\* Enqueue writes a new record; nobody has a token of the job.
LEMMA EnqueueSetKeeps ==
    ASSUME TypeOK, LifeInv, OneClient, NEW c \in Clients, EnqueueSet(c)
    PROVE  LifeInv'
<1> USE DEF LifeInv, workerVars, ClientGoto
<1>1. PICK j \in Jobs : j = cjob[c]
  BY Typing DEF EnqueueSet
<1>2. /\ cpc[c] = "set" /\ cpc'[c] = "push"
      /\ UNCHANGED <<queue, db, workerVars, cjob, todo>>
      /\ data'[j] = NewRecord /\ runs'[j] = 0
      /\ \A k \in Jobs : k # j => data'[k] = data[k] /\ runs'[k] = runs[k]
  BY <1>1 DEF EnqueueSet, TypeOK, ClientsTypeOK, StoresTypeOK
<1>3. /\ data[j].status \in {"NONE", "FAILED"} /\ db[j].status \notin {"NONE", "FAILED"}
      /\ \A w \in Workers : Reporting(w) => job[w] # j
      /\ j \notin todo[c]
  BY <1>1, <1>2 DEF ClientInv
<1>4. ~InQueue(j) /\ \A v \in Workers : Carrying(v) => job[v] # j
  BY <1>3 DEF TokenInv, CopyInv, Copy, Carrying
<1>5. /\ \A v \in Workers : (Carrying(v)' <=> Carrying(v)) /\ (Reporting(v)' <=> Reporting(v))
      /\ \A v \in Workers : Carrying(v) \/ Reporting(v) => job[v] \in Jobs
  BY <1>2, Typing DEF Carrying, Reporting
<1>6. RecordsInv'
  BY <1>2, RedisQueueAssumption DEF RecordsInv, Counts, NewRecord
<1>7. TokenInv'
  BY <1>1, <1>2, <1>4, <1>5 DEF TokenInv, InQueue, OneClient, NewRecord, Once
<1>8. CopyInv'
  <2>1. ASSUME NEW v \in Workers PROVE Copy(v)'
    <3>1. CASE Carrying(v)
      BY <1>2, <1>4, <1>5, <3>1 DEF CopyInv, Copy
    <3>2. CASE ~Carrying(v)
      BY <1>2, <3>2 DEF CopyInv, Copy, Carrying
    <3> QED
      BY <3>1, <3>2
  <2> QED
    BY <2>1 DEF CopyInv
<1>9. RowInv'
  BY <1>2, <1>3, <1>5 DEF RowInv
<1>10. ClientInv'
  BY <1>2, <1>3, <1>5, Typing DEF ClientInv, OneClient
<1> QED
  BY <1>6, <1>7, <1>8, <1>9, <1>10

\* Enqueue pushes the id: the token goes from the client to the queue.
LEMMA EnqueuePushKeeps ==
    ASSUME TypeOK, LifeInv, OneClient, NEW c \in Clients, EnqueuePush(c)
    PROVE  LifeInv'
<1> USE DEF LifeInv, workerVars, ClientGoto
<1>1. PICK j \in Jobs : j = cjob[c]
  BY Typing DEF EnqueuePush
<1>2. /\ cpc[c] = "push" /\ cpc'[c] = "persist"
      /\ UNCHANGED <<data, db, runs, workerVars, cjob, todo>>
  BY DEF EnqueuePush, TypeOK, ClientsTypeOK
<1>3. /\ data[j].status = "QUEUED" /\ ~InQueue(j)
      /\ \A v \in Workers : Carrying(v) => job[v] # j
  BY <1>1, <1>2 DEF TokenInv
<1>4. Once(queue)' /\ \A k : InQueue(k)' <=> k = j \/ InQueue(k)
  <2>1. queue \in Seq(Jobs) /\ queue' = Append(queue, j) /\ Once(queue)
    BY <1>1 DEF EnqueuePush, TypeOK, StoresTypeOK, TokenInv
  <2>2. Once(Append(queue, j))
    BY <1>3, <2>1, PushOnce DEF InQueue
  <2>3. \A k : (\E i \in 1..Len(Append(queue, j)) : Append(queue, j)[i] = k)
                  <=> k = j \/ \E i \in 1..Len(queue) : queue[i] = k
    BY <2>1, PushIn
  <2> QED
    BY <2>1, <2>2, <2>3 DEF InQueue, Once
<1>5. \A v \in Workers : (Carrying(v)' <=> Carrying(v)) /\ (Reporting(v)' <=> Reporting(v))
  BY <1>2 DEF Carrying, Reporting
<1>6. RecordsInv'
  BY <1>2 DEF RecordsInv, Counts
<1>7. TokenInv'
  BY <1>2, <1>3, <1>4, <1>5 DEF TokenInv, InQueue, OneClient
<1>8. CopyInv'
  BY <1>2 DEF CopyInv, Copy
<1>9. RowInv'
  BY <1>2, <1>5 DEF RowInv
<1>10. ClientInv'
  BY <1>2, <1>5 DEF ClientInv, OneClient
<1> QED
  BY <1>6, <1>7, <1>8, <1>9, <1>10

-----------------------------------------------------------------------------
(* The theorems.                                                           *)

RedisAnswers == Disruptions \cap {"redis", "dataExpires"} = {}

\* Every step keeps the invariant.
LEMMA LifeStep ==
    ASSUME OneClient, RedisAnswers
    PROVE  TypeOK /\ LifeInv /\ [Next]_vars => LifeInv'
<1> SUFFICES ASSUME TypeOK, LifeInv, [Next]_vars PROVE LifeInv'
  OBVIOUS
<1>0. TypeOK'
  BY TypeStep
<1>1. ASSUME NEW c \in Clients,
             \/ \E j \in Jobs : Submit(c, j)
             \/ Retry(c) \/ ClientStep(c) \/ EnqueuePersistError(c) \/ Abort(c)
      PROVE  LifeInv'
  BY <1>0, <1>1, ClientRowSteps, RetryKeeps, EnqueueSetKeeps, EnqueuePushKeeps DEF ClientStep
<1>2. ASSUME NEW w \in Workers, WorkerStep(w) \/ PostgresFault(w) PROVE LifeInv'
  BY <1>2, PopStep, SettlePushKeeps, WorkerKeeps, FaultsKeep DEF WorkerStep, PostgresFault
<1>3. ASSUME NEW w \in Workers, RedisFault(w) PROVE FALSE
  BY <1>3 DEF RedisFault, GetError, LockError, MarkError, PipelineError, Disrupt, RedisAnswers
<1>4. ASSUME NEW j \in Jobs, DataExpires(j) PROVE FALSE
  BY <1>4 DEF DataExpires, Disrupt, RedisAnswers
<1> QED
  BY <1>1, <1>2, <1>3, <1>4, FaultsKeep DEF Next

\* Before the first request there is no record, no id and no job with anybody.
LEMMA LifeInit == Init => LifeInv
<1> SUFFICES ASSUME Init PROVE LifeInv
  OBVIOUS
<1>1. /\ queue = <<>> /\ \A w \in Workers : pc[w] = "poll" /\ job[w] = NoJob
      /\ \A c \in Clients : cpc[c] = "idle" /\ todo[c] = {}
      /\ \A j \in Jobs : data[j] = NoRecord /\ db[j] = NoRecord /\ runs[j] = 0
  BY DEF Init
<1>2. Len(queue) = 0
  BY <1>1
<1>3. RecordsInv
  BY <1>1, RedisQueueAssumption DEF RecordsInv, Counts, NoRecord
<1>4. TokenInv
  BY <1>1, <1>2 DEF TokenInv, Once, InQueue, Carrying
<1>5. CopyInv
  BY <1>1 DEF CopyInv, Copy
<1>6. RowInv
  BY <1>1, RedisQueueAssumption DEF RowInv, Reporting, NoRecord
<1>7. ClientInv
  BY <1>1 DEF ClientInv
<1> QED
  BY <1>3, <1>4, <1>5, <1>6, <1>7 DEF LifeInv

\* The invariant holds in every behaviour with one client and a Redis that answers.
LEMMA LifeAlways ==
    ASSUME OneClient, RedisAnswers
    PROVE  Spec => [](TypeOK /\ LifeInv)
  BY LifeInit, LifeStep, TypeCorrect, PTL DEF Spec

\* Dequeue counts before the handler runs and Fail compares after it: a job is
\* given up only after its handler was called MaxAttempts times.
THEOREM NeverGivenUpEarly ==
    ASSUME OneClient, RedisAnswers
    PROVE  Spec => []NoEarlyGiveUp
<1>1. TypeOK /\ LifeInv => NoEarlyGiveUp
  <2> SUFFICES ASSUME TypeOK, LifeInv, NEW j \in Jobs, data[j].status = "FAILED"
               PROVE  runs[j] >= MaxAttempts
    BY DEF NoEarlyGiveUp
  <2> QED
    BY RedisQueueAssumption DEF LifeInv, RecordsInv, Counts
<1> QED
  BY <1>1, LifeAlways, PTL

\* ... and is called no more often than that, also when the lock of a job
\* expires under its handler, as there is no second id to run it from.
THEOREM NeverRunTooOften ==
    ASSUME OneClient, RedisAnswers
    PROVE  Spec => []RunsBounded
<1>1. TypeOK /\ LifeInv => RunsBounded
  <2> SUFFICES ASSUME TypeOK, LifeInv, NEW j \in Jobs PROVE runs[j] <= MaxAttempts
    BY DEF RunsBounded
  <2>1. data[j].attempts \in Nat /\ runs[j] \in Nat /\ MaxAttempts \in Nat
    BY RedisQueueAssumption DEF TypeOK, StoresTypeOK, Record
  <2> QED
    BY <2>1 DEF LifeInv, RecordsInv, Counts
<1> QED
  BY <1>1, LifeAlways, PTL

\* What RetryProject reads is over: a job whose row says FAILED has its id
\* nowhere, although rows are written after the records and by other processes.
THEOREM RetryFindsSettledJobs ==
    ASSUME OneClient, RedisAnswers
    PROVE  Spec => []FailedRowIsSettled
<1>1. TypeOK /\ LifeInv => FailedRowIsSettled
  <2> SUFFICES ASSUME TypeOK, LifeInv, NEW j \in Retryable
               PROVE  data[j].status = "FAILED" /\ ~Busy(j)
    BY DEF FailedRowIsSettled
  <2>1. j \in Jobs /\ data[j].status = "FAILED"
    BY DEF Retryable, LifeInv, RowInv
  <2>2. ~InQueue(j)
    BY <2>1 DEF LifeInv, TokenInv
  <2>3. ASSUME NEW w \in Workers, Carries(w, j) PROVE FALSE
    BY <2>1, <2>3 DEF LifeInv, CopyInv, Copy, Carries
  <2> QED
    BY <2>1, <2>2, <2>3 DEF Busy
<1> QED
  BY <1>1, LifeAlways, PTL

-----------------------------------------------------------------------------
(* Refinement of JobLifecycle.                                             *)

\* Only MarkRunning, SettleSet and EnqueueSet change a record.
LEMMA RecordSteps ==
    ASSUME TypeOK, Next, RedisAnswers
    PROVE  \/ UNCHANGED data
           \/ \E w \in Workers : MarkRunning(w) \/ SettleSet(w)
           \/ \E c \in Clients : EnqueueSet(c)
<1> USE DEF redisVars
<1>1. ASSUME NEW c \in Clients,
             \/ \E j \in Jobs : Submit(c, j)
             \/ Retry(c) \/ ResetRow(c) \/ EnqueuePush(c) \/ EnqueuePersist(c)
             \/ ProjectStatus(c) \/ EnqueuePersistError(c) \/ Abort(c)
      PROVE  UNCHANGED data
  BY <1>1 DEF Submit, Retry, ResetRow, EnqueuePush, EnqueuePersist, ProjectStatus,
       EnqueuePersistError, Abort
<1>2. ASSUME NEW w \in Workers,
             \/ Pop(w) \/ PollTimeout(w) \/ Fetch(w) \/ AcquireLock(w) \/ SkipLocked(w)
             \/ Persist(w) \/ Run(w) \/ CompleteGet(w) \/ FailGet(w) \/ SettlePush(w)
             \/ SettleDel(w) \/ Callback(w) \/ PostgresFault(w)
      PROVE  UNCHANGED data
  BY <1>2 DEF Pop, PollTimeout, Fetch, AcquireLock, SkipLocked, Persist, Run, CompleteGet,
       FailGet, SettlePush, SettleDel, Callback, PostgresFault, PersistError, CallbackError
<1>3. ASSUME NEW w \in Workers, RedisFault(w) PROVE FALSE
  BY <1>3 DEF RedisFault, GetError, LockError, MarkError, PipelineError, Disrupt, RedisAnswers
<1>4. ASSUME NEW h \in Hosts, Crash(h) \/ Stop(h) \/ Restart(h) PROVE UNCHANGED data
  BY <1>4 DEF Crash, Stop, Restart
<1>5. ASSUME NEW j \in Jobs, OrphanLockExpires(j) \/ LiveLockExpires(j) \/ DataExpires(j)
      PROVE  UNCHANGED data
  BY <1>5 DEF OrphanLockExpires, LiveLockExpires, DataExpires, Disrupt, RedisAnswers
<1> QED
  BY <1>1, <1>2, <1>3, <1>4, <1>5 DEF Next, ClientStep, WorkerStep

\* One step of the life of job j, by the status of its record before and after.
LEMMA LifecycleMove ==
    ASSUME TypeOK, TypeOK', LifeInv, NEW j \in Jobs,
           \A k \in Jobs : k # j => data'[k] = data[k],
           \/ /\ data[j].status = "NONE" /\ data'[j] = NewRecord
           \/ /\ data[j].status = "FAILED" /\ data'[j] = NewRecord
           \/ /\ data[j].status = "QUEUED" /\ data'[j] = Started(data[j])
           \/ /\ data[j].status = "RUNNING" /\ data'[j].attempts = data[j].attempts
              /\ \/ data'[j].status = "SUCCEEDED"
                 \/ data'[j].status = "QUEUED" /\ data[j].attempts < MaxAttempts
                 \/ data'[j].status = "FAILED" /\ data[j].attempts = MaxAttempts
    PROVE  Lifecycle!LifecycleNext
<1> DEFINE st == [k \in Jobs |-> data[k].status]
           at == [k \in Jobs |-> data[k].attempts]
           stN == [k \in Jobs |-> data'[k].status]
           atN == [k \in Jobs |-> data'[k].attempts]
<1>1. Counts(j) /\ data[j] \in Record /\ data'[j] \in Record
  BY DEF LifeInv, RecordsInv, TypeOK, StoresTypeOK
<1>2. stN = [st EXCEPT ![j] = data'[j].status] /\ st[j] = data[j].status
  OBVIOUS
<1>3. atN = [at EXCEPT ![j] = data'[j].attempts] /\ at[j] = data[j].attempts
  OBVIOUS
<1>4. data'[j].attempts = data[j].attempts => atN = at
  BY <1>3
<1> SUFFICES \/ Lifecycle!Submit(j) \/ Lifecycle!Start(j) \/ Lifecycle!Succeed(j)
             \/ Lifecycle!TryAgain(j) \/ Lifecycle!GiveUp(j) \/ Lifecycle!Revive(j)
  BY DEF Lifecycle!LifecycleNext
<1> USE DEF Lifecycle!Move
<1>5. CASE data[j].status = "NONE" /\ data'[j] = NewRecord
  <2>1. data'[j].status = "QUEUED" /\ data'[j].attempts = data[j].attempts
    BY <1>1, <1>5 DEF Counts, NewRecord
  <2> QED
    BY <1>2, <1>4, <1>5, <2>1 DEF Lifecycle!Submit
<1>6. CASE data[j].status = "FAILED" /\ data'[j] = NewRecord
  <2>1. data'[j].status = "QUEUED" /\ data'[j].attempts = 0
    BY <1>6 DEF NewRecord
  <2> QED
    BY <1>2, <1>3, <1>6, <2>1 DEF Lifecycle!Revive
<1>7. CASE data[j].status = "QUEUED" /\ data'[j] = Started(data[j])
  <2>1. /\ data'[j].status = "RUNNING" /\ data'[j].attempts = data[j].attempts + 1
        /\ data[j].attempts < MaxAttempts
    BY <1>1, <1>7 DEF Counts, Started
  <2> QED
    BY <1>2, <1>3, <1>7, <2>1 DEF Lifecycle!Start
<1>8. CASE /\ data[j].status = "RUNNING" /\ data'[j].attempts = data[j].attempts
           /\ \/ data'[j].status = "SUCCEEDED"
              \/ data'[j].status = "QUEUED" /\ data[j].attempts < MaxAttempts
              \/ data'[j].status = "FAILED" /\ data[j].attempts = MaxAttempts
  BY <1>2, <1>3, <1>4, <1>8 DEF Lifecycle!Succeed, Lifecycle!TryAgain, Lifecycle!GiveUp
<1> QED
  BY <1>5, <1>6, <1>7, <1>8

\* The records in Redis implement JobLifecycle, for any number of jobs and
\* workers and whatever crashes, stops or expires, while one client at a time
\* enqueues and Redis answers.
THEOREM RefinesLifecycle ==
    ASSUME OneClient, RedisAnswers
    PROVE  Spec => ImplementsLifecycle
<1>1. Init => Lifecycle!LifecycleInit
  BY DEF Init, Lifecycle!LifecycleInit, NoRecord
<1>2. ASSUME TypeOK, TypeOK', LifeInv, [Next]_vars
      PROVE  [Lifecycle!LifecycleNext]_(Lifecycle!lifecycleVars)
  <2>0. TypeOK /\ TypeOK' /\ LifeInv
    BY <1>2
  <2>1. CASE UNCHANGED data
    BY <2>1 DEF Lifecycle!lifecycleVars
  <2>2. ASSUME NEW w \in Workers, MarkRunning(w) PROVE Lifecycle!LifecycleNext
    <3>1. PICK j \in Jobs : j = job[w]
      BY <2>0, <2>2, Typing DEF MarkRunning
    <3>2. rec[w] = data[j] /\ data[j].status = "QUEUED"
      BY <2>0, <2>2, <3>1 DEF MarkRunning, LifeInv, CopyInv, Copy
    <3>3. data'[j] = Started(data[j]) /\ \A k \in Jobs : k # j => data'[k] = data[k]
      BY <2>0, <2>2, <3>1, <3>2 DEF MarkRunning, TypeOK, WorkersTypeOK, StoresTypeOK
    <3> QED
      BY <2>0, <3>2, <3>3, LifecycleMove
  <2>3. ASSUME NEW w \in Workers, SettleSet(w) PROVE Lifecycle!LifecycleNext
    <3>1. PICK j \in Jobs : j = job[w]
      BY <2>0, <2>3, Typing DEF SettleSet
    <3>2. Copy(w) /\ pc[w] = "set"
      BY <2>0, <2>3 DEF SettleSet, LifeInv, CopyInv
    <3>3. data'[j] = rec[w] /\ \A k \in Jobs : k # j => data'[k] = data[k]
      BY <2>0, <2>3, <3>1 DEF SettleSet, TypeOK, StoresTypeOK
    <3>4. /\ data[j].status = "RUNNING" /\ rec[w].attempts = data[j].attempts
          /\ \/ rec[w].status = "SUCCEEDED"
             \/ rec[w].status = "QUEUED" /\ data[j].attempts < MaxAttempts
             \/ rec[w].status = "FAILED" /\ data[j].attempts = MaxAttempts
      BY <3>1, <3>2 DEF Copy
    <3> QED
      BY <2>0, <3>3, <3>4, LifecycleMove
  <2>4. ASSUME NEW c \in Clients, EnqueueSet(c) PROVE Lifecycle!LifecycleNext
    <3>1. PICK j \in Jobs : j = cjob[c]
      BY <2>0, <2>4, Typing DEF EnqueueSet
    <3>2. data'[j] = NewRecord /\ \A k \in Jobs : k # j => data'[k] = data[k]
      BY <2>0, <2>4, <3>1 DEF EnqueueSet, TypeOK, StoresTypeOK
    <3>3. data[j].status \in {"NONE", "FAILED"}
      BY <2>0, <2>4, <3>1 DEF EnqueueSet, LifeInv, ClientInv
    <3> QED
      BY <2>0, <3>2, <3>3, LifecycleMove
  <2>5. CASE UNCHANGED vars
    BY <2>5 DEF vars, Lifecycle!lifecycleVars
  <2> QED
    BY <1>2, <2>1, <2>2, <2>3, <2>4, <2>5, RecordSteps
<1> QED
  BY <1>1, <1>2, LifeAlways, TypeCorrect, PTL
     DEF Spec, ImplementsLifecycle, Lifecycle!LifecycleSpec
===============================================================================
