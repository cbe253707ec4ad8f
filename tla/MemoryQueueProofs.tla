--------------------------- MODULE MemoryQueueProofs ---------------------------
(***************************************************************************)
(* Proofs about MemoryQueue for every set of jobs, every MaxAttempts, every *)
(* choice of failing writes, and a queue that is started or not.           *)
(***************************************************************************)
EXTENDS MemoryQueue, TLAPS

\* A job has no record exactly as long as it is not in the slice, and a record
\* only after the workflow created its row.
RecordsAreInSlice ==
    /\ \A i \in 1..Len(slice) : rec[slice[i]].status # "NONE"
    /\ \A j \in Jobs : rec[j].status = "NONE" => rec[j] = NoRecord
    /\ \A j \in Jobs : db[j] = NoRecord => rec[j] = NoRecord
    /\ \A i, k \in 1..Len(slice) : slice[i] = slice[k] => i = k

\* The job of the loop is the one that is RUNNING.
OnlyCurRuns == \A j \in Jobs : rec[j].status = "RUNNING" <=> j = cur

\* A job that may still run has attempts left, one that FAILED has none.
AttemptsLeft ==
    \A j \in Jobs :
        /\ rec[j].attempts <= MaxAttempts
        /\ rec[j].status = "QUEUED" => rec[j].attempts < MaxAttempts

IInv ==
    /\ TypeOK
    /\ RecordsAreInSlice
    /\ OnlyCurRuns
    /\ AttemptsLeft
    /\ OneAfterTheOther
    /\ SettledRowIsTrue

-----------------------------------------------------------------------------
\* Initially the slice is empty, and there is neither record nor row.
LEMMA InitEstablishes == Init => IInv
<1> SUFFICES ASSUME Init PROVE IInv
  OBVIOUS
<1>1. NoRecord \in Record /\ NoRecord.attempts = 0 /\ NoRecord.status = "NONE"
  BY DEF NoRecord, Record, Status
<1>2. Len(slice) = 0 /\ slice \in Seq(Jobs) /\ 1..Len(slice) = {}
  BY DEF Init
<1>3. TypeOK
  BY <1>1, <1>2 DEF Init, TypeOK
<1>4. RecordsAreInSlice /\ OneAfterTheOther
  BY <1>2 DEF Init, RecordsAreInSlice, OneAfterTheOther
<1>5. OnlyCurRuns /\ AttemptsLeft /\ SettledRowIsTrue
  BY <1>1, MemoryQueueAssumption
     DEF Init, OnlyCurRuns, AttemptsLeft, SettledRowIsTrue, Settled
<1>6. QED
  BY <1>3, <1>4, <1>5 DEF IInv

\* Every step that changes records changes one, of a job that is not settled,
\* and its row follows or stays.
LEMMA RowsFollow ==
    ASSUME IInv, NEW j \in Jobs, NEW r \in Record,
           rec[j].status \notin Settled,
           rec' = [rec EXCEPT ![j] = r],
           Persist(j)
    PROVE  /\ db' \in [Jobs -> Record]
           /\ SettledRowIsTrue'
           /\ \A v \in Jobs : db'[v] = NoRecord => db[v] = NoRecord \/ r = NoRecord
BY DEF IInv, TypeOK, SettledRowIsTrue, Persist, Settled, Record

-----------------------------------------------------------------------------
LEMMA CreateRowKeeps ==
    ASSUME IInv, NEW j \in Jobs, CreateRow(j)
    PROVE  IInv'
<1>1. TypeOK'
  BY DEF IInv, TypeOK, CreateRow, NewRecord, Record, Status
<1>2. SettledRowIsTrue'
  BY DEF IInv, TypeOK, CreateRow, NewRecord, SettledRowIsTrue, Settled
<1>3. RecordsAreInSlice' /\ OnlyCurRuns' /\ AttemptsLeft' /\ OneAfterTheOther'
  BY DEF IInv, TypeOK, CreateRow, NewRecord, NoRecord, RecordsAreInSlice, OnlyCurRuns,
         AttemptsLeft, OneAfterTheOther, Settled
<1>4. QED
  BY <1>1, <1>2, <1>3 DEF IInv

LEMMA EnqueueKeeps ==
    ASSUME IInv, NEW j \in Jobs, Enqueue(j)
    PROVE  IInv'
<1>1. NewRecord \in Record /\ rec[j] = NoRecord /\ rec' = [rec EXCEPT ![j] = NewRecord]
      /\ Persist(j) /\ NewRecord # NoRecord
  BY DEF Enqueue, NewRecord, NoRecord, Record, Status
<1>2. rec[j].status \notin Settled
  BY <1>1 DEF NoRecord, Settled
<1>3. db' \in [Jobs -> Record] /\ SettledRowIsTrue'
      /\ \A v \in Jobs : db'[v] = NoRecord => db[v] = NoRecord
  BY <1>1, <1>2, RowsFollow
<1>4. /\ slice \in Seq(Jobs) /\ slice' \in Seq(Jobs)
      /\ Len(slice') = Len(slice) + 1 /\ Len(slice) \in Nat
      /\ slice'[Len(slice) + 1] = j
      /\ \A i \in 1..Len(slice) : slice'[i] = slice[i] /\ slice[i] # j /\ slice[i] \in Jobs
  <2>1. slice \in Seq(Jobs) /\ slice' = Append(slice, j)
    BY DEF IInv, TypeOK, Enqueue
  <2>2. \A i \in 1..Len(slice) : slice[i] # j
    BY <1>1 DEF IInv, RecordsAreInSlice, NoRecord
  <2>3. Len(slice) \in Nat /\ \A i \in 1..Len(slice) : slice[i] \in Jobs
    BY <2>1
  <2>4. /\ slice' \in Seq(Jobs) /\ Len(slice') = Len(slice) + 1
        /\ slice'[Len(slice) + 1] = j
        /\ \A i \in 1..Len(slice) : slice'[i] = slice[i]
    BY <2>1, <2>3
  <2>5. QED
    BY <2>1, <2>2, <2>3, <2>4
<1>5. TypeOK'
  <2>1. rec' \in [Jobs -> Record]
    BY <1>1 DEF IInv, TypeOK
  <2>2. QED
    BY <2>1, <1>3, <1>4 DEF IInv, TypeOK, Enqueue
<1>6. RecordsAreInSlice'
  <2>1. \A i \in 1..Len(slice') : rec'[slice'[i]].status # "NONE"
    BY <1>1, <1>4 DEF IInv, TypeOK, RecordsAreInSlice, NewRecord
  <2>2. \A v \in Jobs : rec'[v].status = "NONE" => rec'[v] = NoRecord
    BY <1>1 DEF IInv, TypeOK, RecordsAreInSlice, NewRecord
  <2>3. \A v \in Jobs : db'[v] = NoRecord => rec'[v] = NoRecord
    BY <1>1, <1>3 DEF IInv, TypeOK, RecordsAreInSlice, Enqueue
  <2>4. \A i, k \in 1..Len(slice') : slice'[i] = slice'[k] => i = k
    BY <1>4 DEF IInv, RecordsAreInSlice
  <2>5. QED
    BY <2>1, <2>2, <2>3, <2>4 DEF RecordsAreInSlice
<1>7. OnlyCurRuns' /\ AttemptsLeft'
  BY <1>1, MemoryQueueAssumption
     DEF IInv, TypeOK, OnlyCurRuns, AttemptsLeft, Enqueue, NewRecord, NoRecord
<1>8. OneAfterTheOther'
  BY <1>1, <1>4 DEF IInv, TypeOK, OneAfterTheOther, NewRecord, Settled
<1>9. QED
  BY <1>3, <1>5, <1>6, <1>7, <1>8 DEF IInv

-----------------------------------------------------------------------------
\* Dequeue takes an entry with no QUEUED one before it; as the loop has no job
\* none is RUNNING either, so all of them are settled.
LEMMA DequeueKeeps ==
    ASSUME IInv, Dequeue
    PROVE  IInv'
<1>1. PICK i \in 1..Len(slice) :
         /\ IsFirstQueued(i)
         /\ cur' = slice[i]
         /\ rec' = [rec EXCEPT ![slice[i]] = [status |-> "RUNNING", attempts |-> @.attempts + 1]]
         /\ Persist(slice[i])
  BY DEF Dequeue
<1> DEFINE j == slice[i]
           r == [status |-> "RUNNING", attempts |-> rec[j].attempts + 1]
<1>2. /\ j \in Jobs /\ rec[j] \in Record /\ r \in Record /\ r # NoRecord
      /\ rec' = [rec EXCEPT ![j] = r]
      /\ rec[j].status = "QUEUED" /\ rec[j].attempts < MaxAttempts
      /\ Len(slice) \in Nat /\ \A k \in 1..Len(slice) : slice[k] \in Jobs
  BY <1>1 DEF IInv, TypeOK, IsFirstQueued, AttemptsLeft, Record, Status, NoRecord
<1>3. /\ db' \in [Jobs -> Record] /\ SettledRowIsTrue'
      /\ \A v \in Jobs : db'[v] = NoRecord => db[v] = NoRecord
  BY <1>1, <1>2, RowsFollow DEF Settled
<1>4. cur = NoJob /\ \A v \in Jobs : rec[v].status # "RUNNING"
  BY MemoryQueueAssumption DEF IInv, TypeOK, OnlyCurRuns, Dequeue
<1>5. TypeOK'
  <2>1. rec' \in [Jobs -> Record]
    BY <1>2 DEF IInv, TypeOK
  <2>2. QED
    BY <2>1, <1>1, <1>2, <1>3, MemoryQueueAssumption DEF IInv, TypeOK, Dequeue
<1>6. RecordsAreInSlice'
  BY <1>2, <1>3 DEF IInv, TypeOK, RecordsAreInSlice, Dequeue, NoRecord
<1>7. OnlyCurRuns'
  BY <1>1, <1>2, <1>4 DEF IInv, TypeOK, OnlyCurRuns
<1>8. AttemptsLeft'
  BY <1>2, MemoryQueueAssumption DEF IInv, TypeOK, AttemptsLeft, Record
<1>9. \A k \in 1..Len(slice) : k < i => rec[slice[k]].status \in Settled
  BY <1>1, <1>2, <1>4 DEF IInv, TypeOK, RecordsAreInSlice, IsFirstQueued, Record, Status, Settled
<1>10. OneAfterTheOther'
  <2> SUFFICES ASSUME NEW a \in 1..Len(slice), NEW b \in 1..Len(slice), a < b,
                      rec'[slice[b]].attempts > 0
               PROVE  rec'[slice[a]].status \in Settled
    BY DEF OneAfterTheOther, Dequeue
  <2>1. CASE b = i
    BY <2>1, <1>2, <1>9 DEF IInv, TypeOK, RecordsAreInSlice
  <2>2. CASE b # i
    <3>1. slice[b] # j /\ rec'[slice[b]] = rec[slice[b]]
      BY <2>2, <1>2 DEF IInv, TypeOK, RecordsAreInSlice
    <3>2. rec[slice[a]].status \in Settled
      BY <3>1 DEF IInv, OneAfterTheOther
    <3>3. slice[a] # j
      BY <3>2, <1>2 DEF Settled
    <3>4. QED
      BY <3>2, <3>3, <1>2 DEF IInv, TypeOK
  <2>3. QED
    BY <2>1, <2>2
<1>11. QED
  BY <1>3, <1>5, <1>6, <1>7, <1>8, <1>10 DEF IInv

\* The job of the loop ends a run with status s: settled, or QUEUED if it has
\* attempts left.
LEMMA EndOfRunKeeps ==
    ASSUME IInv, loop = "run", NEW s \in {"QUEUED", "SUCCEEDED", "FAILED"},
           s = "QUEUED" => HasAttempts(cur),
           rec' = [rec EXCEPT ![cur].status = s],
           Persist(cur),
           cur' = NoJob, loop' \in {"select", "callback"},
           UNCHANGED <<slice, projectFailed, stopping>>
    PROVE  IInv'
<1> DEFINE r == [rec[cur] EXCEPT !.status = s]
<1>1. /\ cur \in Jobs /\ rec[cur] \in Record /\ rec[cur].status = "RUNNING"
      /\ rec' = [rec EXCEPT ![cur] = r]
      /\ Len(slice) \in Nat /\ \A k \in 1..Len(slice) : slice[k] \in Jobs
  BY DEF IInv, TypeOK, OnlyCurRuns
<1>2. r \in Record /\ r.status = s /\ r.attempts = rec[cur].attempts /\ r # NoRecord
  BY <1>1 DEF Record, Status, NoRecord
<1>3. /\ db' \in [Jobs -> Record] /\ SettledRowIsTrue'
      /\ \A v \in Jobs : db'[v] = NoRecord => db[v] = NoRecord
  BY <1>1, <1>2, RowsFollow DEF Settled
<1>4. TypeOK'
  <2>1. rec' \in [Jobs -> Record]
    BY <1>1, <1>2 DEF IInv, TypeOK
  <2>2. QED
    BY <2>1, <1>3, MemoryQueueAssumption DEF IInv, TypeOK
<1>5. RecordsAreInSlice'
  BY <1>1, <1>2, <1>3 DEF IInv, TypeOK, RecordsAreInSlice, NoRecord
<1>6. OnlyCurRuns' /\ AttemptsLeft'
  BY <1>1, <1>2, MemoryQueueAssumption
     DEF IInv, TypeOK, OnlyCurRuns, AttemptsLeft, HasAttempts
<1>7. OneAfterTheOther'
  BY <1>1, <1>2 DEF IInv, TypeOK, OneAfterTheOther, Settled
<1>8. QED
  BY <1>3, <1>4, <1>5, <1>6, <1>7 DEF IInv

\* Every step keeps the inductive invariant.
LEMMA StepKeeps == IInv /\ [Next]_vars => IInv'
<1> SUFFICES ASSUME IInv, [Next]_vars PROVE IInv'
  OBVIOUS
<1>1. ASSUME NEW j \in Jobs, CreateRow(j) PROVE IInv'
  BY <1>1, CreateRowKeeps
<1>2. ASSUME NEW j \in Jobs, Enqueue(j) PROVE IInv'
  BY <1>2, EnqueueKeeps
<1>3. CASE Dequeue
  BY <1>3, DequeueKeeps
<1>4. CASE LoopEnds
  BY <1>4 DEF LoopEnds, IInv, TypeOK, RecordsAreInSlice, OnlyCurRuns, AttemptsLeft,
              OneAfterTheOther, SettledRowIsTrue
<1>5. CASE Complete
  BY <1>5, EndOfRunKeeps DEF Complete, Release
<1>6. CASE FailRequeues
  BY <1>6, EndOfRunKeeps DEF FailRequeues, Release
<1>7. CASE FailForGood
  BY <1>7, EndOfRunKeeps DEF FailForGood, Release
<1>8. CASE Callback
  BY <1>8 DEF Callback, IInv, TypeOK, RecordsAreInSlice, OnlyCurRuns, AttemptsLeft,
              OneAfterTheOther, SettledRowIsTrue
<1>9. CASE Stop
  BY <1>9 DEF Stop, IInv, TypeOK, RecordsAreInSlice, OnlyCurRuns, AttemptsLeft,
              OneAfterTheOther, SettledRowIsTrue
<1>10. CASE UNCHANGED vars
  BY <1>10 DEF vars, IInv, TypeOK, RecordsAreInSlice, OnlyCurRuns, AttemptsLeft,
               OneAfterTheOther, SettledRowIsTrue
<1>11. QED
  BY <1>1, <1>2, <1>3, <1>4, <1>5, <1>6, <1>7, <1>8, <1>9, <1>10 DEF Next, LoopStep

\* The inductive invariant holds in every state.
LEMMA Inductive == Spec => []IInv
<1>1. QED
  BY InitEstablishes, StepKeeps, PTL DEF Spec

-----------------------------------------------------------------------------
\* Type correctness: records, rows and the job of the loop are what their
\* comments say, whatever fails.
THEOREM TypeCorrect == Spec => []TypeOK
<1>1. IInv => TypeOK
  BY DEF IInv
<1>2. QED
  BY <1>1, Inductive, PTL

\* processLoop and the slice run jobs strictly in the order they were enqueued,
\* repetitions included.
THEOREM Sequential == Spec => []OneAfterTheOther
<1>1. IInv => OneAfterTheOther
  BY DEF IInv
<1>2. QED
  BY <1>1, Inductive, PTL

\* A row that says a job is over says what happened, though Complete and Fail
\* go on when onJobStateChange fails.
THEOREM RowsAreTrue == Spec => []SettledRowIsTrue
<1>1. IInv => SettledRowIsTrue
  BY DEF IInv
<1>2. QED
  BY <1>1, Inductive, PTL

-----------------------------------------------------------------------------
(* Refinement of JobLifecycle: INSTANCE Lifecycle of MemoryQueue.          *)

\* The record of one job changes: so do its status and attempts in the abstract
\* specification, and no others.
LEMMA OneRecordChanges ==
    ASSUME NEW j \in Jobs, NEW r, rec \in [Jobs -> Record],
           rec' = [rec EXCEPT ![j] = r]
    PROVE  /\ [v \in Jobs |-> rec'[v].status] = [[v \in Jobs |-> rec[v].status] EXCEPT ![j] = r.status]
           /\ [v \in Jobs |-> rec'[v].attempts] = [[v \in Jobs |-> rec[v].attempts] EXCEPT ![j] = r.attempts]
OBVIOUS

\* An end of a run is an end of a run of JobLifecycle, with a repetition only
\* while attempts are left and a failure only when none is.
LEMMA EndOfRunRefines ==
    ASSUME IInv, loop = "run", NEW s \in {"QUEUED", "SUCCEEDED", "FAILED"},
           s = "QUEUED" => HasAttempts(cur),
           s = "FAILED" => ~HasAttempts(cur),
           rec' = [rec EXCEPT ![cur].status = s]
    PROVE  Lifecycle!LifecycleNext
<1> DEFINE r == [rec[cur] EXCEPT !.status = s]
<1>1. /\ cur \in Jobs /\ rec \in [Jobs -> Record] /\ rec[cur].status = "RUNNING"
      /\ rec[cur].attempts \in Nat /\ rec[cur].attempts <= MaxAttempts
  BY DEF IInv, TypeOK, OnlyCurRuns, AttemptsLeft, Record
<1>2. rec' = [rec EXCEPT ![cur] = r] /\ r.status = s /\ r.attempts = rec[cur].attempts
  <2>1. rec[cur] \in Record
    BY <1>1
  <2>2. QED
    BY <1>1, <2>1 DEF Record
<1>3. /\ [v \in Jobs |-> rec'[v].status] = [[v \in Jobs |-> rec[v].status] EXCEPT ![cur] = s]
      /\ [v \in Jobs |-> rec'[v].attempts] = [[v \in Jobs |-> rec[v].attempts] EXCEPT ![cur] = rec[cur].attempts]
  BY <1>1, <1>2, OneRecordChanges
<1>4. [v \in Jobs |-> rec'[v].attempts] = [v \in Jobs |-> rec[v].attempts]
  BY <1>1, <1>3
<1>5. CASE s = "SUCCEEDED"
  BY <1>1, <1>3, <1>4, <1>5 DEF Lifecycle!LifecycleNext, Lifecycle!Succeed, Lifecycle!Move
<1>6. CASE s = "QUEUED"
  BY <1>1, <1>3, <1>4, <1>6 DEF HasAttempts, Lifecycle!LifecycleNext, Lifecycle!TryAgain, Lifecycle!Move
<1>7. CASE s = "FAILED"
  <2>1. rec[cur].attempts = MaxAttempts
    BY <1>1, <1>7, MemoryQueueAssumption DEF HasAttempts
  <2>2. QED
    BY <1>1, <1>3, <1>4, <1>7, <2>1
       DEF Lifecycle!LifecycleNext, Lifecycle!GiveUp, Lifecycle!Move
<1>8. QED
  BY <1>5, <1>6, <1>7

\* Every step of the queue is a step of JobLifecycle or leaves it alone.
LEMMA StepRefines ==
    ASSUME IInv, [Next]_vars
    PROVE  [Lifecycle!LifecycleNext]_(Lifecycle!lifecycleVars)
<1> USE DEF Lifecycle!lifecycleVars
<1>1. ASSUME UNCHANGED rec PROVE UNCHANGED Lifecycle!lifecycleVars
  BY <1>1
<1>2. ASSUME NEW j \in Jobs, Enqueue(j) PROVE Lifecycle!LifecycleNext
  <2>1. rec \in [Jobs -> Record] /\ rec[j] = NoRecord /\ rec' = [rec EXCEPT ![j] = NewRecord]
    BY <1>2 DEF IInv, TypeOK, Enqueue
  <2>2. /\ [v \in Jobs |-> rec'[v].status] = [[v \in Jobs |-> rec[v].status] EXCEPT ![j] = "QUEUED"]
        /\ [v \in Jobs |-> rec'[v].attempts] = [v \in Jobs |-> rec[v].attempts]
    <3>1. NewRecord.status = "QUEUED" /\ NewRecord.attempts = 0 /\ rec[j].attempts = 0
      BY <2>1 DEF NewRecord, NoRecord
    <3>2. QED
      BY <2>1, <3>1, OneRecordChanges
  <2>3. rec[j].status = "NONE"
    BY <2>1 DEF NoRecord
  <2>4. QED
    BY <2>2, <2>3 DEF Lifecycle!LifecycleNext, Lifecycle!Submit, Lifecycle!Move
<1>3. CASE Dequeue
  <2>1. PICK i \in 1..Len(slice) :
           /\ IsFirstQueued(i)
           /\ rec' = [rec EXCEPT ![slice[i]] = [status |-> "RUNNING", attempts |-> @.attempts + 1]]
    BY <1>3 DEF Dequeue
  <2> DEFINE j == slice[i]
  <2>2. /\ j \in Jobs /\ rec \in [Jobs -> Record]
        /\ rec[j].status = "QUEUED" /\ rec[j].attempts < MaxAttempts
    BY <2>1 DEF IInv, TypeOK, IsFirstQueued, AttemptsLeft
  <2>3. /\ [v \in Jobs |-> rec'[v].status] = [[v \in Jobs |-> rec[v].status] EXCEPT ![j] = "RUNNING"]
        /\ [v \in Jobs |-> rec'[v].attempts]
             = [[v \in Jobs |-> rec[v].attempts] EXCEPT ![j] = rec[j].attempts + 1]
    BY <2>1, <2>2, OneRecordChanges
  <2>4. QED
    BY <2>2, <2>3 DEF Lifecycle!LifecycleNext, Lifecycle!Start, Lifecycle!Move
<1>4. CASE Complete
  BY <1>4, EndOfRunRefines DEF Complete
<1>5. CASE FailRequeues
  BY <1>5, EndOfRunRefines DEF FailRequeues
<1>6. CASE FailForGood
  BY <1>6, EndOfRunRefines DEF FailForGood
<1>7. CASE UNCHANGED rec
  BY <1>1, <1>7
<1>8. QED
  BY <1>2, <1>3, <1>4, <1>5, <1>6, <1>7
     DEF Next, LoopStep, CreateRow, LoopEnds, Callback, Stop, vars

\* The in-memory queue gives every job the life JobLifecycle describes: its
\* handler runs at most MaxAttempts times, one at a time, and it is given up only
\* after the last one.
THEOREM RefinesLifecycle == Spec => ImplementsLifecycle
<1>1. Init => Lifecycle!LifecycleInit
  BY DEF Init, NoRecord, Lifecycle!LifecycleInit
<1>2. QED
  BY <1>1, Inductive, StepRefines, PTL DEF Spec, ImplementsLifecycle, Lifecycle!LifecycleSpec
=============================================================================
