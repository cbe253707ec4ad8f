---------------------------- MODULE PipelineProofs ----------------------------
(***************************************************************************)
(* Proofs about what becomes of the jobs of Workflow: that none is lost,   *)
(* that the pipeline goes on until its review or a job that is given up,   *)
(* and that what is made is made once.                                     *)
(***************************************************************************)
EXTENDS WorkflowProofs

-----------------------------------------------------------------------------
(* Delivery: the queue holds queued jobs only, each once, a running job is  *)
(* with at most one worker, only failed ones are about to be reset, each    *)
(* once, and an id is about to be pushed by one process only, which has     *)
(* just written the row and finds it in no queue.                           *)

Queued(i) == \E p \in 1..Len(pending) : pending[p] = i

QueueOK ==
    /\ \A p, q \in 1..Len(pending) : pending[p] = pending[q] => p = q
    /\ \A i \in 1..Len(jobs) : Queued(i) => jobs[i].status = "QUEUED"

\* Process p has written the row of a job and is about to push its id.
Pushing(p) == prog[p] # <<>> /\ Head(prog[p]).call = "push"

PushOK ==
    \A p \in Procs :
        /\ \A n \in 2..Len(prog[p]) : prog[p][n].call # "push"
        /\ Pushing(p) =>
             /\ Head(prog[p]).id \in 1..Len(jobs)
             /\ jobs[Head(prog[p]).id].status = "QUEUED" /\ ~Queued(Head(prog[p]).id)
             /\ \A q \in Procs : Pushing(q) /\ Head(prog[q]).id = Head(prog[p]).id => q = p

PlacesOK ==
    \A w \in Workers : /\ cur[w] = 0 <=> pc[w] \in {"idle", "failed"}
                       /\ prog[w] # <<>> <=> pc[w] = "calls"

HeldOK ==
    \A w \in Workers :
        cur[w] # 0 => /\ cur[w] \in 1..Len(jobs) /\ jobs[cur[w]].status = "RUNNING"
                      /\ \A v \in Workers : cur[v] = cur[w] => v = w

AttemptsOK ==
    \A i \in 1..Len(jobs) :
        /\ jobs[i].attempts <= MaxAttempts
        /\ jobs[i].status = "QUEUED" => jobs[i].attempts < MaxAttempts

Requeues(p) == {i \in 1..Len(prog[p]) : prog[p][i].call = "requeue"}

RetryOK ==
    /\ retries \in 0..MaxRetries
    /\ \A p \in Procs : \A i \in Requeues(p) :
         /\ p \notin Workers /\ retries = 1
         /\ jobs[prog[p][i].id].status = "FAILED"
         /\ \A q \in Procs : \A k \in Requeues(q) :
              q = p /\ (prog[q][k].id = prog[p][i].id => k = i)

Delivery == PlacesOK /\ QueueOK /\ HeldOK /\ AttemptsOK /\ RetryOK /\ PushOK

-----------------------------------------------------------------------------
(* Data.                                                                   *)

LEMMA QueueFacts ==
    ASSUME NEW S, NEW q \in Seq(S)
    PROVE  /\ Len(q) \in Nat
           /\ \A p \in 1..Len(q) : q[p] \in S
           /\ q # <<>> => /\ Len(q) > 0 /\ Head(q) = q[1] /\ Tail(q) \in Seq(S)
                          /\ Len(Tail(q)) = Len(q) - 1
                          /\ \A p \in 1..Len(Tail(q)) : Tail(q)[p] = q[p + 1]
           /\ \A e \in S : /\ Append(q, e) \in Seq(S)
                           /\ Len(Append(q, e)) = Len(q) + 1
                           /\ Append(q, e)[Len(q) + 1] = e
                           /\ \A p \in 1..Len(q) : Append(q, e)[p] = q[p]
OBVIOUS

\* The jobs of the table, with their fields.
LEMMA JobFacts ==
    ASSUME Ready, NEW i \in 1..Len(jobs)
    PROVE  /\ jobs[i] \in ReadyJobs /\ jobs[i].kind \in ReadyKinds /\ jobs[i].kind \in Kinds
           /\ jobs[i].status \in {"QUEUED", "RUNNING", "SUCCEEDED", "FAILED"}
           /\ jobs[i].attempts \in Nat
<1>1. jobs[i] \in ReadyJobs
  BY DEF Ready, TablesReady
<1>2. QED
  BY <1>1 DEF ReadyJobs, ReadyKinds

\* A job whose status changes keeps what else it has.
LEMMA StatusSet ==
    ASSUME Ready, NEW i \in 1..Len(jobs), NEW s, jobs' = [jobs EXCEPT ![i].status = s]
    PROVE  /\ Len(jobs') = Len(jobs)
           /\ \A k \in 1..Len(jobs) : /\ jobs'[k].kind = jobs[k].kind
                                      /\ jobs'[k].attempts = jobs[k].attempts
                                      /\ k # i => jobs'[k] = jobs[k]
           /\ jobs'[i].status = s
<1>1. jobs \in Seq(ReadyJobs) /\ jobs[i] \in ReadyJobs
  BY JobFacts DEF Ready, TablesReady
<1>2. QED
  BY <1>1 DEF ReadyJobs

\* What Take does to the tables.
LEMMA TakeFacts ==
    ASSUME Ready, NEW w \in Workers, Take(w)
    PROVE  /\ Len(pending) > 0 /\ pending[1] \in 1..Len(jobs)
           /\ Len(pending') = Len(pending) - 1
           /\ \A p \in 1..Len(pending') : pending'[p] = pending[p + 1]
           /\ Len(jobs') = Len(jobs)
           /\ \A k \in 1..Len(jobs) : /\ jobs'[k].kind = jobs[k].kind
                                      /\ k # pending[1] => jobs'[k] = jobs[k]
           /\ jobs'[pending[1]].status = "RUNNING"
           /\ jobs'[pending[1]].attempts = jobs[pending[1]].attempts + 1
           /\ cur' = [cur EXCEPT ![w] = pending[1]] /\ pc' = [pc EXCEPT ![w] = "inputs"]
           /\ pc[w] = "idle" /\ UNCHANGED <<status, rows, audios, prog, retries>>
<1>1. pending \in Seq(1..Len(jobs)) /\ pending # <<>> /\ jobs \in Seq(ReadyJobs)
  BY DEF Take, Ready, TablesReady
<1>2. /\ Len(pending) > 0 /\ Head(pending) = pending[1] /\ pending[1] \in 1..Len(jobs)
      /\ Len(Tail(pending)) = Len(pending) - 1
      /\ \A p \in 1..Len(Tail(pending)) : Tail(pending)[p] = pending[p + 1]
  BY <1>1, QueueFacts
<1> DEFINE i == pending[1]
           j == [jobs[i] EXCEPT !.status = "RUNNING", !.attempts = @ + 1]
<1>3. jobs[i] \in ReadyJobs
  BY <1>2, JobFacts
<1>4. j.kind = jobs[i].kind /\ j.status = "RUNNING" /\ j.attempts = jobs[i].attempts + 1
  BY <1>3 DEF ReadyJobs
<1>5. jobs' = [jobs EXCEPT ![i] = j]
  <2>1. jobs' = [jobs EXCEPT ![i].status = "RUNNING", ![i].attempts = @ + 1]
    BY <1>2 DEF Take
  <2>2. DOMAIN jobs = 1..Len(jobs)
    BY <1>1
  <2>3. QED
    BY <1>2, <1>3, <2>1, <2>2 DEF ReadyJobs
<1> HIDE DEF j
<1>6. Len(jobs') = Len(jobs) /\ jobs'[i] = j /\ \A k \in 1..Len(jobs) : k # i => jobs'[k] = jobs[k]
  BY <1>1, <1>2, <1>5
<1>7. pending' = Tail(pending) /\ cur' = [cur EXCEPT ![w] = i] /\ pc' = [pc EXCEPT ![w] = "inputs"]
      /\ pc[w] = "idle" /\ UNCHANGED <<status, rows, audios, prog, retries>>
  BY <1>2 DEF Take, Goto
<1>8. QED
  BY <1>2, <1>4, <1>6, <1>7

\* What is left of a program after a call: the rest of it, or the call that
\* follows on this one and the rest.
LEMMA RestFacts ==
    ASSUME Ready, NEW p \in Procs, prog[p] # <<>>
    PROVE  /\ Len(prog[p]) \in Nat /\ Len(prog[p]) > 0 /\ Head(prog[p]) = prog[p][1]
           /\ \/ /\ Head(prog[p]).call \notin {"enqueue", "requeue"}
                 /\ Rest(p) = Tail(prog[p]) /\ Len(Rest(p)) = Len(prog[p]) - 1
                 /\ \A n \in 1..Len(Rest(p)) : Rest(p)[n] = prog[p][n + 1]
              \/ /\ Len(Rest(p)) = Len(prog[p]) /\ Rest(p) # <<>> /\ Head(Rest(p)) = Rest(p)[1]
                 /\ \A n \in 2..Len(Rest(p)) : Rest(p)[n] = prog[p][n]
                 /\ \/ Head(prog[p]).call = "enqueue" /\ Rest(p)[1] = Push(Len(jobs) + 1)
                    \/ Head(prog[p]).call = "requeue" /\ Rest(p)[1] = Push(Head(prog[p]).id)
                    \/ /\ Head(prog[p]).call = "restore"
                       /\ Rest(p)[1] = SetStatus(StatusForRetry(Head(prog[p]).type))
<1> DEFINE op == Head(prog[p])
           t == Tail(prog[p])
<1>1. PICK S : prog[p] \in Seq(S)
  <2>1. prog[p] \in Seq(ReadyCalls) \/ prog[p] = UserScript
    BY DEF Ready, ProgramsReady
  <2>2. OnScriptGenerated \in Seq(Calls(Kinds, Statuses, 0))
    BY KindFacts, ProjectPrograms DEF PlainStatuses
  <2>3. \A T, a : \A s \in Seq(T) : <<a>> \o s \in Seq(T \cup {a})
    OBVIOUS
  <2>4. UserScript \in Seq(Calls(Kinds, Statuses, 0) \cup {SaveScript})
    BY <2>2, <2>3 DEF UserScript
  <2>5. QED
    BY <2>1, <2>4
<1>2. /\ Len(prog[p]) \in Nat /\ Len(prog[p]) > 0 /\ op = prog[p][1] /\ t \in Seq(S)
      /\ Len(t) = Len(prog[p]) - 1 /\ \A n \in 1..Len(t) : t[n] = prog[p][n + 1]
  BY <1>1, QueueFacts
<1> HIDE DEF op, t
<1>3. ASSUME FollowedBy(op) = <<>> PROVE Rest(p) = t
  <2>1. \A T : \A s \in Seq(T) : <<>> \o s = s
    OBVIOUS
  <2>2. QED
    BY <1>2, <1>3, <2>1 DEF Rest, op, t
<1>4. ASSUME NEW e, FollowedBy(op) = <<e>>
      PROVE  /\ Len(Rest(p)) = Len(prog[p]) /\ Rest(p) # <<>> /\ Head(Rest(p)) = Rest(p)[1]
             /\ Rest(p)[1] = e /\ \A n \in 2..Len(Rest(p)) : Rest(p)[n] = prog[p][n]
  <2>1. \A T, a : \A s \in Seq(T) : /\ Len(<<a>> \o s) = Len(s) + 1 /\ <<a>> \o s # <<>>
                                   /\ Head(<<a>> \o s) = a /\ (<<a>> \o s)[1] = a
                                   /\ \A n \in 2..(Len(s) + 1) : (<<a>> \o s)[n] = s[n - 1]
    OBVIOUS
  <2>2. Rest(p) = <<e>> \o t
    BY <1>4 DEF Rest, op, t
  <2>3. \A n \in 2..Len(prog[p]) : n - 1 \in 1..Len(t) /\ (n - 1) + 1 = n
    BY <1>2
  <2>4. QED
    BY <1>2, <2>1, <2>2, <2>3
<1>5. CASE op.call = "enqueue"
  <2>1. FollowedBy(op) = <<Push(Len(jobs) + 1)>>
    BY <1>5 DEF FollowedBy
  <2>2. QED
    BY <1>2, <1>4, <1>5, <2>1 DEF op
<1>6. CASE op.call = "requeue"
  <2>1. FollowedBy(op) = <<Push(op.id)>>
    BY <1>6 DEF FollowedBy
  <2>2. QED
    BY <1>2, <1>4, <1>6, <2>1 DEF op
<1>7. CASE op.call = "restore" /\ status = "FAILED"
  <2>1. FollowedBy(op) = <<SetStatus(StatusForRetry(op.type))>>
    BY <1>7 DEF FollowedBy
  <2>2. QED
    BY <1>2, <1>4, <1>7, <2>1 DEF op
<1>8. CASE op.call \notin {"enqueue", "requeue"} /\ ~(op.call = "restore" /\ status = "FAILED")
  <2>1. FollowedBy(op) = <<>>
    BY <1>8 DEF FollowedBy
  <2>2. QED
    BY <1>2, <1>3, <1>8, <2>1 DEF op, t
<1>9. QED
  BY <1>5, <1>6, <1>7, <1>8

\* Each call of what is left was in the program, d places further, or follows on
\* the call just made.
LEMMA RestIndex ==
    ASSUME Ready, NEW p \in Procs, prog[p] # <<>>
    PROVE  \E d \in {0, 1} : \A n \in 1..Len(Rest(p)) :
             \/ n + d # 1 /\ n + d \in 1..Len(prog[p]) /\ Rest(p)[n] = prog[p][n + d]
             \/ d = 0 /\ n = 1 /\ Rest(p)[1].call \in {"push", "status"}
<1>1. Len(prog[p]) \in Nat /\ Len(prog[p]) > 0
  BY RestFacts
<1>2. CASE Len(Rest(p)) = Len(prog[p]) - 1 /\ \A n \in 1..Len(Rest(p)) : Rest(p)[n] = prog[p][n + 1]
  BY <1>1, <1>2
<1>3. CASE /\ Len(Rest(p)) = Len(prog[p]) /\ \A n \in 2..Len(Rest(p)) : Rest(p)[n] = prog[p][n]
           /\ Rest(p)[1].call \in {"push", "status"}
  <2>1. \A n \in 1..Len(Rest(p)) : n = 1 \/ (n + 0 # 1 /\ n + 0 = n /\ n \in 2..Len(Rest(p)))
    BY <1>1, <1>3
  <2>2. QED
    BY <1>3, <2>1
<1>4. Push(Len(jobs) + 1).call = "push" /\ Push(Head(prog[p]).id).call = "push"
      /\ SetStatus(StatusForRetry(Head(prog[p]).type)).call = "status"
  BY DEF Push, SetStatus
<1>5. QED
  BY <1>2, <1>3, <1>4, RestFacts

\* What a call does to the tables jobs and pending.
LEMMA CallTables ==
    ASSUME Ready, NEW p \in Procs, prog[p] # <<>>, Perform(Head(prog[p]))
    PROVE  \/ UNCHANGED <<jobs, pending>> /\ Head(prog[p]).call \in {"status", "restore", "script"}
           \/ DoCreateJob(Head(prog[p])) /\ Head(prog[p]).kind \in Kinds
           \/ DoResetJob(Head(prog[p])) /\ Head(prog[p]).id \in 1..Len(jobs)
           \/ DoPush(Head(prog[p])) /\ Head(prog[p]).id \in 1..Len(jobs)
<1>1. Len(jobs) \in Nat /\ (prog[p] \in Seq(ReadyCalls) \/ prog[p] = UserScript)
  BY DEF Ready, ProgramsReady, TablesReady
<1>2. Head(prog[p]) \in ReadyCalls \/ Head(prog[p]) = SaveScript
  BY <1>1, SeqFacts, UserScriptFacts
<1>3. CASE Head(prog[p]) = SaveScript
  BY <1>3 DEF Perform, SaveScript, DoSetStatus, DoReadProject, DoPush, DoSaveScript, DoCreateJob, DoResetJob
<1>4. CASE Head(prog[p]) \in ReadyCalls
  <2>1. Head(prog[p]).call = "enqueue" => Head(prog[p]).kind \in Kinds
    BY <1>1, <1>4, CallFacts DEF ReadyCalls, ReadyKinds
  <2>2. Head(prog[p]).call \in {"requeue", "push"} => Head(prog[p]).id \in 1..Len(jobs)
    BY <1>1, <1>4, CallFacts DEF ReadyCalls
  <2>3. QED
    BY <2>1, <2>2 DEF Perform, DoSetStatus, DoReadProject, DoPush, DoSaveScript, DoCreateJob, DoResetJob
<1>5. QED
  BY <1>2, <1>3, <1>4

\* What a step does to the tables jobs and pending and to who has which job.
QuietStep == UNCHANGED <<jobs, pending>> /\ \A w \in Workers : cur'[w] \in {cur[w], 0}
Settles(w) ==
    /\ cur[w] # 0 /\ pc[w] \in {"done", "error"} /\ cur' = [cur EXCEPT ![w] = 0]
    /\ \/ /\ jobs' = [jobs EXCEPT ![cur[w]].status = "SUCCEEDED"] /\ UNCHANGED pending
          /\ pc[w] = "done"
       \/ /\ jobs' = [jobs EXCEPT ![cur[w]].status = "FAILED"] /\ UNCHANGED pending
          /\ pc[w] = "error"
       \/ /\ jobs' = [jobs EXCEPT ![cur[w]].status = "QUEUED"] /\ pending' = Append(pending, cur[w])
          /\ pc[w] = "error" /\ jobs[cur[w]].attempts < MaxAttempts
Submits(p) ==
    /\ prog[p] # <<>> /\ UNCHANGED cur /\ prog' = [prog EXCEPT ![p] = Rest(p)]
    /\ \/ DoCreateJob(Head(prog[p])) /\ Head(prog[p]).kind \in Kinds
       \/ DoResetJob(Head(prog[p])) /\ Head(prog[p]).id \in 1..Len(jobs)
Delivers(p) ==
    /\ prog[p] # <<>> /\ UNCHANGED cur /\ prog' = [prog EXCEPT ![p] = Rest(p)]
    /\ DoPush(Head(prog[p])) /\ Head(prog[p]).id \in 1..Len(jobs)

LEMMA TableStep ==
    ASSUME Ready, PlacesOK, [Next]_vars
    PROVE  \/ QuietStep
           \/ \E w \in Workers : Take(w) \/ Settles(w)
           \/ \E p \in Procs : Submits(p) \/ Delivers(p)
<1>1. CASE UNCHANGED vars
  BY <1>1 DEF vars, QuietStep
<1>2. ASSUME NEW w \in Workers, WorkerStep(w)
      PROVE  QuietStep \/ Take(w) \/ Settles(w) \/ Submits(w) \/ Delivers(w)
  <2>1. CASE Complete(w) \/ FailAndRetry(w) \/ FailForGood(w)
    BY <2>1 DEF Complete, FailAndRetry, FailForGood, Release, Settles, PlacesOK
  <2>2. CASE WorkerCall(w)
    <3>1. prog[w] # <<>> /\ Perform(Head(prog[w])) /\ UNCHANGED cur /\ w \in Procs
          /\ prog' = [prog EXCEPT ![w] = Rest(w)]
      BY <2>2 DEF WorkerCall, NextCall, PlacesOK, Procs
    <3>2. QED
      BY <3>1, CallTables DEF Submits, Delivers, QuietStep
  <2>3. CASE \/ ReadInputs(w) \/ CheckExisting(w) \/ MissSubtitle(w) \/ Generate(w)
             \/ GenerateNoScenes(w) \/ GenerateError(w) \/ CountAudios(w) \/ CountImages(w)
             \/ WorkerError(w) \/ FailProject(w)
    BY <2>3 DEF ReadInputs, CheckExisting, MissSubtitle, Generate, GenerateNoScenes, GenerateError,
                CountAudios, CountImages, WorkerError, FailProject, QuietStep
  <2>4. CASE Panic(w)
    BY <2>4 DEF Panic, QuietStep
  <2>5. QED
    BY <1>2, <2>1, <2>2, <2>3, <2>4 DEF WorkerStep
<1>3. ASSUME NEW c \in Clients,
             CreateProject(c) \/ Approve(c) \/ Reject(c) \/ RetryProject(c) \/ ClientStep(c)
      PROVE  QuietStep \/ Submits(c) \/ Delivers(c)
  <2>1. CASE ClientCall(c)
    <3>1. prog[c] # <<>> /\ Perform(Head(prog[c])) /\ UNCHANGED cur /\ c \in Procs
          /\ prog' = [prog EXCEPT ![c] = Rest(c)]
      BY <2>1 DEF ClientCall, NextCall, Procs
    <3>2. QED
      BY <3>1, CallTables DEF Submits, Delivers, QuietStep
  <2>2. CASE CreateProject(c) \/ Approve(c) \/ Reject(c) \/ RetryProject(c) \/ ClientError(c)
    BY <2>2 DEF CreateProject, Approve, Reject, RetryProject, ClientError, Request, QuietStep
  <2>3. QED
    BY <1>3, <2>1, <2>2 DEF ClientStep
<1>4. QED
  BY <1>1, <1>2, <1>3 DEF Next, Procs

-----------------------------------------------------------------------------
(* Delivery is kept.                                                       *)

LEMMA TakeDelivers ==
    ASSUME Ready, Delivery, NEW w \in Workers, Take(w)
    PROVE  QueueOK' /\ HeldOK' /\ AttemptsOK'
<1> DEFINE i == pending[1]
<1>1. /\ Len(pending) > 0 /\ i \in 1..Len(jobs) /\ Len(pending') = Len(pending) - 1
      /\ \A p \in 1..Len(pending') : pending'[p] = pending[p + 1]
      /\ Len(jobs') = Len(jobs) /\ \A k \in 1..Len(jobs) : k # i => jobs'[k] = jobs[k]
      /\ jobs'[i].status = "RUNNING" /\ jobs'[i].attempts = jobs[i].attempts + 1
      /\ cur' = [cur EXCEPT ![w] = i]
  BY TakeFacts
<1>2. Len(pending) \in Nat /\ Len(jobs) \in Nat /\ cur \in [Workers -> Nat]
  BY DEF Ready, TablesReady, WorkersReady
<1>3. jobs[i].status = "QUEUED" /\ jobs[i].attempts < MaxAttempts /\ jobs[i].attempts \in Nat
  BY <1>1, <1>2, JobFacts DEF Delivery, QueueOK, AttemptsOK, Queued
<1>4. \A k \in 1..Len(jobs) : Queued(k)' <=> Queued(k) /\ k # i
  <2>1. ASSUME NEW k \in 1..Len(jobs), Queued(k)' PROVE Queued(k) /\ k # i
    <3>1. PICK p \in 1..Len(pending') : pending'[p] = k
      BY <2>1 DEF Queued
    <3>2. p + 1 \in 1..Len(pending) /\ pending[p + 1] = k /\ 1 \in 1..Len(pending) /\ p + 1 # 1
      BY <1>1, <1>2, <3>1
    <3>3. QED
      BY <3>2 DEF Queued, Delivery, QueueOK
  <2>2. ASSUME NEW k \in 1..Len(jobs), Queued(k), k # i PROVE Queued(k)'
    <3>1. PICK p \in 1..Len(pending) : pending[p] = k
      BY <2>2 DEF Queued
    <3>2. p # 1 /\ p - 1 \in 1..Len(pending') /\ pending'[p - 1] = k
      BY <1>1, <1>2, <2>2, <3>1
    <3>3. QED
      BY <3>2 DEF Queued
  <2>3. QED
    BY <2>1, <2>2
<1>5. QueueOK'
  <2>1. \A p, q \in 1..Len(pending') : pending'[p] = pending'[q] => p = q
    BY <1>1, <1>2 DEF Delivery, QueueOK
  <2>2. \A k \in 1..Len(jobs') : Queued(k)' => jobs'[k].status = "QUEUED"
    BY <1>1, <1>4 DEF Delivery, QueueOK
  <2>3. QED
    BY <2>1, <2>2 DEF QueueOK
<1>6. HeldOK'
  BY <1>1, <1>2, <1>3 DEF Delivery, HeldOK
<1>7. AttemptsOK'
  <2>1. jobs'[i].attempts <= MaxAttempts /\ jobs'[i].status # "QUEUED"
    BY <1>1, <1>3, WorkflowAssumption
  <2>2. \A k \in 1..Len(jobs') : k # i => jobs'[k] = jobs[k]
    BY <1>1
  <2>3. QED
    BY <1>1, <2>1, <2>2 DEF Delivery, AttemptsOK
<1>8. QED
  BY <1>5, <1>6, <1>7

LEMMA SettleDelivers ==
    ASSUME Ready, Delivery, NEW w \in Workers, Settles(w)
    PROVE  QueueOK' /\ HeldOK' /\ AttemptsOK'
<1>1. cur[w] \in 1..Len(jobs) /\ jobs[cur[w]].status = "RUNNING" /\ ~Queued(cur[w])
  BY DEF Settles, Delivery, HeldOK, QueueOK
<1>2. PICK s \in {"SUCCEEDED", "FAILED", "QUEUED"} :
         /\ jobs' = [jobs EXCEPT ![cur[w]].status = s]
         /\ pending' = IF s = "QUEUED" THEN Append(pending, cur[w]) ELSE pending
         /\ s = "QUEUED" => jobs[cur[w]].attempts < MaxAttempts
  BY DEF Settles
<1>3. /\ Len(jobs') = Len(jobs)
      /\ \A k \in 1..Len(jobs) : /\ jobs'[k].attempts = jobs[k].attempts
                                 /\ k # cur[w] => jobs'[k] = jobs[k]
      /\ jobs'[cur[w]].status = s
  BY <1>1, <1>2, StatusSet
<1>4. pending \in Seq(1..Len(jobs)) /\ Len(pending) \in Nat /\ Len(jobs) \in Nat
      /\ cur \in [Workers -> Nat] /\ cur' = [cur EXCEPT ![w] = 0]
  BY DEF Ready, TablesReady, WorkersReady, Settles
<1>5. s = "QUEUED" => /\ Len(pending') = Len(pending) + 1 /\ pending'[Len(pending) + 1] = cur[w]
                      /\ \A p \in 1..Len(pending) : pending'[p] = pending[p]
  BY <1>1, <1>2, <1>4, QueueFacts
<1>6. \A k \in 1..Len(jobs) : Queued(k)' <=> Queued(k) \/ (k = cur[w] /\ s = "QUEUED")
  <2>1. CASE s = "QUEUED"
    <3>1. ASSUME NEW k \in 1..Len(jobs), Queued(k)' PROVE Queued(k) \/ k = cur[w]
      <4>1. PICK p \in 1..Len(pending') : pending'[p] = k
        BY <3>1 DEF Queued
      <4>2. p \in 1..Len(pending) \/ p = Len(pending) + 1
        BY <1>4, <1>5, <2>1
      <4>3. QED
        BY <1>5, <2>1, <4>1, <4>2 DEF Queued
    <3>2. ASSUME NEW k \in 1..Len(jobs), Queued(k) PROVE Queued(k)'
      <4>1. PICK p \in 1..Len(pending) : pending[p] = k
        BY <3>2 DEF Queued
      <4>2. p \in 1..Len(pending') /\ pending'[p] = k
        BY <1>4, <1>5, <2>1, <4>1
      <4>3. QED
        BY <4>2 DEF Queued
    <3>3. ASSUME NEW k \in 1..Len(jobs), k = cur[w] PROVE Queued(k)'
      <4>1. Len(pending) + 1 \in 1..Len(pending') /\ pending'[Len(pending) + 1] = k
        BY <1>4, <1>5, <2>1, <3>3
      <4>2. QED
        BY <4>1 DEF Queued
    <3>4. QED
      BY <2>1, <3>1, <3>2, <3>3
  <2>2. CASE s # "QUEUED"
    BY <1>2, <2>2 DEF Queued
  <2>3. QED
    BY <2>1, <2>2
<1>7. QueueOK'
  <2>1. \A p, q \in 1..Len(pending') : pending'[p] = pending'[q] => p = q
    <3>1. CASE s = "QUEUED"
      <4>1. \A p \in 1..Len(pending') : p \in 1..Len(pending) \/ p = Len(pending) + 1
        BY <1>4, <1>5, <3>1
      <4>2. \A p \in 1..Len(pending) : pending'[p] = pending[p] /\ pending[p] # cur[w]
        BY <1>1, <1>5, <3>1 DEF Queued
      <4>3. pending'[Len(pending) + 1] = cur[w]
        BY <1>5, <3>1
      <4>4. \A p, q \in 1..Len(pending) : pending[p] = pending[q] => p = q
        BY DEF Delivery, QueueOK
      <4>5. QED
        BY <4>1, <4>2, <4>3, <4>4
    <3>2. CASE s # "QUEUED"
      BY <1>2, <3>2 DEF Delivery, QueueOK
    <3>3. QED
      BY <3>1, <3>2
  <2>2. \A k \in 1..Len(jobs') : Queued(k)' => jobs'[k].status = "QUEUED"
    BY <1>1, <1>3, <1>6 DEF Delivery, QueueOK
  <2>3. QED
    BY <2>1, <2>2 DEF QueueOK
<1>8. HeldOK'
  BY <1>1, <1>3, <1>4 DEF Delivery, HeldOK
<1>9. AttemptsOK'
  BY <1>1, <1>2, <1>3 DEF Delivery, AttemptsOK
<1>10. QED
  BY <1>7, <1>8, <1>9

\* A call that writes the row of a job: a new one, or a failed one again.
LEMMA SubmitFacts ==
    ASSUME Ready, Delivery, NEW p \in Procs, Submits(p)
    PROVE  \E i \in 1..(Len(jobs) + 1) :
             /\ UNCHANGED pending
             /\ i \in 1..Len(jobs) => /\ jobs[i].status = "FAILED" /\ retries = 1
                                     /\ jobs'[i].kind = jobs[i].kind
                                     /\ Head(prog[p]).call = "requeue" /\ Head(prog[p]).id = i
             /\ i \notin 1..Len(jobs) => /\ Head(prog[p]).call = "enqueue" /\ i = Len(jobs) + 1
                                        /\ jobs'[i].kind = Head(prog[p]).kind
             /\ Len(jobs) <= Len(jobs') /\ 1..Len(jobs') = 1..Len(jobs) \cup {i}
             /\ jobs'[i].status = "QUEUED" /\ jobs'[i].attempts = 0
             /\ \A k \in 1..Len(jobs) : k # i => jobs'[k] = jobs[k]
<1> DEFINE op == Head(prog[p])
<1>1. /\ pending \in Seq(1..Len(jobs)) /\ Len(pending) \in Nat /\ Len(jobs) \in Nat
      /\ jobs \in Seq(ReadyJobs) /\ cur \in [Workers -> Nat] /\ UNCHANGED cur
  BY DEF Ready, TablesReady, WorkersReady, Submits
<1>2. CASE DoCreateJob(op)
  <2>1. jobs' = Append(jobs, NewJob(op.kind)) /\ UNCHANGED pending /\ op.call = "enqueue"
    BY <1>2 DEF DoCreateJob
  <2>2. /\ Len(jobs') = Len(jobs) + 1 /\ jobs'[Len(jobs) + 1] = NewJob(op.kind)
        /\ \A k \in 1..Len(jobs) : jobs'[k] = jobs[k]
    BY <1>1, <2>1
  <2>3. NewJob(op.kind).status = "QUEUED" /\ NewJob(op.kind).attempts = 0
        /\ NewJob(op.kind).kind = op.kind
    BY DEF NewJob
  <2>4. Len(jobs) + 1 \in 1..(Len(jobs) + 1) /\ Len(jobs) + 1 \notin 1..Len(jobs)
        /\ 1..Len(jobs') = 1..Len(jobs) \cup {Len(jobs) + 1}
    BY <1>1, <2>2
  <2> WITNESS Len(jobs) + 1 \in 1..(Len(jobs) + 1)
  <2>5. Len(jobs) <= Len(jobs')
    BY <1>1, <2>2
  <2>6. QED
    BY <2>1, <2>2, <2>3, <2>4, <2>5
<1>3. CASE DoResetJob(op)
  <2>1. op.id \in 1..Len(jobs) /\ jobs' = [jobs EXCEPT ![op.id] = NewJob(jobs[op.id].kind)]
        /\ UNCHANGED pending /\ op.call = "requeue" /\ prog[p] # <<>>
    BY <1>3 DEF DoResetJob, Submits, DoCreateJob
  <2>2. prog[p] \in Seq(ReadyCalls) \cup {UserScript}
    BY DEF Ready, ProgramsReady
  <2>3. 1 \in Requeues(p) /\ prog[p][1] = op
    <3>1. \A S : \A q \in Seq(S) : q # <<>> => 1 \in 1..Len(q) /\ Head(q) = q[1]
      OBVIOUS
    <3>2. prog[p] # UserScript
      BY <2>1, UserScriptFacts DEF SaveScript
    <3>3. QED
      BY <2>1, <2>2, <3>1, <3>2 DEF Requeues
  <2>4. jobs[op.id].status = "FAILED" /\ retries = 1
    BY <2>3 DEF Delivery, RetryOK
  <2>5. /\ Len(jobs') = Len(jobs) /\ jobs'[op.id] = NewJob(jobs[op.id].kind)
        /\ \A k \in 1..Len(jobs) : k # op.id => jobs'[k] = jobs[k]
    BY <1>1, <2>1
  <2>6. jobs'[op.id].status = "QUEUED" /\ jobs'[op.id].attempts = 0
        /\ jobs'[op.id].kind = jobs[op.id].kind
    BY <2>5 DEF NewJob
  <2>7. op.id \in 1..(Len(jobs) + 1) /\ 1..Len(jobs') = 1..Len(jobs) \cup {op.id}
    BY <1>1, <2>1, <2>5
  <2> WITNESS op.id \in 1..(Len(jobs) + 1)
  <2>8. Len(jobs) <= Len(jobs')
    BY <1>1, <2>5
  <2>9. QED
    BY <2>1, <2>4, <2>5, <2>6, <2>7, <2>8
<1>4. QED
  BY <1>2, <1>3 DEF Submits

LEMMA SubmitDelivers ==
    ASSUME Ready, Delivery, NEW p \in Procs, Submits(p)
    PROVE  QueueOK' /\ HeldOK' /\ AttemptsOK'
<1>1. Len(jobs) \in Nat /\ UNCHANGED cur
  BY DEF Ready, TablesReady, Submits
<1>2. PICK i \in 1..(Len(jobs) + 1) :
         /\ UNCHANGED pending
         /\ i \in 1..Len(jobs) => jobs[i].status = "FAILED"
         /\ Len(jobs) <= Len(jobs') /\ 1..Len(jobs') = 1..Len(jobs) \cup {i}
         /\ jobs'[i].status = "QUEUED" /\ jobs'[i].attempts = 0
         /\ \A k \in 1..Len(jobs) : k # i => jobs'[k] = jobs[k]
  BY SubmitFacts
<1>3. QueueOK'
  BY <1>2 DEF Delivery, QueueOK, Queued
<1>4. HeldOK'
  BY <1>1, <1>2 DEF Delivery, HeldOK
<1>5. AttemptsOK'
  BY <1>1, <1>2, WorkflowAssumption DEF Delivery, AttemptsOK
<1>6. QED
  BY <1>3, <1>4, <1>5

\* What a push does to the queue.
LEMMA PushFacts ==
    ASSUME Ready, NEW p \in Procs, Delivers(p)
    PROVE  /\ Head(prog[p]).call = "push" /\ Head(prog[p]).id \in 1..Len(jobs)
           /\ UNCHANGED <<jobs, cur>>
           /\ Len(pending) \in Nat /\ Len(pending') = Len(pending) + 1
           /\ pending'[Len(pending) + 1] = Head(prog[p]).id
           /\ \A q \in 1..Len(pending) : pending'[q] = pending[q]
           /\ \A k : Queued(k)' <=> Queued(k) \/ k = Head(prog[p]).id
<1>1. /\ Head(prog[p]).call = "push" /\ Head(prog[p]).id \in 1..Len(jobs) /\ UNCHANGED <<jobs, cur>>
      /\ pending' = Append(pending, Head(prog[p]).id) /\ pending \in Seq(1..Len(jobs))
  BY DEF Delivers, DoPush, Ready, TablesReady
<1>2. /\ Len(pending) \in Nat /\ Len(pending') = Len(pending) + 1
      /\ pending'[Len(pending) + 1] = Head(prog[p]).id
      /\ \A q \in 1..Len(pending) : pending'[q] = pending[q]
  BY <1>1, QueueFacts
<1>3. ASSUME NEW k PROVE Queued(k)' <=> Queued(k) \/ k = Head(prog[p]).id
  <2>1. ASSUME NEW q \in 1..Len(pending'), pending'[q] = k PROVE Queued(k) \/ k = Head(prog[p]).id
    <3>1. q \in 1..Len(pending) \/ q = Len(pending) + 1
      BY <1>2
    <3>2. QED
      BY <1>2, <2>1, <3>1 DEF Queued
  <2>2. Len(pending) + 1 \in 1..Len(pending') /\ 1..Len(pending) \subseteq 1..Len(pending')
    BY <1>2
  <2>3. QED
    BY <1>2, <2>1, <2>2 DEF Queued
<1>4. QED
  BY <1>1, <1>2, <1>3

LEMMA PushDelivers ==
    ASSUME Ready, Delivery, NEW p \in Procs, Delivers(p)
    PROVE  QueueOK' /\ HeldOK' /\ AttemptsOK'
<1> DEFINE i == Head(prog[p]).id
<1>1. /\ Len(pending) \in Nat /\ Len(pending') = Len(pending) + 1
      /\ pending'[Len(pending) + 1] = i /\ UNCHANGED <<jobs, cur>> /\ i \in 1..Len(jobs)
      /\ \A q \in 1..Len(pending) : pending'[q] = pending[q]
      /\ \A k : Queued(k)' <=> Queued(k) \/ k = i
  BY PushFacts
<1>2. jobs[i].status = "QUEUED" /\ ~Queued(i)
  BY DEF Delivers, DoPush, Delivery, PushOK, Pushing
<1>3. QueueOK'
  <2>1. \A q \in 1..Len(pending') : q \in 1..Len(pending) \/ q = Len(pending) + 1
    BY <1>1
  <2>2. \A q \in 1..Len(pending) : pending'[q] # i
    BY <1>1, <1>2 DEF Queued
  <2>3. \A q, r \in 1..Len(pending') : pending'[q] = pending'[r] => q = r
    BY <1>1, <2>1, <2>2 DEF Delivery, QueueOK
  <2>4. QED
    BY <1>1, <1>2, <2>3 DEF Delivery, QueueOK
<1>4. HeldOK' /\ AttemptsOK'
  BY <1>1 DEF Delivery, HeldOK, AttemptsOK
<1>5. QED
  BY <1>3, <1>4

LEMMA QuietDelivers ==
    ASSUME Ready, Delivery, QuietStep
    PROVE  QueueOK' /\ HeldOK' /\ AttemptsOK'
<1>1. UNCHANGED <<jobs, pending>> /\ \A w \in Workers : cur'[w] \in {cur[w], 0}
  BY DEF QuietStep
<1>2. QueueOK' /\ AttemptsOK'
  BY <1>1 DEF Delivery, QueueOK, AttemptsOK, Queued
<1>3. HeldOK'
  BY <1>1 DEF Delivery, HeldOK
<1>4. QED
  BY <1>2, <1>3

\* Where a worker is, whether it has a job and whether it has calls to make.
LEMMA PlacesStep ==
    ASSUME Ready, Delivery, [Next]_vars
    PROVE  PlacesOK'
<1>1. /\ pc \in [Workers -> WorkerPc] /\ cur \in [Workers -> Nat] /\ Workers \subseteq Procs
      /\ DOMAIN prog = Procs /\ PlacesOK
      /\ \A w \in Workers : cur[w] # 0 => cur[w] \in 1..Len(jobs)
  BY DEF Ready, WorkersReady, ProgramsReady, Procs, Delivery, PlacesOK
<1> DEFINE Place(w) == /\ cur[w] = 0 <=> pc[w] \in {"idle", "failed"}
                       /\ prog[w] # <<>> <=> pc[w] = "calls"
<1>2. ASSUME NEW w \in Workers, WorkerStep(w), ~Panic(w)
      PROVE  /\ \A v \in Workers \ {w} : pc'[v] = pc[v] /\ cur'[v] = cur[v] /\ prog'[v] = prog[v]
             /\ Place(w)'
  <2>1. CASE Proceed(w) /\ UNCHANGED cur /\ pc[w] \in {"check", "generate"}
    <3>1. CASE KindOf(w).type \in AssetTypes
      BY <1>1, <2>1, <3>1 DEF Proceed, Goto, PlacesOK
    <3>2. CASE KindOf(w).type \notin AssetTypes
      <4>1. KindOf(w).type \in {"SCRIPT", "SCENES", "SUBTITLE", "RENDER", "REVIEW"}
        <5>1. cur[w] \in 1..Len(jobs)
          BY <1>1, <2>1 DEF PlacesOK
        <5>2. QED
          BY <3>2, <5>1, JobFacts, KindFacts DEF KindOf
      <4>2. SceneList' \in {Scenes, {}}
        BY DEF SceneList
      <4>3. Callback(KindOf(w).type, SceneList') # <<>>
        BY <4>1, <4>2, CallbackReady, KindFacts DEF PlainStatuses, ReviewStatuses, Statuses
      <4>4. pc' = [pc EXCEPT ![w] = "calls"]
            /\ prog' = [prog EXCEPT ![w] = Callback(KindOf(w).type, SceneList')]
        BY <2>1, <3>2 DEF Proceed, Goto
      <4>5. QED
        BY <1>1, <2>1, <4>3, <4>4 DEF PlacesOK
    <3>3. QED
      BY <3>1, <3>2
  <2>2. CASE Take(w)
    <3>1. pending[1] \in 1..Len(jobs) /\ cur' = [cur EXCEPT ![w] = pending[1]]
          /\ pc' = [pc EXCEPT ![w] = "inputs"] /\ pc[w] = "idle" /\ UNCHANGED prog
      BY <2>2, TakeFacts
    <3>2. pending[1] # 0
      BY <3>1
    <3>3. QED
      BY <1>1, <3>1, <3>2 DEF PlacesOK
  <2>3. CASE Complete(w) \/ FailAndRetry(w) \/ FailForGood(w)
    BY <1>1, <2>3 DEF Complete, FailAndRetry, FailForGood, Release, Goto, PlacesOK
  <2>4. CASE ReadInputs(w) \/ MissSubtitle(w) \/ GenerateError(w) \/ CountAudios(w) \/ FailProject(w)
    BY <1>1, <2>4 DEF ReadInputs, MissSubtitle, GenerateError, ServiceFails, CountAudios, FailProject,
                      Goto, PlacesOK
  <2>5. CASE CheckExisting(w)
    <3>1. CASE Reuses(KindOf(w))
      BY <2>1, <2>5, <3>1 DEF CheckExisting
    <3>2. CASE ~Reuses(KindOf(w))
      BY <1>1, <2>5, <3>2 DEF CheckExisting, Goto, PlacesOK
    <3>3. QED
      BY <3>1, <3>2
  <2>6. CASE Generate(w) \/ GenerateNoScenes(w)
    BY <2>1, <2>6 DEF Generate, GenerateNoScenes
  <2>7. CASE CountImages(w)
    <3>1. OnAssetsComplete # <<>>
      BY DEF OnAssetsComplete, EnqueueThenStatus
    <3>2. QED
      BY <1>1, <2>7, <3>1 DEF CountImages, Goto, PlacesOK
  <2>8. CASE WorkerCall(w)
    BY <1>1, <2>8 DEF WorkerCall, NextCall, Goto, PlacesOK
  <2>9. CASE WorkerError(w)
    BY <1>1, <2>9 DEF WorkerError, Goto, PlacesOK
  <2>10. QED
    BY <1>2, <2>2, <2>3, <2>4, <2>5, <2>6, <2>7, <2>8, <2>9 DEF WorkerStep
<1>3. ASSUME NEW w \in Workers, Panic(w) PROVE PlacesOK'
  BY <1>3 DEF Panic, PlacesOK, Procs
<1>4. ASSUME NEW c \in Clients,
             CreateProject(c) \/ Approve(c) \/ Reject(c) \/ RetryProject(c) \/ ClientStep(c)
      PROVE  PlacesOK'
  <2>1. UNCHANGED <<pc, cur>> /\ \E q : prog' = [prog EXCEPT ![c] = q]
    BY <1>4 DEF CreateProject, Approve, Reject, RetryProject, ClientStep, ClientCall, NextCall, ClientError,
                Request
  <2>2. c \notin Workers
    BY WorkflowAssumption
  <2>3. QED
    BY <1>1, <2>1, <2>2 DEF PlacesOK
<1>5. CASE UNCHANGED vars
  BY <1>1, <1>5 DEF vars, PlacesOK
<1>6. ASSUME NEW w \in Workers, WorkerStep(w) PROVE PlacesOK'
  BY <1>1, <1>2, <1>3, <1>6 DEF PlacesOK
<1>7. QED
  BY <1>4, <1>5, <1>6 DEF Next

\* The calls of programs other than those of RetryProject.
PlainCalls == Calls(Kinds, Statuses, 0) \cup {SaveScript}

LEMMA PlainCallFacts ==
    /\ \A op \in PlainCalls : op.call \notin {"requeue", "push"}
    /\ \A q \in Seq(Calls(Kinds, Statuses, 0)) : q \in Seq(PlainCalls)
BY CallFacts DEF PlainCalls, SaveScript

LEMMA PlainPrograms ==
    /\ <<>> \in Seq(PlainCalls) /\ UserScript \in Seq(PlainCalls)
    /\ EnqueueThenStatus("SCRIPT", "SCRIPT_GENERATING") \in Seq(PlainCalls)
    /\ <<SetStatus("APPROVED")>> \in Seq(PlainCalls) /\ <<SetStatus("REJECTED")>> \in Seq(PlainCalls)
    /\ OnAssetsComplete \in Seq(PlainCalls)
    /\ \A type \in {"SCRIPT", "SCENES", "SUBTITLE", "RENDER", "REVIEW"}, list \in {Scenes, {}} :
         Callback(type, list) \in Seq(PlainCalls)
<1>1. PlainStatuses \subseteq Statuses /\ {"IN_REVIEW", "APPROVED", "REJECTED"} \subseteq Statuses
  BY DEF PlainStatuses, Statuses
<1>2. /\ EnqueueThenStatus("SCRIPT", "SCRIPT_GENERATING") \in Seq(PlainCalls)
      /\ OnAssetsComplete \in Seq(PlainCalls) /\ OnScriptGenerated \in Seq(PlainCalls)
  BY <1>1, KindFacts, ProjectPrograms, PlainCallFacts
<1>3. UserScript \in Seq(PlainCalls)
  <2>1. SaveScript \in PlainCalls
    BY DEF PlainCalls
  <2>2. <<SaveScript>> \in Seq(PlainCalls)
    BY <2>1, SeqFacts
  <2>3. QED
    BY <1>2, <2>2, SeqFacts DEF UserScript
<1>4. \A s \in Statuses : <<SetStatus(s)>> \in Seq(PlainCalls)
  <2>1. \A s \in Statuses : SetStatus(s) \in PlainCalls
    BY CallIn DEF PlainCalls
  <2>2. QED
    BY <2>1, SeqFacts
<1>5. ASSUME NEW type \in {"SCRIPT", "SCENES", "SUBTITLE", "RENDER", "REVIEW"},
             NEW list \in {Scenes, {}}
      PROVE  Callback(type, list) \in Seq(PlainCalls)
  <2>1. list \subseteq Scenes
    BY <1>5
  <2>2. Callback(type, list) \in Seq(Calls(Kinds, Statuses, 0))
    BY <1>1, <2>1, KindFacts, CallbackReady
  <2>3. QED
    BY <2>2, PlainCallFacts
<1>6. QED
  BY <1>1, <1>2, <1>3, <1>4, <1>5, SeqFacts

\* How the programs change in a step.
Advances(p) == prog[p] # <<>> /\ prog' = [prog EXCEPT ![p] = Rest(p)]
NewProgram(p, q) == prog' = [prog EXCEPT ![p] = q]

LEMMA ProgramStep ==
    ASSUME Ready, PlacesOK, [Next]_vars
    PROVE  \/ UNCHANGED <<prog, retries>>
           \/ \E p \in Procs : Advances(p) /\ Perform(Head(prog[p])) /\ UNCHANGED <<cur, retries>>
           \/ \E p \in Procs, q \in Seq(PlainCalls) : NewProgram(p, q) /\ UNCHANGED <<jobs, pending, retries>>
           \/ /\ prog' = [p \in Procs |-> IF p \in Workers THEN <<>> ELSE prog[p]]
              /\ UNCHANGED <<jobs, pending, retries>>
           \/ \E c \in Clients : RetryProject(c)
<1>1. CASE UNCHANGED vars
  BY <1>1 DEF vars
<1>2. ASSUME NEW w \in Workers, WorkerStep(w), w \in Procs
      PROVE  \/ UNCHANGED <<prog, retries>>
             \/ Advances(w) /\ Perform(Head(prog[w])) /\ UNCHANGED <<cur, retries>>
             \/ \E q \in Seq(PlainCalls) : NewProgram(w, q) /\ UNCHANGED <<jobs, pending, retries>>
             \/ /\ prog' = [p \in Procs |-> IF p \in Workers THEN <<>> ELSE prog[p]]
                /\ UNCHANGED <<jobs, pending, retries>>
  <2>1. CASE Proceed(w) /\ pc[w] \in {"check", "generate"} /\ UNCHANGED <<jobs, pending, retries>>
    <3>1. CASE KindOf(w).type \in AssetTypes
      BY <2>1, <3>1 DEF Proceed
    <3>2. CASE KindOf(w).type \notin AssetTypes
      <4>1. cur[w] \in 1..Len(jobs)
        BY <2>1 DEF Ready, WorkersReady
      <4>2. KindOf(w).type \in {"SCRIPT", "SCENES", "SUBTITLE", "RENDER", "REVIEW"}
        BY <3>2, <4>1, JobFacts, KindFacts DEF KindOf
      <4>3. SceneList' \in {Scenes, {}}
        BY DEF SceneList
      <4>4. Callback(KindOf(w).type, SceneList') \in Seq(PlainCalls)
        BY <4>2, <4>3, PlainPrograms
      <4>5. NewProgram(w, Callback(KindOf(w).type, SceneList'))
        BY <2>1, <3>2 DEF Proceed, NewProgram
      <4>6. QED
        BY <2>1, <4>4, <4>5
    <3>3. QED
      BY <3>1, <3>2
  <2>2. CASE CheckExisting(w) \/ Generate(w) \/ GenerateNoScenes(w)
    BY <2>1, <2>2 DEF CheckExisting, Generate, GenerateNoScenes
  <2>3. CASE CountImages(w) \/ WorkerError(w)
    BY <2>3, PlainPrograms DEF CountImages, WorkerError, NewProgram
  <2>4. CASE WorkerCall(w)
    BY <2>4 DEF WorkerCall, NextCall, Advances, PlacesOK
  <2>5. CASE Panic(w)
    BY <2>5 DEF Panic
  <2>6. CASE \/ Take(w) \/ ReadInputs(w) \/ MissSubtitle(w) \/ GenerateError(w) \/ CountAudios(w)
             \/ Complete(w) \/ FailAndRetry(w) \/ FailForGood(w) \/ FailProject(w)
    BY <2>6 DEF Take, ReadInputs, MissSubtitle, GenerateError, CountAudios, Complete, FailAndRetry,
                FailForGood, FailProject
  <2>7. QED
    BY <1>2, <2>2, <2>3, <2>4, <2>5, <2>6 DEF WorkerStep
<1>3. ASSUME NEW c \in Clients, CreateProject(c) \/ Approve(c) \/ Reject(c) \/ ClientStep(c)
      PROVE  \/ Advances(c) /\ Perform(Head(prog[c])) /\ UNCHANGED <<cur, retries>>
             \/ \E q \in Seq(PlainCalls) : NewProgram(c, q) /\ UNCHANGED <<jobs, pending, retries>>
  <2>1. CASE CreateProject(c) \/ Approve(c) \/ Reject(c)
    BY <2>1, PlainPrograms DEF CreateProject, Approve, Reject, Request, NewProgram, UserScript
  <2>2. CASE ClientStep(c)
    BY <2>2, PlainPrograms DEF ClientStep, ClientCall, NextCall, ClientError, Advances, NewProgram
  <2>3. QED
    BY <1>3, <2>1, <2>2
<1>4. QED
  BY <1>1, <1>2, <1>3 DEF Next, Procs

\* A call that writes a row or pushes an id changes the program it is in.
LEMMA NoMoveCalls ==
    ASSUME Ready, NEW p \in Procs, Submits(p) \/ Delivers(p)
    PROVE  prog' # prog
<1>1. /\ prog[p] # <<>> /\ prog' = [prog EXCEPT ![p] = Rest(p)] /\ DOMAIN prog = Procs
      /\ Head(prog[p]).call \in {"enqueue", "requeue", "push"}
  BY DEF Submits, Delivers, DoCreateJob, DoResetJob, DoPush, Ready, ProgramsReady
<1>2. SUFFICES ASSUME prog' = prog PROVE FALSE
  OBVIOUS
<1>3. Rest(p) = prog[p]
  BY <1>1, <1>2
<1>4. Push(Len(jobs) + 1).call = "push" /\ Push(Head(prog[p]).id).call = "push"
  BY DEF Push
<1>5. QED
  BY <1>1, <1>3, <1>4, RestFacts

LEMMA RetryStep ==
    ASSUME Ready, Delivery, [Next]_vars
    PROVE  RetryOK'
<1>1. /\ RetryOK /\ PlacesOK /\ prog \in [Procs -> Seq(ReadyCalls) \cup {UserScript}]
      /\ \A p \in Procs : \E S : prog[p] \in Seq(S)
  <2>1. RetryOK /\ PlacesOK /\ prog \in [Procs -> Seq(ReadyCalls) \cup {UserScript}]
    BY DEF Delivery, Ready, ProgramsReady
  <2>2. QED
    BY <2>1, PlainPrograms
<1> DEFINE IdsFailed == \A p \in Procs : \A i \in Requeues(p) :
                            /\ prog[p][i].id \in 1..Len(jobs)
                            /\ jobs[prog[p][i].id].status = "FAILED"
<1>9. IdsFailed
  <2>1. ASSUME NEW p \in Procs, NEW i \in Requeues(p) PROVE prog[p][i].id \in 1..Len(jobs)
    <3>1. i \in 1..Len(prog[p]) /\ prog[p][i].call = "requeue"
      BY <2>1 DEF Requeues
    <3>2. prog[p] # UserScript
      BY <3>1, PlainPrograms, PlainCallFacts, QueueFacts
    <3>3. prog[p][i] \in ReadyCalls /\ Len(jobs) \in Nat
      BY <1>1, <2>1, <3>1, <3>2, QueueFacts DEF Ready, TablesReady
    <3>4. QED
      BY <3>1, <3>3, CallFacts DEF ReadyCalls
  <2>2. QED
    BY <1>1, <2>1 DEF RetryOK
<1>2. ASSUME NEW p \in Procs, Advances(p), Perform(Head(prog[p])), UNCHANGED retries
      PROVE  RetryOK'
  <2>1. Len(prog[p]) \in Nat /\ Len(prog[p]) > 0 /\ Head(prog[p]) = prog[p][1]
    BY <1>2, RestFacts DEF Advances
  <2> PICK d \in {0, 1} : \A i \in 1..Len(Rest(p)) :
             \/ i + d # 1 /\ i + d \in 1..Len(prog[p]) /\ Rest(p)[i] = prog[p][i + d]
             \/ d = 0 /\ i = 1 /\ Rest(p)[1].call \in {"push", "status"}
    BY <1>2, RestIndex DEF Advances
  <2>2. /\ prog'[p] = Rest(p) /\ \A q \in Procs \ {p} : prog'[q] = prog[q]
    BY <1>1, <1>2 DEF Advances
  <2>3. \A i \in Requeues(p)' : /\ i + d \in Requeues(p) /\ prog'[p][i] = prog[p][i + d]
                                /\ i + d # 1 /\ i \in Nat
    BY <2>1, <2>2 DEF Requeues
  <2>4. \A q \in Procs \ {p} : Requeues(q)' = Requeues(q)
    BY <2>2 DEF Requeues
  <2>5. ASSUME NEW q \in Procs, NEW i \in Requeues(q), q = p => i # 1
        PROVE  jobs'[prog[q][i].id].status = "FAILED"
    <3>1. prog[q][i].id \in 1..Len(jobs) /\ jobs[prog[q][i].id].status = "FAILED"
      BY <1>9
    <3>2. CASE DoResetJob(Head(prog[p]))
      <4>1. 1 \in Requeues(p)
        BY <2>1, <3>2 DEF DoResetJob, Requeues
      <4>2. prog[p][1].id # prog[q][i].id
        BY <1>1, <2>5, <4>1 DEF RetryOK
      <4>3. jobs' = [jobs EXCEPT ![prog[p][1].id] = NewJob(jobs[prog[p][1].id].kind)]
        BY <2>1, <3>2 DEF DoResetJob
      <4>4. QED
        BY <3>1, <4>2, <4>3 DEF Ready, TablesReady
    <3>3. CASE DoCreateJob(Head(prog[p]))
      <4>1. jobs' = Append(jobs, NewJob(Head(prog[p]).kind))
        BY <3>3 DEF DoCreateJob
      <4>2. jobs'[prog[q][i].id] = jobs[prog[q][i].id]
        BY <3>1, <4>1 DEF Ready, TablesReady
      <4>3. QED
        BY <3>1, <4>2
    <3>4. CASE UNCHANGED jobs
      BY <3>1, <3>4
    <3>5. QED
      BY <1>2, <3>2, <3>3, <3>4 DEF Perform, DoSetStatus, DoSaveScript, DoReadProject, DoPush
  <2>6. ASSUME NEW q \in Procs, NEW i \in Requeues(q)'
        PROVE  /\ q \notin Workers /\ retries' = 1 /\ jobs'[prog'[q][i].id].status = "FAILED"
               /\ \A r \in Procs : \A k \in Requeues(r)' :
                    r = q /\ (prog'[r][k].id = prog'[q][i].id => k = i)
    <3>1. CASE q = p
      <4>1. i + d \in Requeues(p) /\ prog'[p][i] = prog[p][i + d] /\ i + d # 1 /\ i \in Nat
        BY <2>3, <2>6, <3>1
      <4>2. ASSUME NEW r \in Procs, NEW k \in Requeues(r)'
            PROVE  r = q /\ (prog'[r][k].id = prog'[q][i].id => k = i)
        <5>1. r = p
          BY <1>1, <2>4, <4>1, <4>2 DEF RetryOK
        <5>2. k + d \in Requeues(p) /\ prog'[p][k] = prog[p][k + d] /\ k \in Nat
          BY <2>3, <4>2, <5>1
        <5>3. prog[p][k + d].id = prog[p][i + d].id => k + d = i + d
          BY <1>1, <4>1, <5>2 DEF RetryOK
        <5>4. QED
          BY <3>1, <4>1, <5>1, <5>2, <5>3
      <4>3. p \notin Workers /\ retries = 1
        BY <1>1, <4>1 DEF RetryOK
      <4>4. QED
        BY <1>2, <2>5, <3>1, <4>1, <4>2, <4>3
    <3>2. CASE q # p
      <4>1. i \in Requeues(q) /\ prog'[q] = prog[q]
        BY <2>2, <2>4, <2>6, <3>2
      <4>2. \A r \in Procs : \A k \in Requeues(r)' : r # p /\ k \in Requeues(r) /\ prog'[r] = prog[r]
        BY <1>1, <2>2, <2>3, <2>4, <3>2, <4>1 DEF RetryOK
      <4>3. QED
        BY <1>1, <1>2, <2>5, <3>2, <4>1, <4>2 DEF RetryOK
    <3>3. QED
      BY <3>1, <3>2
  <2>7. QED
    BY <1>1, <1>2, <2>6 DEF RetryOK
<1>3. ASSUME UNCHANGED <<prog, retries>> PROVE RetryOK'
  <2>1. \A i \in 1..Len(jobs) : jobs[i].status = "FAILED" => jobs'[i].status = "FAILED"
    <3>1. CASE QuietStep
      BY <3>1 DEF QuietStep
    <3>2. ASSUME NEW w \in Workers, Take(w)
          PROVE  \A i \in 1..Len(jobs) : jobs[i].status = "FAILED" => jobs'[i] = jobs[i]
      <4>1. /\ pending[1] \in 1..Len(jobs) /\ 1 \in 1..Len(pending)
            /\ \A i \in 1..Len(jobs) : i # pending[1] => jobs'[i] = jobs[i]
        BY <3>2, TakeFacts DEF Ready, TablesReady
      <4>2. jobs[pending[1]].status = "QUEUED"
        BY <4>1 DEF Delivery, QueueOK, Queued
      <4>3. QED
        BY <4>1, <4>2
    <3>3. ASSUME NEW w \in Workers, Settles(w)
          PROVE  \A i \in 1..Len(jobs) : jobs[i].status = "FAILED" => jobs'[i] = jobs[i]
      <4>1. cur[w] \in 1..Len(jobs) /\ jobs[cur[w]].status = "RUNNING"
        BY <3>3 DEF Settles, Delivery, HeldOK
      <4>2. \A i \in 1..Len(jobs) : i # cur[w] => jobs'[i] = jobs[i]
        BY <3>3, <4>1, StatusSet DEF Settles
      <4>3. QED
        BY <4>1, <4>2
    <3>4. ASSUME NEW p \in Procs, Submits(p) \/ Delivers(p) PROVE FALSE
      BY <1>3, <3>4, NoMoveCalls
    <3>5. QED
      BY <3>1, <3>2, <3>3, <3>4, TableStep DEF Delivery
  <2>2. \A p \in Procs : Requeues(p)' = Requeues(p) /\ prog'[p] = prog[p]
    BY <1>3 DEF Requeues
  <2>3. QED
    BY <1>1, <1>3, <1>9, <2>1, <2>2 DEF RetryOK
<1>4. ASSUME NEW p \in Procs, NEW q \in Seq(PlainCalls), NewProgram(p, q), UNCHANGED <<jobs, retries>>
      PROVE  RetryOK'
  <2>1. prog'[p] = q /\ \A r \in Procs \ {p} : prog'[r] = prog[r]
    BY <1>1, <1>4 DEF NewProgram
  <2>2. Requeues(p)' = {}
    BY <2>1, PlainCallFacts, QueueFacts DEF Requeues
  <2>3. \A r \in Procs \ {p} : Requeues(r)' = Requeues(r)
    BY <2>1 DEF Requeues
  <2>4. QED
    BY <1>1, <1>4, <2>1, <2>2, <2>3 DEF RetryOK
<1>5. ASSUME prog' = [p \in Procs |-> IF p \in Workers THEN <<>> ELSE prog[p]],
             UNCHANGED <<jobs, retries>>
      PROVE  RetryOK'
  <2>1. ASSUME NEW p \in Procs, NEW i \in Requeues(p)'
        PROVE  i \in Requeues(p) /\ p \notin Workers /\ prog'[p] = prog[p]
    <3>1. i \in 1..Len(prog'[p])
      BY <2>1 DEF Requeues
    <3>2. p \notin Workers
      BY <1>5, <3>1
    <3>3. QED
      BY <1>5, <2>1, <3>2 DEF Requeues
  <2>2. QED
    BY <1>1, <1>5, <2>1 DEF RetryOK
<1>6. ASSUME NEW c \in Clients, RetryProject(c) PROVE RetryOK'
  <2>1. retries = 0 /\ retries' = 1 /\ MaxRetries = 1 /\ UNCHANGED jobs
    BY <1>1, <1>6, WorkflowAssumption DEF RetryProject, Request, RetryOK
  <2>2. \A p \in Procs : Requeues(p) = {}
    BY <1>1, <2>1 DEF RetryOK
  <2> DEFINE n == Cardinality(FailedJobs)
  <2>3. n \in Nat
    <3>1. Len(jobs) \in Nat /\ FailedJobs \subseteq 1..Len(jobs)
      BY DEF FailedJobs, Ready, TablesReady
    <3>2. IsFiniteSet(1..Len(jobs))
      BY <3>1, FS_Interval
    <3>3. QED
      BY <3>1, <3>2, FS_Subset, FS_CardinalityType
  <2>4. PICK failed \in InCreationOrder(FailedJobs) :
           prog' = [prog EXCEPT ![c] = [i \in 1..n |-> Requeue(failed[i])]
                                          \o <<Restore(jobs[failed[1]].kind.type)>>]
    BY <1>6 DEF RetryProject, Request
  <2>5. /\ failed \in [1..n -> FailedJobs]
        /\ \A i, k \in 1..n : failed[i] = failed[k] => i = k
    <3>1. failed \in [1..n -> FailedJobs] /\ \A i, k \in 1..n : i < k => failed[i] < failed[k]
      BY DEF InCreationOrder
    <3>2. \A i \in 1..n : failed[i] \in Nat
      BY <3>1 DEF FailedJobs, Ready, TablesReady
    <3>3. QED
      BY <2>3, <3>1, <3>2
  <2> DEFINE calls == [i \in 1..n |-> Requeue(failed[i])]
             last == Restore(jobs[failed[1]].kind.type)
  <2>6. /\ Len(calls \o <<last>>) = n + 1
        /\ \A i \in 1..n : (calls \o <<last>>)[i] = Requeue(failed[i])
        /\ (calls \o <<last>>)[n + 1] = last
    BY <2>3
  <2>7. prog'[c] = calls \o <<last>> /\ \A p \in Procs \ {c} : prog'[p] = prog[p]
    BY <1>1, <2>4 DEF Procs
  <2> HIDE DEF n, calls, last
  <2>8. last.call = "restore" /\ \A i \in 1..n : /\ Requeue(failed[i]).call = "requeue"
                                               /\ Requeue(failed[i]).id = failed[i]
    BY DEF last, Restore, Requeue
  <2>9. \A i \in Requeues(c)' : i \in 1..n /\ prog'[c][i].id = failed[i]
    BY <2>3, <2>6, <2>7, <2>8 DEF Requeues
  <2>10. \A p \in Procs \ {c} : Requeues(p)' = {}
    BY <2>2, <2>7 DEF Requeues
  <2>11. c \notin Workers /\ \A i \in 1..n : jobs'[failed[i]].status = "FAILED"
    BY <2>1, <2>5, WorkflowAssumption DEF FailedJobs
  <2>12. QED
    BY <2>1, <2>5, <2>9, <2>10, <2>11 DEF RetryOK
<1>7. QED
  BY <1>1, <1>2, <1>3, <1>4, <1>5, <1>6, ProgramStep

\* The program of RetryProject.
RetryCalls == {Requeue(i) : i \in 1..Len(jobs)} \cup {Restore(k.type) : k \in Kinds}

LEMMA RetryProgram ==
    ASSUME Ready, NEW c \in Clients, RetryProject(c)
    PROVE  \E q \in Seq(RetryCalls) : NewProgram(c, q)
<1> DEFINE n == Cardinality(FailedJobs)
<1>1. n \in Nat /\ n # 0
  <2>1. IsFiniteSet(FailedJobs)
    <3>1. Len(jobs) \in Nat /\ FailedJobs \subseteq 1..Len(jobs)
      BY DEF FailedJobs, Ready, TablesReady
    <3>2. IsFiniteSet(1..Len(jobs))
      BY <3>1, FS_Interval
    <3>3. QED
      BY <3>1, <3>2, FS_Subset
  <2>2. FailedJobs # {}
    BY DEF RetryProject
  <2>3. QED
    BY <2>1, <2>2, FS_CardinalityType, FS_EmptySet
<1>2. PICK failed \in InCreationOrder(FailedJobs) :
         prog' = [prog EXCEPT ![c] = [i \in 1..n |-> Requeue(failed[i])]
                                        \o <<Restore(jobs[failed[1]].kind.type)>>]
  BY DEF RetryProject, Request
<1>3. \A i \in 1..n : failed[i] \in 1..Len(jobs)
  BY DEF InCreationOrder, FailedJobs
<1> HIDE DEF n
<1>4. [i \in 1..n |-> Requeue(failed[i])] \in Seq(RetryCalls)
  <2>1. \A i \in 1..n : Requeue(failed[i]) \in RetryCalls
    BY <1>3 DEF RetryCalls
  <2>2. QED
    BY <1>1, <2>1
<1>5. <<Restore(jobs[failed[1]].kind.type)>> \in Seq(RetryCalls)
  <2>1. jobs[failed[1]].kind \in Kinds
    BY <1>1, <1>3, JobFacts
  <2>2. Restore(jobs[failed[1]].kind.type) \in RetryCalls
    BY <2>1 DEF RetryCalls
  <2>3. QED
    BY <2>2, SeqFacts
<1>6. QED
  BY <1>2, <1>4, <1>5, SeqFacts DEF NewProgram

\* A queued job that is in no queue stays so, but for the call that pushes it.
LEMMA AsideStays ==
    ASSUME Ready, Delivery, [Next]_vars, NEW i \in 1..Len(jobs), jobs[i].status = "QUEUED", ~Queued(i)
    PROVE  /\ i \in 1..Len(jobs') /\ jobs'[i].status = "QUEUED"
           /\ ~Queued(i)' \/ \E p \in Procs : Delivers(p) /\ Head(prog[p]).id = i
<1>1. CASE QuietStep
  BY <1>1 DEF QuietStep, Queued
<1>2. ASSUME NEW w \in Workers, Take(w)
      PROVE  i \in 1..Len(jobs') /\ jobs'[i].status = "QUEUED" /\ ~Queued(i)'
  <2>1. /\ Len(pending) > 0 /\ pending[1] \in 1..Len(jobs) /\ Len(pending') = Len(pending) - 1
        /\ \A p \in 1..Len(pending') : pending'[p] = pending[p + 1]
        /\ Len(jobs') = Len(jobs) /\ \A k \in 1..Len(jobs) : k # pending[1] => jobs'[k] = jobs[k]
    BY <1>2, TakeFacts
  <2>2. Len(pending) \in Nat
    BY DEF Ready, TablesReady
  <2>3. 1 \in 1..Len(pending) /\ \A p \in 1..Len(pending') : p + 1 \in 1..Len(pending)
    BY <2>1, <2>2
  <2>4. QED
    BY <2>1, <2>3 DEF Queued
<1>3. ASSUME NEW w \in Workers, Settles(w)
      PROVE  i \in 1..Len(jobs') /\ jobs'[i].status = "QUEUED" /\ ~Queued(i)'
  <2>1. cur[w] \in 1..Len(jobs) /\ cur[w] # i /\ pending \in Seq(1..Len(jobs)) /\ Len(pending) \in Nat
    BY <1>3 DEF Settles, Delivery, HeldOK, Ready, TablesReady
  <2>2. Len(jobs') = Len(jobs) /\ jobs'[i] = jobs[i]
    BY <1>3, <2>1, StatusSet DEF Settles
  <2>3. CASE UNCHANGED pending
    BY <2>2, <2>3 DEF Queued
  <2>4. CASE pending' = Append(pending, cur[w])
    <3>1. /\ Len(pending') = Len(pending) + 1 /\ pending'[Len(pending) + 1] = cur[w]
          /\ \A p \in 1..Len(pending) : pending'[p] = pending[p]
      BY <2>1, <2>4, QueueFacts
    <3>2. \A p \in 1..Len(pending') : p \in 1..Len(pending) \/ p = Len(pending) + 1
      BY <2>1, <3>1
    <3>3. QED
      BY <2>1, <2>2, <3>1, <3>2 DEF Queued
  <2>5. QED
    BY <1>3, <2>3, <2>4 DEF Settles
<1>4. ASSUME NEW p \in Procs, Submits(p)
      PROVE  i \in 1..Len(jobs') /\ jobs'[i].status = "QUEUED" /\ ~Queued(i)'
  BY <1>4, SubmitFacts DEF Queued
<1>5. ASSUME NEW p \in Procs, Delivers(p)
      PROVE  /\ i \in 1..Len(jobs') /\ jobs'[i].status = "QUEUED"
             /\ ~Queued(i)' \/ Head(prog[p]).id = i
  BY <1>5, PushFacts
<1>6. QED
  BY <1>1, <1>2, <1>3, <1>4, <1>5, TableStep DEF Delivery

LEMMA PushStep ==
    ASSUME Ready, Delivery, [Next]_vars
    PROVE  PushOK'
<1> DEFINE Id(p) == Head(prog[p]).id
<1>1. PushOK /\ DOMAIN prog = Procs /\ Len(jobs) \in Nat /\ pending \in Seq(1..Len(jobs))
  BY DEF Delivery, Ready, ProgramsReady, TablesReady
<1>2. ASSUME NEW p \in Procs, Pushing(p)
      PROVE  /\ Id(p) \in 1..Len(jobs) /\ Id(p) \in 1..Len(jobs')
             /\ jobs'[Id(p)].status = "QUEUED"
             /\ \/ \E q \in Procs : Delivers(q) /\ Id(q) = Id(p)
                \/ \A r \in 1..Len(pending') : pending'[r] # Id(p)
  <2>1. Id(p) \in 1..Len(jobs) /\ jobs[Id(p)].status = "QUEUED" /\ ~Queued(Id(p))
    BY <1>1, <1>2 DEF PushOK
  <2>2. PICK i \in 1..Len(jobs) : i = Id(p)
    BY <2>1
  <2>3. /\ i \in 1..Len(jobs') /\ jobs'[i].status = "QUEUED"
        /\ ~Queued(i)' \/ \E q \in Procs : Delivers(q) /\ Head(prog[q]).id = i
    BY <2>1, <2>2, AsideStays DEF Queued
  <2>4. QED
    BY <2>1, <2>2, <2>3 DEF Queued
<1> DEFINE Calm(q) == prog'[q] = prog[q] \/ (~Pushing(q)' /\ \A n \in 2..Len(prog'[q]) : prog'[q][n].call # "push")
\* Where nobody is new to a push, and who has pushed has gone on.
<1>3. ASSUME \A q \in Procs : Calm(q) /\ (Delivers(q) => ~Pushing(q)') PROVE PushOK'
  <2>1. ASSUME NEW q \in Procs, Pushing(q)' PROVE Pushing(q) /\ prog'[q] = prog[q] /\ Id(q)' = Id(q)
    BY <1>3, <2>1 DEF Pushing
  <2>2. ASSUME NEW q \in Procs, Pushing(q)'
        PROVE  Id(q)' \in 1..Len(jobs') /\ jobs'[Id(q)'].status = "QUEUED" /\ ~Queued(Id(q))'
    <3>1. Pushing(q) /\ Id(q)' = Id(q)
      BY <2>1, <2>2
    <3>2. ASSUME NEW r \in Procs, Delivers(r), Id(r) = Id(q) PROVE FALSE
      <4>1. Pushing(r)
        BY <3>2 DEF Delivers, DoPush, Pushing
      <4>2. r = q
        BY <1>1, <3>1, <3>2, <4>1 DEF PushOK
      <4>3. QED
        BY <1>3, <2>2, <3>2, <4>2
    <3>3. QED
      BY <1>2, <3>1, <3>2 DEF Queued
  <2>3. \A q, r \in Procs : Pushing(q)' /\ Pushing(r)' /\ Id(r)' = Id(q)' => r = q
    BY <1>1, <2>1 DEF PushOK
  <2>4. \A q \in Procs : \A n \in 2..Len(prog'[q]) : prog'[q][n].call # "push"
    BY <1>1, <1>3 DEF PushOK
  <2>5. QED
    BY <2>2, <2>3, <2>4 DEF PushOK
<1>4. ASSUME NEW p \in Procs, Advances(p), Perform(Head(prog[p])), UNCHANGED cur PROVE PushOK'
  <2>1. /\ prog[p] # <<>> /\ prog'[p] = Rest(p) /\ \A q \in Procs \ {p} : prog'[q] = prog[q]
    BY <1>1, <1>4 DEF Advances
  <2>2. \A q \in Procs : Delivers(q) => q = p
    <3>1. ASSUME NEW q \in Procs, Delivers(q), q # p PROVE FALSE
      <4>1. Head(prog[q]).call = "push" /\ prog[q] # <<>> /\ prog'[q] = Rest(q) /\ prog'[q] = prog[q]
        BY <1>1, <2>1, <3>1 DEF Delivers, DoPush
      <4>2. Len(prog[q]) \in Nat /\ Len(Rest(q)) = Len(prog[q]) - 1
        <5>1. Head(prog[q]).call \notin {"enqueue", "requeue", "restore"}
          BY <4>1
        <5>2. QED
          BY <4>1, <5>1, RestFacts
      <4>3. QED
        BY <4>1, <4>2
    <3>2. QED
      BY <3>1
  <2>3. \A n \in 2..Len(Rest(p)) : Rest(p)[n].call # "push"
    <3>1. Len(prog[p]) \in Nat
      BY <2>1, RestFacts
    <3>2. \A n \in 2..Len(Rest(p)) :
               \/ n \in 2..Len(prog[p]) /\ Rest(p)[n] = prog[p][n]
               \/ n + 1 \in 2..Len(prog[p]) /\ Rest(p)[n] = prog[p][n + 1]
      <4>1. CASE Len(Rest(p)) = Len(prog[p]) - 1 /\ \A n \in 1..Len(Rest(p)) : Rest(p)[n] = prog[p][n + 1]
        BY <3>1, <4>1
      <4>2. CASE Len(Rest(p)) = Len(prog[p]) /\ \A n \in 2..Len(Rest(p)) : Rest(p)[n] = prog[p][n]
        BY <3>1, <4>2
      <4>3. QED
        BY <2>1, <4>1, <4>2, RestFacts
    <3>3. QED
      BY <1>1, <3>2 DEF PushOK
  <2>4. CASE Head(prog[p]).call \notin {"enqueue", "requeue"}
    <3>1. ~Pushing(p)'
      <4>1. CASE Rest(p) = Tail(prog[p]) /\ Len(Rest(p)) = Len(prog[p]) - 1 /\ Rest(p) # <<>>
                 /\ \A n \in 1..Len(Rest(p)) : Rest(p)[n] = prog[p][n + 1]
        <5>1. PICK S : Rest(p) \in Seq(S)
          BY <1>4, <2>1, CallStep
        <5>2. Head(Rest(p)) = Rest(p)[1] /\ Len(Rest(p)) > 0 /\ Len(Rest(p)) \in Nat
          BY <4>1, <5>1, QueueFacts
        <5>3. Head(Rest(p)) = prog[p][2] /\ 2 \in 2..Len(prog[p])
          BY <2>1, <4>1, <5>2, RestFacts
        <5>4. QED
          BY <1>1, <2>1, <5>3 DEF PushOK, Pushing
      <4>2. CASE Head(Rest(p)) = SetStatus(StatusForRetry(Head(prog[p]).type))
        BY <2>1, <4>2 DEF Pushing, SetStatus
      <4>3. CASE Rest(p) = <<>>
        BY <2>1, <4>3 DEF Pushing
      <4>4. QED
        BY <2>1, <2>4, <4>1, <4>2, <4>3, RestFacts
    <3>2. QED
      BY <1>3, <2>1, <2>2, <2>3, <3>1
  <2>5. CASE Head(prog[p]).call \in {"enqueue", "requeue"}
    <3>1. Submits(p) /\ \A q \in Procs : ~Delivers(q)
      <4>1. \A q \in Procs : ~Delivers(q)
        BY <2>2, <2>5 DEF Delivers, DoPush
      <4>2. QED
        BY <1>4, <2>1, <2>5, <4>1, CallTables DEF Submits, Advances, DoPush
    <3>2. PICK i \in 1..(Len(jobs) + 1) :
             /\ UNCHANGED pending
             /\ i \in 1..Len(jobs) => /\ jobs[i].status = "FAILED"
                                     /\ Head(prog[p]).call = "requeue" /\ Id(p) = i
             /\ i \notin 1..Len(jobs) => Head(prog[p]).call = "enqueue" /\ i = Len(jobs) + 1
             /\ 1..Len(jobs') = 1..Len(jobs) \cup {i} /\ jobs'[i].status = "QUEUED"
      BY <3>1, SubmitFacts
    <3>3. Rest(p) # <<>> /\ Head(Rest(p)) = Push(i)
      BY <2>1, <2>5, <3>2, RestFacts
    <3>4. Pushing(p)' /\ Id(p)' = i
      BY <2>1, <3>3 DEF Pushing, Push
    <3>5. ~Queued(i)'
      BY <1>1, <3>2 DEF Delivery, QueueOK, Queued
    <3>6. ASSUME NEW q \in Procs, Pushing(q)', q # p
          PROVE  /\ Pushing(q) /\ Id(q)' = Id(q) /\ Id(q) # i
                 /\ Id(q) \in 1..Len(jobs') /\ jobs'[Id(q)].status = "QUEUED" /\ ~Queued(Id(q))'
      <4>1. Pushing(q) /\ Id(q)' = Id(q)
        BY <2>1, <3>6 DEF Pushing
      <4>2. Id(q) \in 1..Len(jobs) /\ jobs[Id(q)].status = "QUEUED"
        BY <1>1, <4>1 DEF PushOK
      <4>3. Id(q) # i
        BY <3>2, <4>2
      <4>4. QED
        BY <1>2, <3>1, <4>1, <4>3 DEF Queued
    <3>7. \A q, r \in Procs : Pushing(q)' /\ Pushing(r)' /\ Id(r)' = Id(q)' => r = q
      BY <1>1, <3>4, <3>6 DEF PushOK
    <3>8. \A q \in Procs : Pushing(q)' => /\ Id(q)' \in 1..Len(jobs')
                                          /\ jobs'[Id(q)'].status = "QUEUED" /\ ~Queued(Id(q))'
      <4>1. ASSUME NEW q \in Procs, Pushing(q)', q # p
            PROVE  Id(q)' \in 1..Len(jobs') /\ jobs'[Id(q)'].status = "QUEUED" /\ ~Queued(Id(q))'
        BY <3>6, <4>1 DEF Queued
      <4>2. Id(p)' \in 1..Len(jobs') /\ jobs'[Id(p)'].status = "QUEUED" /\ ~Queued(Id(p))'
        BY <3>2, <3>4, <3>5 DEF Queued
      <4>3. QED
        BY <4>1, <4>2
    <3>9. \A q \in Procs : \A n \in 2..Len(prog'[q]) : prog'[q][n].call # "push"
      BY <1>1, <2>1, <2>3 DEF PushOK
    <3>10. QED
      BY <3>7, <3>8, <3>9 DEF PushOK
  <2>6. QED
    BY <2>4, <2>5
<1>5. ASSUME UNCHANGED prog PROVE PushOK'
  BY <1>3, <1>5, NoMoveCalls
<1>6. ASSUME UNCHANGED pending, NEW p \in Procs, NEW q, \A n \in 1..Len(q) : q[n].call # "push",
             q # <<>> => Head(q) = q[1] /\ 1 \in 1..Len(q), NewProgram(p, q)
      PROVE  PushOK'
  <2>1. prog'[p] = q /\ \A r \in Procs \ {p} : prog'[r] = prog[r]
    BY <1>1, <1>6 DEF NewProgram
  <2>2. ~Pushing(p)'
    BY <1>6, <2>1 DEF Pushing
  <2>3. \A n \in 2..Len(q) : q[n].call # "push"
    BY <1>6
  <2>4. \A r \in Procs : ~Delivers(r)
    BY <1>6, PushFacts
  <2>5. QED
    BY <1>3, <2>1, <2>2, <2>3, <2>4
<1>7. ASSUME NEW p \in Procs, NEW q \in Seq(PlainCalls), NewProgram(p, q), UNCHANGED pending
      PROVE  PushOK'
  <2>1. \A n \in 1..Len(q) : q[n].call # "push"
    BY PlainCallFacts, QueueFacts
  <2>2. q # <<>> => Head(q) = q[1] /\ 1 \in 1..Len(q)
    BY QueueFacts
  <2>3. QED
    BY <1>6, <1>7, <2>1, <2>2
<1>8. ASSUME prog' = [p \in Procs |-> IF p \in Workers THEN <<>> ELSE prog[p]], UNCHANGED pending
      PROVE  PushOK'
  <2>1. \A q \in Procs : prog'[q] = prog[q] \/ prog'[q] = <<>>
    BY <1>8
  <2>2. \A q \in Procs : Calm(q)
    BY <2>1 DEF Pushing
  <2>3. \A q \in Procs : ~Delivers(q)
    BY <1>8, PushFacts
  <2>4. QED
    BY <1>3, <2>2, <2>3
<1>9. ASSUME NEW c \in Clients, RetryProject(c) PROVE PushOK'
  <2>1. PICK q \in Seq(RetryCalls) : NewProgram(c, q)
    BY <1>9, RetryProgram
  <2>2. \A n \in 1..Len(q) : q[n].call # "push"
    BY QueueFacts DEF RetryCalls, Requeue, Restore
  <2>3. q # <<>> => Head(q) = q[1] /\ 1 \in 1..Len(q)
    BY QueueFacts
  <2>4. UNCHANGED pending /\ c \in Procs
    BY <1>9 DEF RetryProject, Request, Procs
  <2>5. QED
    BY <1>6, <2>1, <2>2, <2>3, <2>4
<1>10. QED
  BY <1>4, <1>5, <1>7, <1>8, <1>9, ProgramStep DEF Delivery

LEMMA DeliveryStep == Ready /\ Delivery /\ [Next]_vars => Delivery'
<1> SUFFICES ASSUME Ready, Delivery, [Next]_vars PROVE Delivery'
  OBVIOUS
<1>1. QueueOK' /\ HeldOK' /\ AttemptsOK'
  BY TableStep, QuietDelivers, TakeDelivers, SettleDelivers, SubmitDelivers, PushDelivers DEF Delivery
<1>2. QED
  BY <1>1, PlacesStep, RetryStep, PushStep DEF Delivery

LEMMA DeliveryInit == Init => Delivery
<1> SUFFICES ASSUME Init PROVE Delivery
  OBVIOUS
<1>1. jobs = <<>> /\ pending = <<>> /\ retries = 0 /\ \A p \in Procs : prog[p] = <<>>
  BY DEF Init
<1>2. PlacesOK
  BY DEF Init, PlacesOK, Procs
<1>3. QueueOK /\ HeldOK /\ AttemptsOK
  BY <1>1 DEF Init, QueueOK, HeldOK, AttemptsOK, Queued
<1>4. RetryOK /\ PushOK
  BY <1>1, WorkflowAssumption DEF RetryOK, Requeues, PushOK, Pushing
<1>5. QED
  BY <1>2, <1>3, <1>4 DEF Delivery

LEMMA DeliveryHolds == Spec => [](Ready /\ Delivery)
<1>1. Init => Ready /\ Delivery
  BY ReadyInit, DeliveryInit
<1>2. (Ready /\ Delivery) /\ [Next]_vars => (Ready /\ Delivery)'
  BY ReadyStep, DeliveryStep
<1>3. QED
  BY <1>1, <1>2, PTL DEF Spec

-----------------------------------------------------------------------------
(* Counting rows.                                                          *)

RowsOf(kinds) == UNION {{k} \X (1..rows[k]) : k \in kinds}

\* The rows of finitely many kinds are finitely many.
LEMMA RowsFinite ==
    ASSUME rows \in [Kinds -> Nat], NEW kinds \in SUBSET Kinds, IsFiniteSet(kinds)
    PROVE  IsFiniteSet(RowsOf(kinds)) /\ CountRows(kinds) \in Nat
           /\ CountRows(kinds) = Cardinality(RowsOf(kinds))
<1> DEFINE R == {{k} \X (1..rows[k]) : k \in kinds}
           f == [k \in kinds |-> {k} \X (1..rows[k])]
<1>1. ASSUME NEW k \in kinds PROVE IsFiniteSet({k} \X (1..rows[k]))
  <2>1. rows[k] \in Nat
    OBVIOUS
  <2>2. IsFiniteSet(1..rows[k])
    BY <2>1, FS_Interval
  <2>3. IsFiniteSet({k})
    BY FS_Singleton
  <2>4. QED
    BY <2>2, <2>3, FS_Product
<1>2. f \in Surjection(kinds, R)
  BY DEF Surjection
<1>3. IsFiniteSet(R)
  BY <1>2, FS_Surjection
<1>4. \A r \in R : IsFiniteSet(r)
  BY <1>1
<1>5. IsFiniteSet(UNION R)
  BY <1>3, <1>4, FS_UNION
<1>6. QED
  BY <1>5, FS_CardinalityType DEF RowsOf, CountRows

VoiceKinds == {Voice(s) : s \in Scenes}
ImageKinds == {Image(s) : s \in Scenes}

\* The voices, and the images, of the scenes are as many as the scenes.
LEMMA AssetsCounted ==
    ASSUME NEW f \in [Scenes -> Kinds], \A s, t \in Scenes : f[s] = f[t] => s = t,
           NEW A, A = {f[s] : s \in Scenes}
    PROVE  A \in SUBSET Kinds /\ IsFiniteSet(A) /\ Cardinality(A) = NumScenes
<1>1. IsFiniteSet(Scenes) /\ Cardinality(Scenes) = NumScenes
  BY FS_Interval, WorkflowAssumption DEF Scenes
<1>2. f \in Surjection(Scenes, A) /\ f \in Injection(Scenes, A)
  <2>1. f \in [Scenes -> A]
    OBVIOUS
  <2>2. QED
    BY <2>1 DEF Surjection, Injection, IsInjective
<1>3. IsFiniteSet(A) /\ Cardinality(A) = Cardinality(Scenes)
  BY <1>1, <1>2, FS_Surjection
<1>4. A \in SUBSET Kinds
  OBVIOUS
<1>5. QED
  BY <1>1, <1>3, <1>4

LEMMA AssetKinds ==
    /\ VoiceKinds \in SUBSET Kinds /\ IsFiniteSet(VoiceKinds) /\ Cardinality(VoiceKinds) = NumScenes
    /\ ImageKinds \in SUBSET Kinds /\ IsFiniteSet(ImageKinds) /\ Cardinality(ImageKinds) = NumScenes
<1> DEFINE voice == [s \in Scenes |-> Voice(s)]
           image == [s \in Scenes |-> Image(s)]
<1>1. /\ voice \in [Scenes -> Kinds] /\ \A s, t \in Scenes : voice[s] = voice[t] => s = t
      /\ image \in [Scenes -> Kinds] /\ \A s, t \in Scenes : image[s] = image[t] => s = t
  BY KindFacts DEF Voice, Image
<1>2. VoiceKinds = {voice[s] : s \in Scenes} /\ ImageKinds = {image[s] : s \in Scenes}
  BY DEF VoiceKinds, ImageKinds
<1>3. QED
  BY <1>1, <1>2, AssetsCounted

\* Assets that all exist are counted, each at least once.
LEMMA RowsAtLeast ==
    ASSUME rows \in [Kinds -> Nat], NEW A \in SUBSET Kinds, IsFiniteSet(A),
           \A k \in A : Exists(k)
    PROVE  CountRows(A) >= Cardinality(A)
<1> DEFINE g == [k \in A |-> <<k, 1>>]
<1>1. ASSUME NEW k \in A PROVE <<k, 1>> \in RowsOf(A)
  <2>1. rows[k] \in Nat /\ rows[k] > 0
    BY DEF Exists
  <2>2. <<k, 1>> \in {k} \X (1..rows[k])
    BY <2>1
  <2>3. QED
    BY <2>2 DEF RowsOf
<1>2. g \in Injection(A, RowsOf(A))
  <2>1. g \in [A -> RowsOf(A)]
    BY <1>1
  <2>2. QED
    BY <2>1 DEF Injection, IsInjective
<1>3. Cardinality(A) <= Cardinality(RowsOf(A))
  BY <1>2, RowsFinite, FS_Injection
<1>4. QED
  BY <1>3, RowsFinite, FS_CardinalityType

\* Where no asset has two rows, as many rows as assets are one of each.
LEMMA RowsEnough ==
    ASSUME rows \in [Kinds -> Nat], NEW A \in SUBSET Kinds, IsFiniteSet(A),
           \A k \in A : rows[k] <= 1, CountRows(A) >= Cardinality(A)
    PROVE  \A k \in A : Exists(k)
<1> DEFINE E == {k \in A : Exists(k)}
           h == [r \in RowsOf(A) |-> r[1]]
<1>1. IsFiniteSet(E) /\ Cardinality(E) <= Cardinality(A) /\ (Cardinality(A) = Cardinality(E) => A = E)
  BY FS_Subset
<1>2. \A r \in RowsOf(A) : r[1] \in E /\ r = <<r[1], 1>>
  <2>1. ASSUME NEW k \in A, NEW r \in {k} \X (1..rows[k]) PROVE r[1] \in E /\ r = <<r[1], 1>>
    <3>1. rows[k] \in Nat /\ rows[k] <= 1
      OBVIOUS
    <3>2. r[1] = k /\ r[2] \in 1..rows[k] /\ r = <<r[1], r[2]>>
      BY <2>1
    <3>3. rows[k] = 1 /\ r[2] = 1
      BY <3>1, <3>2
    <3>4. QED
      BY <3>2, <3>3 DEF Exists
  <2>2. QED
    BY <2>1 DEF RowsOf
<1>3. h \in Injection(RowsOf(A), E)
  <2>1. h \in [RowsOf(A) -> E]
    BY <1>2
  <2>2. \A r, s \in RowsOf(A) : r[1] = s[1] => r = s
    BY <1>2
  <2>3. QED
    BY <2>1, <2>2 DEF Injection, IsInjective
<1>4. Cardinality(RowsOf(A)) <= Cardinality(E)
  BY <1>1, <1>3, FS_Injection
<1>5. Cardinality(A) \in Nat /\ Cardinality(E) \in Nat /\ Cardinality(RowsOf(A)) \in Nat
      /\ CountRows(A) = Cardinality(RowsOf(A))
  BY <1>1, RowsFinite, FS_CardinalityType
<1>6. A = E
  BY <1>1, <1>4, <1>5
<1>7. QED
  BY <1>6

-----------------------------------------------------------------------------
(* Types.                                                                  *)

BoundsOK == Len(jobs) <= MaxJobs /\ audios \in [Workers -> Nat]

LEMMA BoundsStep == Ready /\ Delivery /\ BoundsOK /\ [Next]_vars => BoundsOK'
<1> SUFFICES ASSUME Ready, Delivery, BoundsOK, [Next]_vars PROVE BoundsOK'
  OBVIOUS
<1>1. rows \in [Kinds -> Nat] /\ Len(jobs) \in Nat /\ Len(jobs) <= MaxJobs /\ MaxJobs \in Nat
      /\ audios \in [Workers -> Nat] /\ jobs \in Seq(ReadyJobs)
  BY WorkflowAssumption DEF Ready, TablesReady, BoundsOK
<1>2. Len(jobs') <= MaxJobs
  <2>1. CASE QuietStep
    BY <1>1, <2>1 DEF QuietStep
  <2>2. ASSUME NEW w \in Workers, Take(w) PROVE Len(jobs') <= MaxJobs
    BY <1>1, <2>2, TakeFacts
  <2>3. ASSUME NEW w \in Workers, Settles(w) PROVE Len(jobs') <= MaxJobs
    <3>1. cur[w] \in 1..Len(jobs)
      BY <2>3 DEF Settles, Delivery, HeldOK
    <3>2. QED
      BY <1>1, <2>3, <3>1, StatusSet DEF Settles
  <2>4. ASSUME NEW p \in Procs, Submits(p) PROVE Len(jobs') <= MaxJobs
    BY <1>1, <2>4 DEF Submits, DoCreateJob, DoResetJob
  <2>5. ASSUME NEW p \in Procs, Delivers(p) PROVE Len(jobs') <= MaxJobs
    BY <1>1, <2>5 DEF Delivers, DoPush
  <2>6. QED
    BY <2>1, <2>2, <2>3, <2>4, <2>5, TableStep DEF Delivery
<1>3. audios' \in [Workers -> Nat]
  <2>1. ASSUME NEW w \in Workers, WorkerStep(w) PROVE audios' \in [Workers -> Nat]
    <3>1. CASE CountAudios(w)
      BY <1>1, <3>1, RowsFinite, AssetKinds DEF CountAudios, VoiceKinds
    <3>2. CASE ~CountAudios(w)
      BY <1>1, <2>1, <3>2 DEF WorkerStep, Take, ReadInputs, Panic, CheckExisting, MissSubtitle, Generate,
         GenerateNoScenes, GenerateError, CountImages, WorkerCall, NextCall, WorkerError, Complete, FailAndRetry,
         FailForGood, FailProject
    <3>3. QED
      BY <3>1, <3>2
  <2>2. ASSUME NEW c \in Clients,
               CreateProject(c) \/ Approve(c) \/ Reject(c) \/ RetryProject(c) \/ ClientStep(c)
        PROVE  UNCHANGED audios
    BY <2>2 DEF CreateProject, Approve, Reject, RetryProject, ClientStep, ClientCall, NextCall, ClientError,
                Request
  <2>3. QED
    BY <1>1, <2>1, <2>2 DEF Next, vars
<1>4. QED
  BY <1>2, <1>3 DEF BoundsOK

\* Every variable keeps its type, and a worker has a job, and calls to make, exactly
\* at the steps of its handler that need them.
THEOREM WorkflowTypes == Spec => []TypeOK
<1>1. Init => Ready /\ Delivery /\ BoundsOK
  <2>1. Init => BoundsOK
    BY WorkflowAssumption DEF Init, BoundsOK
  <2>2. QED
    BY <2>1, ReadyInit, DeliveryInit
<1>2. (Ready /\ Delivery /\ BoundsOK) /\ [Next]_vars => (Ready /\ Delivery /\ BoundsOK)'
  BY ReadyStep, DeliveryStep, BoundsStep
<1>3. Ready /\ Delivery /\ BoundsOK => TypeOK
  <2> SUFFICES ASSUME Ready, Delivery, BoundsOK PROVE TypeOK
    OBVIOUS
  <2>1. /\ Len(jobs) \in Nat /\ Len(jobs) <= MaxJobs /\ rows \in [Kinds -> Nat]
        /\ pending \in Seq(1..Len(jobs)) /\ audios \in [Workers -> Nat] /\ jobs \in Seq(ReadyJobs)
    BY DEF Ready, TablesReady, BoundsOK
  <2>2. status \in Statuses /\ ReadyStatuses \subseteq Statuses
    BY DEF Ready, TablesReady, ReadyStatuses, OtherStatuses, PlainStatuses, ReviewStatuses,
           Statuses, Decided
  <2>3. jobs \in Seq(JobRecord)
    <3>1. \A i \in 1..Len(jobs) : jobs[i].attempts \in 0..MaxAttempts
      BY JobFacts, WorkflowAssumption DEF Delivery, AttemptsOK
    <3>2. \A i \in 1..Len(jobs) : jobs[i] \in JobRecord
      BY <3>1, JobFacts DEF ReadyJobs, JobRecord
    <3>3. QED
      BY <2>1, <3>2
  <2>4. pc \in [Workers -> WorkerPc] /\ cur \in [Workers -> 0..Len(jobs)]
    BY <2>1 DEF Ready, WorkersReady, Delivery, HeldOK
  <2>5. prog \in [Procs -> Seq(Call)]
    <3>1. ReadyCalls \subseteq Call
      BY <2>2 DEF ReadyCalls, Calls, Call, ReadyKinds, Restore
    <3>2. Seq(ReadyCalls) \subseteq Seq(Call)
      BY <3>1
    <3>3. PlainCalls \subseteq Call
      BY <2>1 DEF PlainCalls, Calls, Call, Restore
    <3>4. UserScript \in Seq(Call)
      BY <3>3, PlainPrograms
    <3>5. QED
      BY <3>2, <3>4 DEF Ready, ProgramsReady
  <2>6. QED
    BY <2>1, <2>2, <2>3, <2>4, <2>5 DEF TypeOK, Delivery, RetryOK, PlacesOK
<1>4. QED
  BY <1>1, <1>2, <1>3, PTL DEF Spec

-----------------------------------------------------------------------------
(* How the jobs, the artifacts and the workers change in a step.           *)

Sound == Ready /\ Delivery /\ BoundsOK

LEMMA SoundInit == Init => Sound
<1>1. Init => BoundsOK
  BY WorkflowAssumption DEF Init, BoundsOK
<1>2. QED
  BY <1>1, ReadyInit, DeliveryInit DEF Sound

LEMMA SoundStep == Sound /\ [Next]_vars => Sound'
BY ReadyStep, DeliveryStep, BoundsStep DEF Sound

JobAfter(i) ==
    \/ jobs'[i].status = jobs[i].status
    \/ /\ jobs[i].status = "QUEUED" /\ jobs'[i].status = "RUNNING"
       /\ \E w \in Workers : Take(w) /\ cur'[w] = i
    \/ /\ jobs[i].status = "RUNNING"
       /\ \E w \in Workers : /\ cur[w] = i /\ cur'[w] = 0
                             /\ \/ pc[w] = "done" /\ jobs'[i].status = "SUCCEEDED"
                                \/ pc[w] = "error" /\ jobs'[i].status \in {"QUEUED", "FAILED"}
    \/ jobs[i].status = "FAILED" /\ jobs'[i].status = "QUEUED" /\ retries = 1

\* A job of the kind that a call of a program names.
NewBy(i) == \E p \in Procs : /\ Submits(p) /\ Head(prog[p]).call = "enqueue"
                             /\ jobs'[i].kind = Head(prog[p]).kind

\* A job keeps its kind, and its status changes only as its lifecycle allows.
LEMMA JobChange ==
    ASSUME Sound, [Next]_vars
    PROVE  /\ Len(jobs) \in Nat /\ Len(jobs') \in Nat /\ Len(jobs) <= Len(jobs')
           /\ \A i \in 1..Len(jobs) : jobs'[i].kind = jobs[i].kind /\ JobAfter(i)
           /\ \A i \in 1..Len(jobs') : i \notin 1..Len(jobs) => jobs'[i].status = "QUEUED" /\ NewBy(i)
<1>1. Ready /\ Delivery /\ Len(jobs) \in Nat /\ cur \in [Workers -> Nat]
  BY DEF Sound, Ready, TablesReady, WorkersReady
<1>2. Ready'
  BY <1>1, ReadyStep
<1>3. Len(jobs') \in Nat
  BY <1>2 DEF Ready, TablesReady
<1>4. CASE QuietStep
  BY <1>1, <1>3, <1>4 DEF QuietStep, JobAfter
<1>5. ASSUME NEW w \in Workers, Take(w)
      PROVE  Len(jobs') = Len(jobs) /\ \A i \in 1..Len(jobs) : jobs'[i].kind = jobs[i].kind /\ JobAfter(i)
  <2>1. /\ Len(jobs') = Len(jobs) /\ pending[1] \in 1..Len(jobs) /\ 1 \in 1..Len(pending)
        /\ \A k \in 1..Len(jobs) : /\ jobs'[k].kind = jobs[k].kind
                                   /\ k # pending[1] => jobs'[k] = jobs[k]
        /\ jobs'[pending[1]].status = "RUNNING" /\ cur'[w] = pending[1]
    <3>1. Len(pending) > 0 /\ pending[1] \in 1..Len(jobs) /\ cur' = [cur EXCEPT ![w] = pending[1]]
      BY <1>1, <1>5, TakeFacts
    <3>2. pending \in Seq(1..Len(jobs))
      BY <1>1 DEF Ready, TablesReady
    <3>3. 1 \in 1..Len(pending)
      BY <3>1, <3>2
    <3>4. cur'[w] = pending[1]
      BY <1>1, <3>1
    <3>5. QED
      BY <1>1, <1>5, <3>1, <3>3, <3>4, TakeFacts
  <2>2. jobs[pending[1]].status = "QUEUED"
    BY <1>1, <2>1 DEF Delivery, QueueOK, Queued
  <2>3. QED
    BY <1>5, <2>1, <2>2 DEF JobAfter
<1>6. ASSUME NEW w \in Workers, Settles(w)
      PROVE  Len(jobs') = Len(jobs) /\ \A i \in 1..Len(jobs) : jobs'[i].kind = jobs[i].kind /\ JobAfter(i)
  <2>1. cur[w] \in 1..Len(jobs) /\ jobs[cur[w]].status = "RUNNING" /\ cur'[w] = 0
    BY <1>1, <1>6 DEF Settles, Delivery, HeldOK
  <2>2. PICK s \in {"SUCCEEDED", "FAILED", "QUEUED"} :
           /\ jobs' = [jobs EXCEPT ![cur[w]].status = s]
           /\ pc[w] = IF s = "SUCCEEDED" THEN "done" ELSE "error"
    BY <1>6 DEF Settles
  <2>3. /\ Len(jobs') = Len(jobs)
        /\ \A k \in 1..Len(jobs) : /\ jobs'[k].kind = jobs[k].kind
                                   /\ k # cur[w] => jobs'[k] = jobs[k]
        /\ jobs'[cur[w]].status = s
    BY <1>1, <2>1, <2>2, StatusSet
  <2>4. QED
    BY <2>1, <2>2, <2>3 DEF JobAfter
<1>7. ASSUME NEW p \in Procs, Submits(p)
      PROVE  /\ Len(jobs) <= Len(jobs')
             /\ \A i \in 1..Len(jobs) : jobs'[i].kind = jobs[i].kind /\ JobAfter(i)
             /\ \A i \in 1..Len(jobs') : i \notin 1..Len(jobs) => jobs'[i].status = "QUEUED" /\ NewBy(i)
  <2>1. PICK n \in 1..(Len(jobs) + 1) :
             /\ n \in 1..Len(jobs) => /\ jobs[n].status = "FAILED" /\ retries = 1
                                     /\ jobs'[n].kind = jobs[n].kind
             /\ n \notin 1..Len(jobs) => /\ Head(prog[p]).call = "enqueue"
                                        /\ jobs'[n].kind = Head(prog[p]).kind
             /\ Len(jobs) <= Len(jobs') /\ 1..Len(jobs') = 1..Len(jobs) \cup {n}
             /\ jobs'[n].status = "QUEUED"
             /\ \A k \in 1..Len(jobs) : k # n => jobs'[k] = jobs[k]
    BY <1>1, <1>7, SubmitFacts
  <2>2. \A i \in 1..Len(jobs) : jobs'[i].kind = jobs[i].kind /\ JobAfter(i)
    BY <2>1 DEF JobAfter
  <2>3. \A i \in 1..Len(jobs') : i \notin 1..Len(jobs) => jobs'[i].status = "QUEUED" /\ NewBy(i)
    BY <1>7, <2>1 DEF NewBy
  <2>4. QED
    BY <2>1, <2>2, <2>3
<1>8. ASSUME NEW p \in Procs, Delivers(p) PROVE UNCHANGED jobs
  BY <1>8 DEF Delivers, DoPush
<1>9. QED
  BY <1>1, <1>3, <1>4, <1>5, <1>6, <1>7, <1>8, TableStep DEF Delivery, JobAfter

LEMMA CallRows ==
    ASSUME Ready, NEW p \in Procs, prog[p] # <<>>, Perform(Head(prog[p]))
    PROVE  UNCHANGED rows \/ (DoSaveScript(Head(prog[p])) /\ prog[p] = UserScript)
<1>1. prog[p] \in Seq(ReadyCalls) \/ prog[p] = UserScript
  BY DEF Ready, ProgramsReady
<1>2. CASE prog[p] = UserScript
  BY <1>2 DEF Perform, DoSetStatus, DoCreateJob, DoResetJob, DoReadProject, DoPush
<1>3. CASE prog[p] \in Seq(ReadyCalls)
  <2>1. Head(prog[p]).call # "script"
    <3>1. Head(prog[p]) \in ReadyCalls /\ Len(jobs) \in Nat
      BY <1>3, SeqFacts DEF Ready, TablesReady
    <3>2. Head(prog[p]).call \in {"status", "enqueue", "requeue", "push", "restore"}
      BY <3>1, CallFacts DEF ReadyCalls
    <3>3. QED
      BY <3>2
  <2>2. QED
    BY <2>1 DEF Perform, DoSetStatus, DoCreateJob, DoResetJob, DoReadProject, DoPush, DoSaveScript
<1>4. QED
  BY <1>1, <1>2, <1>3

\* Only the handlers and SaveScript make artifacts.
LEMMA RowsChange ==
    ASSUME Ready, [Next]_vars
    PROVE  \/ UNCHANGED rows
           \/ \E w \in Workers : Generate(w) /\ KindOf(w) \in Kinds
           \/ \E p \in Procs : /\ DoSaveScript(Head(prog[p])) /\ prog[p] = UserScript
                              /\ prog' = [prog EXCEPT ![p] = Rest(p)]
<1>1. ASSUME NEW w \in Workers, WorkerStep(w)
      PROVE  \/ UNCHANGED rows
             \/ Generate(w) /\ KindOf(w) \in Kinds
             \/ w \in Procs /\ DoSaveScript(Head(prog[w])) /\ prog[w] = UserScript
                /\ prog' = [prog EXCEPT ![w] = Rest(w)]
  <2>1. CASE Generate(w)
    <3>1. cur[w] \in 1..Len(jobs)
      BY <2>1 DEF Generate, Ready, WorkersReady
    <3>2. QED
      BY <2>1, <3>1, JobFacts DEF KindOf
  <2>2. CASE WorkerCall(w)
    <3>1. prog[w] # <<>> /\ w \in Procs /\ Perform(Head(prog[w]))
          /\ prog' = [prog EXCEPT ![w] = Rest(w)]
      BY <2>2 DEF WorkerCall, NextCall, Ready, WorkersReady, Procs
    <3>2. QED
      BY <3>1, CallRows
  <2>3. CASE ~Generate(w) /\ ~WorkerCall(w)
    BY <1>1, <2>3 DEF WorkerStep, Take, ReadInputs, Panic, CheckExisting, MissSubtitle,
         GenerateNoScenes, GenerateError, CountAudios, CountImages, WorkerError, Complete, FailAndRetry,
         FailForGood, FailProject
  <2>4. QED
    BY <2>1, <2>2, <2>3
<1>2. ASSUME NEW c \in Clients,
             CreateProject(c) \/ Approve(c) \/ Reject(c) \/ RetryProject(c) \/ ClientStep(c)
      PROVE  \/ UNCHANGED rows
             \/ c \in Procs /\ DoSaveScript(Head(prog[c])) /\ prog[c] = UserScript
                /\ prog' = [prog EXCEPT ![c] = Rest(c)]
  <2>1. CASE ClientCall(c)
    <3>1. prog[c] # <<>> /\ c \in Procs /\ Perform(Head(prog[c]))
          /\ prog' = [prog EXCEPT ![c] = Rest(c)]
      BY <2>1 DEF ClientCall, NextCall, Procs
    <3>2. QED
      BY <3>1, CallRows
  <2>2. CASE ~ClientCall(c)
    BY <1>2, <2>2 DEF CreateProject, Approve, Reject, RetryProject, ClientStep, ClientError, Request
  <2>3. QED
    BY <2>1, <2>2
<1>3. QED
  BY <1>1, <1>2 DEF Next, vars

\* Artifacts are never removed.
LEMMA GrowthStep ==
    ASSUME Sound, [Next]_vars
    PROVE  Grows
<1>1. Ready /\ rows \in [Kinds -> Nat]
  BY DEF Sound, Ready, TablesReady
<1>2. rows' \in [Kinds -> Nat] /\ \A k \in Kinds : rows[k] <= rows'[k]
  BY <1>1, RowsChange, KindFacts DEF Generate, DoSaveScript
<1>3. QED
  BY <1>2, JobChange DEF Grows

\* A step of a worker leaves the others where they are.
LEMMA OthersKept ==
    ASSUME Sound, NEW w \in Workers, WorkerStep(w), ~Panic(w)
    PROVE  /\ \A v \in Workers \ {w} : pc'[v] = pc[v] /\ cur'[v] = cur[v] /\ audios'[v] = audios[v]
           /\ \A p \in Procs \ {w} : prog'[p] = prog[p]
<1>1. DOMAIN pc = Workers /\ DOMAIN cur = Workers /\ DOMAIN audios = Workers /\ DOMAIN prog = Procs
      /\ Workers \subseteq Procs
  BY DEF Sound, Ready, WorkersReady, ProgramsReady, BoundsOK, Procs
<1>2. /\ pc' = pc \/ \E s : pc' = [pc EXCEPT ![w] = s]
      /\ cur' = cur \/ \E i : cur' = [cur EXCEPT ![w] = i]
      /\ prog' = prog \/ \E q : prog' = [prog EXCEPT ![w] = q]
      /\ audios' = audios \/ \E n : audios' = [audios EXCEPT ![w] = n]
  <2>1. CASE Take(w) \/ ReadInputs(w) \/ MissSubtitle(w) \/ GenerateError(w) \/ CountAudios(w)
             \/ CountImages(w) \/ FailProject(w)
    BY <2>1 DEF Take, ReadInputs, MissSubtitle, GenerateError, CountAudios, CountImages, FailProject, Goto
  <2>2. CASE CheckExisting(w) \/ Generate(w) \/ GenerateNoScenes(w)
    BY <2>2 DEF CheckExisting, Generate, GenerateNoScenes, Proceed, Goto
  <2>3. CASE WorkerCall(w) \/ WorkerError(w) \/ Complete(w) \/ FailAndRetry(w) \/ FailForGood(w)
    BY <2>3 DEF WorkerCall, NextCall, WorkerError, Complete, FailAndRetry, FailForGood, Release, Goto
  <2>4. QED
    BY <2>1, <2>2, <2>3 DEF WorkerStep
<1>3. QED
  BY <1>1, <1>2

\* What a step makes of worker w: another's step leaves it alone, and a panic, of
\* whichever worker, starts it anew.
LEMMA WorkerMoves ==
    ASSUME Sound, [Next]_vars, NEW w \in Workers
    PROVE  \/ /\ pc'[w] = pc[w] /\ cur'[w] = cur[w] /\ prog'[w] = prog[w] /\ audios'[w] = audios[w]
           \/ WorkerStep(w) /\ ~Panic(w)
           \/ pc'[w] = "idle" /\ cur'[w] = 0 /\ prog'[w] = <<>> /\ \E v \in Workers : Panic(v)
<1>1. w \in Procs /\ DOMAIN prog = Procs
  BY DEF Procs, Sound, Ready, ProgramsReady
<1>2. ASSUME NEW v \in Workers, Panic(v) PROVE pc'[w] = "idle" /\ cur'[w] = 0 /\ prog'[w] = <<>>
  BY <1>1, <1>2 DEF Panic
<1>3. ASSUME NEW v \in Workers, v # w, WorkerStep(v), ~Panic(v)
      PROVE  pc'[w] = pc[w] /\ cur'[w] = cur[w] /\ prog'[w] = prog[w] /\ audios'[w] = audios[w]
  BY <1>1, <1>3, OthersKept
<1>4. ASSUME NEW c \in Clients,
             CreateProject(c) \/ Approve(c) \/ Reject(c) \/ RetryProject(c) \/ ClientStep(c)
      PROVE  pc'[w] = pc[w] /\ cur'[w] = cur[w] /\ prog'[w] = prog[w] /\ audios'[w] = audios[w]
  <2>1. UNCHANGED <<pc, cur, audios>> /\ \E q : prog' = [prog EXCEPT ![c] = q]
    BY <1>4 DEF CreateProject, Approve, Reject, RetryProject, ClientStep, ClientCall, NextCall, ClientError,
                Request
  <2>2. c # w
    BY WorkflowAssumption
  <2>3. QED
    BY <1>1, <2>1, <2>2
<1>5. CASE UNCHANGED vars
  BY <1>5 DEF vars
<1>6. QED
  BY <1>2, <1>3, <1>4, <1>5 DEF Next

\* The artifact of the job of worker w is there.
Starts(w) ==
    /\ pc[w] \in {"check", "generate"} /\ Proceed(w) /\ UNCHANGED <<cur, jobs>>
    /\ \/ CheckExisting(w) /\ Reuses(KindOf(w))
       \/ Generate(w)
       \/ GenerateNoScenes(w)

LEMMA StartFacts ==
    ASSUME Sound, NEW w \in Workers, Starts(w)
    PROVE  /\ cur'[w] = cur[w] /\ cur[w] \in 1..Len(jobs) /\ UNCHANGED jobs
           /\ KindOf(w) \in Kinds /\ KindOf(w) = jobs[cur[w]].kind
           /\ \/ /\ KindOf(w).type \in AssetTypes /\ pc'[w] = "audios" /\ UNCHANGED prog
              \/ /\ KindOf(w).type \in {"SCRIPT", "SCENES", "SUBTITLE", "RENDER", "REVIEW"}
                 /\ KindOf(w) = OfProject(KindOf(w).type) /\ pc'[w] = "calls"
                 /\ prog' = [prog EXCEPT ![w] = Callback(KindOf(w).type, SceneList')]
                 /\ prog'[w] = Callback(KindOf(w).type, SceneList')
<1>1. /\ cur'[w] = cur[w] /\ cur[w] \in 1..Len(jobs) /\ UNCHANGED jobs /\ w \in Procs
      /\ DOMAIN prog = Procs /\ DOMAIN pc = Workers
  BY DEF Starts, Sound, Ready, WorkersReady, ProgramsReady, Procs
<1>2. KindOf(w) \in Kinds /\ KindOf(w) = jobs[cur[w]].kind
  BY <1>1, JobFacts DEF KindOf, Sound
<1>3. \/ KindOf(w).type \in AssetTypes
      \/ /\ KindOf(w).type \in {"SCRIPT", "SCENES", "SUBTITLE", "RENDER", "REVIEW"}
         /\ KindOf(w) = OfProject(KindOf(w).type) /\ KindOf(w).type \notin AssetTypes
  BY <1>2, KindFacts DEF AssetTypes
<1>4. CASE KindOf(w).type \in AssetTypes
  BY <1>1, <1>2, <1>4 DEF Starts, Proceed, Goto
<1>5. CASE KindOf(w).type \notin AssetTypes
  BY <1>1, <1>2, <1>3, <1>5 DEF Starts, Proceed, Goto
<1>6. QED
  BY <1>4, <1>5

\* Where a worker goes in a step of its own.
LEMMA PlacesAfter ==
    ASSUME Sound, NEW w \in Workers, WorkerStep(w), ~Panic(w)
    PROVE  \/ Take(w) /\ pc[w] = "idle" /\ pc'[w] = "inputs"
           \/ /\ pc[w] \in {"inputs", "check", "generate"} /\ pc'[w] \in {"check", "generate", "error"}
              /\ UNCHANGED <<cur, jobs, rows, prog, audios>>
           \/ Starts(w)
           \/ CountAudios(w) /\ pc[w] = "audios" /\ pc'[w] = "images" /\ cur'[w] = cur[w]
           \/ CountImages(w) /\ pc[w] = "images" /\ pc'[w] \in {"calls", "done"} /\ cur'[w] = cur[w]
           \/ WorkerCall(w) /\ pc[w] = "calls" /\ pc'[w] \in {"calls", "done"} /\ cur'[w] = cur[w]
           \/ WorkerError(w) /\ pc'[w] = "error" /\ UNCHANGED <<cur, jobs, rows>>
           \/ Settles(w) /\ cur'[w] = 0 /\ pc'[w] \in {"idle", "failed"} /\ UNCHANGED <<rows, prog, audios>>
           \/ FailProject(w) /\ pc[w] = "failed" /\ pc'[w] = "idle"
              /\ UNCHANGED <<cur, jobs, rows, prog, audios>>
<1>1. /\ DOMAIN pc = Workers /\ DOMAIN cur = Workers /\ DOMAIN prog = Procs /\ Workers \subseteq Procs
      /\ \A v \in Workers : pc[v] \notin {"idle", "failed"} => cur[v] # 0
  BY DEF Sound, Ready, WorkersReady, ProgramsReady, Procs, Delivery, PlacesOK
<1>2. CASE Take(w)
  BY <1>1, <1>2 DEF Take, Goto
<1>3. CASE ReadInputs(w) \/ MissSubtitle(w) \/ GenerateError(w)
  BY <1>1, <1>3 DEF ReadInputs, MissSubtitle, GenerateError, ServiceFails, Goto
<1>4. CASE CheckExisting(w)
  BY <1>1, <1>4 DEF CheckExisting, Starts, Goto
<1>5. CASE Generate(w) \/ GenerateNoScenes(w)
  BY <1>5 DEF Generate, GenerateNoScenes, Starts
<1>6. CASE CountAudios(w) \/ CountImages(w) \/ WorkerCall(w) \/ FailProject(w)
  BY <1>1, <1>6 DEF CountAudios, CountImages, WorkerCall, NextCall, FailProject, Goto
<1>7. CASE WorkerError(w)
  BY <1>1, <1>7 DEF WorkerError, Goto
<1>8. CASE Complete(w) \/ FailAndRetry(w) \/ FailForGood(w)
  BY <1>1, <1>8 DEF Complete, FailAndRetry, FailForGood, Release, Goto, Settles
<1>9. QED
  BY <1>2, <1>3, <1>4, <1>5, <1>6, <1>7, <1>8 DEF WorkerStep

-----------------------------------------------------------------------------
(* The pipeline goes on: as long as something is still to be enqueued, some *)
(* job that will enqueue it is not over.                                    *)

Assets == VoiceKinds \cup ImageKinds
HasKind(k) == \E i \in 1..Len(jobs) : jobs[i].kind = k
Names(q, k) == \E n \in 1..Len(q) : q[n] = Enqueue(k)
Over(i) == jobs[i].status = "SUCCEEDED" \/ \E w \in Workers : cur[w] = i /\ pc[w] = "done"

\* Job i is not over, and if it is at its calls each kind is enqueued or will be.
Working(i, kinds) ==
    /\ ~Over(i)
    /\ \A w \in Workers : cur[w] = i /\ pc[w] = "calls" =>
                            \A k \in kinds : HasKind(k) \/ Names(prog[w], k)

LEMMA HasKindKept ==
    ASSUME Sound, [Next]_vars, NEW k, HasKind(k)
    PROVE  HasKind(k)'
BY JobChange DEF HasKind

\* A call leaves a program, and what it enqueues is there.
LEMMA NamesKept ==
    ASSUME Sound, NEW p \in Procs, Advances(p), Perform(Head(prog[p])), NEW k, Names(prog[p], k)
    PROVE  HasKind(k)' \/ Names(prog'[p], k)
<1>1. /\ Ready /\ prog[p] # <<>> /\ Len(prog[p]) \in Nat /\ Head(prog[p]) = prog[p][1]
      /\ prog'[p] = Rest(p) /\ jobs \in Seq(ReadyJobs) /\ Len(jobs) \in Nat
  BY RestFacts DEF Advances, Sound, Ready, ProgramsReady, TablesReady
<1>2. PICK n \in 1..Len(prog[p]) : prog[p][n] = Enqueue(k)
  BY DEF Names
<1>3. CASE n = 1
  <2>1. Head(prog[p]) = Enqueue(k) /\ Enqueue(k).call = "enqueue" /\ Enqueue(k).kind = k
    BY <1>1, <1>2, <1>3 DEF Enqueue
  <2>2. jobs' = Append(jobs, NewJob(k))
    BY <2>1 DEF Perform, DoSetStatus, DoCreateJob, DoResetJob, DoReadProject, DoPush, DoSaveScript
  <2>3. Len(jobs') = Len(jobs) + 1 /\ jobs'[Len(jobs) + 1] = NewJob(k)
    BY <1>1, <2>2
  <2>4. NewJob(k).kind = k /\ Len(jobs) + 1 \in 1..Len(jobs')
    BY <1>1, <2>3 DEF NewJob
  <2>5. QED
    BY <2>3, <2>4 DEF HasKind
<1>4. CASE n # 1
  <2>1. CASE Len(Rest(p)) = Len(prog[p]) - 1 /\ \A m \in 1..Len(Rest(p)) : Rest(p)[m] = prog[p][m + 1]
    <3>1. n - 1 \in 1..Len(prog'[p]) /\ prog'[p][n - 1] = Enqueue(k)
      BY <1>1, <1>2, <1>4, <2>1
    <3>2. QED
      BY <3>1 DEF Names
  <2>2. CASE Len(Rest(p)) = Len(prog[p]) /\ \A m \in 2..Len(Rest(p)) : Rest(p)[m] = prog[p][m]
    <3>1. n \in 1..Len(prog'[p]) /\ prog'[p][n] = Enqueue(k)
      BY <1>1, <1>2, <1>4, <2>2
    <3>2. QED
      BY <3>1 DEF Names
  <2>3. QED
    BY <1>1, <2>1, <2>2, RestFacts
<1>5. QED
  BY <1>3, <1>4

\* A worker begins to call the workflow back, or finds that assets are missing.
Begins(w) == cur'[w] = cur[w] /\ (Starts(w) \/ CountImages(w)) /\ pc'[w] \in {"calls", "done"}

LEMMA WorkingStep ==
    ASSUME Sound, [Next]_vars, NEW i \in 1..Len(jobs), NEW kinds, Working(i, kinds)
    PROVE  \/ Working(i, kinds)'
           \/ \A k \in kinds : HasKind(k)'
           \/ \E w \in Workers : cur[w] = i /\ Begins(w)
<1>1. jobs'[i].status # "SUCCEEDED"
  BY JobChange DEF JobAfter, Working, Over
<1>2. SUFFICES ASSUME ~ \A k \in kinds : HasKind(k)', ~ \E w \in Workers : cur[w] = i /\ Begins(w),
                      NEW w \in Workers, cur'[w] = i
               PROVE  /\ pc'[w] # "done"
                      /\ pc'[w] = "calls" => \A k \in kinds : HasKind(k)' \/ Names(prog'[w], k)
  BY <1>1 DEF Working, Over
<1>3. CASE pc'[w] = pc[w] /\ cur'[w] = cur[w] /\ prog'[w] = prog[w]
  BY <1>2, <1>3, HasKindKept DEF Working, Over
<1>4. CASE pc'[w] = "idle"
  BY <1>4
<1>5. CASE WorkerStep(w) /\ ~Panic(w)
  <2>1. CASE pc'[w] \notin {"calls", "done"}
    BY <2>1
  <2>2. CASE WorkerCall(w) /\ pc[w] = "calls" /\ cur'[w] = cur[w]
    <3>1. w \in Procs /\ Advances(w) /\ Perform(Head(prog[w]))
      BY <2>2 DEF WorkerCall, NextCall, Advances, Procs, Sound, Ready, WorkersReady
    <3>2. \A k \in kinds : HasKind(k)' \/ Names(prog'[w], k)
      BY <1>2, <2>2, <3>1, NamesKept, HasKindKept DEF Working
    <3>3. pc'[w] = "done" => prog'[w] = <<>>
      BY <2>2, <3>1 DEF WorkerCall, NextCall, Goto, Sound, Ready, WorkersReady, ProgramsReady
    <3>4. pc'[w] # "done"
      BY <1>2, <3>2, <3>3 DEF Names
    <3>5. QED
      BY <3>2, <3>4
  <2>3. CASE Starts(w) \/ (CountImages(w) /\ cur'[w] = cur[w])
    BY <1>2, <2>1, <2>3, StartFacts DEF Begins
  <2>4. CASE Settles(w) /\ cur'[w] = 0
    BY <1>2, <2>4
  <2>5. QED
    BY <1>5, <2>1, <2>2, <2>3, <2>4, PlacesAfter
<1>6. QED
  BY <1>3, <1>4, <1>5, WorkerMoves

\* A worker that begins a callback works on what the callback enqueues.
LEMMA BeginWorking ==
    ASSUME Sound, [Next]_vars, NEW w \in Workers, NEW i \in 1..Len(jobs'), cur'[w] = i,
           pc'[w] # "done", NEW kinds, \A k \in kinds : HasKind(k)' \/ Names(prog'[w], k)
    PROVE  Working(i, kinds)'
<1>1. HeldOK'
  BY SoundStep DEF Sound, Delivery
<1>2. jobs'[i].status = "RUNNING" /\ \A v \in Workers : cur'[v] = i => v = w
  <2>1. i # 0
    BY SoundStep DEF Sound, Ready, TablesReady
  <2>2. QED
    BY <1>1, <2>1 DEF HeldOK
<1>3. QED
  BY <1>2 DEF Working, Over

\* What the callbacks enqueue.
LEMMA CallbackNames ==
    /\ \A list : Names(Callback("SCRIPT", list), OfProject("SCENES"))
    /\ \A k \in Assets : Names(Callback("SCENES", Scenes), k)
    /\ \A list : Names(Callback("SUBTITLE", list), OfProject("RENDER"))
    /\ \A list : Names(Callback("RENDER", list), OfProject("REVIEW"))
    /\ Names(OnAssetsComplete, OfProject("SUBTITLE"))
<1>1. ASSUME NEW a, NEW b, NEW c, NEW k, b = Enqueue(k)
      PROVE  Names(<<a>> \o <<b, c>>, k)
  <2>1. Len(<<a>> \o <<b, c>>) = 3 /\ (<<a>> \o <<b, c>>)[2] = b
    OBVIOUS
  <2>2. QED
    BY <1>1, <2>1 DEF Names
<1>2. \A list : /\ Names(Callback("SCRIPT", list), OfProject("SCENES"))
                /\ Names(Callback("SUBTITLE", list), OfProject("RENDER"))
  BY <1>1 DEF Callback, OnScriptGenerated, OnSubtitlesGenerated, EnqueueThenStatus
<1>3. Names(OnAssetsComplete, OfProject("SUBTITLE"))
  BY <1>1 DEF OnAssetsComplete, EnqueueThenStatus
<1>4. \A list : Names(Callback("RENDER", list), OfProject("REVIEW"))
  <2>1. \A a, b : Len(<<a, b>>) = 2 /\ <<a, b>>[2] = b
    OBVIOUS
  <2>2. Names(OnRenderComplete, OfProject("REVIEW"))
    BY <2>1 DEF OnRenderComplete, Names
  <2>3. QED
    BY <2>2 DEF Callback
<1>5. ASSUME NEW k \in Assets PROVE Names(Callback("SCENES", Scenes), k)
  <2>1. Cardinality(Scenes) = NumScenes /\ NumScenes \in Nat /\ Scenes = 1..NumScenes
    BY ListLength, FS_Interval, WorkflowAssumption DEF Scenes
  <2>2. PICK s \in Scenes : k = Voice(s) \/ k = Image(s)
    BY DEF Assets, VoiceKinds, ImageKinds
  <2> DEFINE n == IF k = Voice(s) THEN 2 * s - 1 ELSE 2 * s
             q == AssetJobs(Scenes)
  <2>3. n \in 1..(2 * NumScenes) /\ n \in Nat
    BY <2>1
  <2>4. q[n] = Enqueue(k)
    <3>1. q[n] = Enqueue(IF n % 2 = 1 THEN Voice((n + 1) \div 2) ELSE Image(n \div 2))
      BY <2>1, <2>3 DEF AssetJobs
    <3>2. CASE k = Voice(s)
      <4>1. n = 2 * s - 1 /\ s \in Nat
        BY <2>1, <3>2
      <4>2. n % 2 = 1 /\ (n + 1) \div 2 = s
        BY <4>1
      <4>3. QED
        BY <3>1, <3>2, <4>2
    <3>3. CASE k # Voice(s)
      <4>1. n = 2 * s /\ s \in Nat
        BY <2>1, <3>3
      <4>2. n % 2 # 1 /\ n \div 2 = s
        BY <4>1
      <4>3. QED
        BY <2>2, <3>1, <3>3, <4>2
    <3>4. QED
      BY <3>2, <3>3
  <2> DEFINE T == {q[x] : x \in 1..(2 * NumScenes)}
  <2>5. q \in Seq(T) /\ Len(q) = 2 * NumScenes
    <3>1. DOMAIN q = 1..(2 * NumScenes) /\ q = [x \in DOMAIN q |-> q[x]]
      BY <2>1 DEF AssetJobs
    <3>2. \A S : \A m \in Nat : \A f \in [1..m -> S] : f \in Seq(S) /\ Len(f) = m
      OBVIOUS
    <3>3. q \in [1..(2 * NumScenes) -> T] /\ 2 * NumScenes \in Nat
      BY <2>1, <3>1
    <3> HIDE DEF q, T
    <3>4. QED
      BY <3>2, <3>3
  <2>6. \A a, b : \A V : \A t \in Seq(V) : \A x \in 1..Len(t) :
          /\ x + 1 \in 1..Len((<<a>> \o t) \o <<b>>)
          /\ ((<<a>> \o t) \o <<b>>)[x + 1] = t[x]
    OBVIOUS
  <2> HIDE DEF n, q, T
  <2>7. /\ n + 1 \in 1..Len(OnScenesGenerated(Scenes))
        /\ OnScenesGenerated(Scenes)[n + 1] = q[n]
    <3>1. OnScenesGenerated(Scenes) = (<<SetStatus("SCENES_READY")>> \o q) \o <<SetStatus("VOICE_GENERATING")>>
      BY DEF OnScenesGenerated, q
    <3>2. QED
      BY <2>3, <2>5, <2>6, <3>1
  <2>8. Callback("SCENES", Scenes) = OnScenesGenerated(Scenes)
    BY DEF Callback
  <2>9. QED
    BY <2>4, <2>7, <2>8 DEF Names
<1>6. QED
  BY <1>2, <1>3, <1>4, <1>5

\* What requests call: they enqueue the first stages only.
ClientCalls ==
    [call : {"status"}, status : Statuses]
        \cup [call : {"enqueue"}, kind : {OfProject("SCRIPT"), OfProject("SCENES")}]
        \cup {SaveScript} \cup [call : {"requeue", "push"}, id : Nat]
        \cup [call : {"restore"}, type : {k.type : k \in Kinds}]

ClientsOK == \A c \in Clients : prog[c] \in Seq(ClientCalls)

LEMMA RequestCalls ==
    ASSUME Ready, NEW c \in Clients,
           CreateProject(c) \/ Approve(c) \/ Reject(c) \/ RetryProject(c)
    PROVE  \E q \in Seq(ClientCalls) : prog' = [prog EXCEPT ![c] = q]
<1> DEFINE K == {OfProject("SCRIPT"), OfProject("SCENES")}
<1>1. Calls(K, Statuses, 0) \subseteq ClientCalls /\ SaveScript \in ClientCalls
  BY DEF Calls, ClientCalls
<1>2. \A S, T : S \subseteq T => Seq(S) \subseteq Seq(T)
  OBVIOUS
<1>3. Seq(Calls(K, Statuses, 0)) \subseteq Seq(ClientCalls)
  BY <1>1, <1>2
<1>4. CASE CreateProject(c)
  <2>1. PlainStatuses \subseteq Statuses
    BY DEF PlainStatuses
  <2>2. /\ EnqueueThenStatus("SCRIPT", "SCRIPT_GENERATING") \in Seq(ClientCalls)
        /\ OnScriptGenerated \in Seq(ClientCalls)
    BY <1>3, <2>1, ProjectPrograms
  <2>3. <<SaveScript>> \o OnScriptGenerated \in Seq(ClientCalls)
    BY <1>1, <2>2, SeqFacts
  <2>4. QED
    BY <1>4, <2>2, <2>3 DEF CreateProject, Request
<1>5. CASE Approve(c) \/ Reject(c)
  <2>1. SetStatus("APPROVED") \in ClientCalls /\ SetStatus("REJECTED") \in ClientCalls
    BY DEF ClientCalls, SetStatus, Statuses
  <2>2. <<SetStatus("APPROVED")>> \in Seq(ClientCalls) /\ <<SetStatus("REJECTED")>> \in Seq(ClientCalls)
    BY <2>1, SeqFacts
  <2>3. QED
    BY <1>5, <2>2 DEF Approve, Reject, Request
<1>6. CASE RetryProject(c)
  <2>1. RetryCalls \subseteq ClientCalls
    BY DEF RetryCalls, ClientCalls, Requeue, Restore, Ready, TablesReady
  <2>2. Seq(RetryCalls) \subseteq Seq(ClientCalls)
    BY <1>2, <2>1
  <2>3. QED
    BY <1>6, <2>2, RetryProgram DEF NewProgram
<1>7. QED
  BY <1>4, <1>5, <1>6

\* What becomes of the program of a request.
LEMMA ClientMoves ==
    ASSUME Sound, [Next]_vars, NEW c \in Clients
    PROVE  \/ prog'[c] = prog[c]
           \/ Advances(c) /\ Perform(Head(prog[c])) /\ prog'[c] = Rest(c)
           \/ prog'[c] = <<>> /\ UNCHANGED <<status, rows, jobs>>
           \/ CreateProject(c) \/ Approve(c) \/ Reject(c) \/ RetryProject(c)
<1>1. c \in Procs /\ DOMAIN prog = Procs /\ c \notin Workers
  BY WorkflowAssumption DEF Procs, Sound, Ready, ProgramsReady
<1>2. ASSUME NEW w \in Workers, WorkerStep(w) PROVE prog'[c] = prog[c]
  BY <1>1, <1>2, OthersKept DEF Panic
<1>3. ASSUME NEW d \in Clients, d # c,
             CreateProject(d) \/ Approve(d) \/ Reject(d) \/ RetryProject(d) \/ ClientStep(d)
      PROVE  prog'[c] = prog[c]
  BY <1>1, <1>3 DEF CreateProject, Approve, Reject, RetryProject, ClientStep, ClientCall, NextCall, ClientError,
                    Request
<1>4. CASE ClientStep(c)
  BY <1>1, <1>4 DEF ClientStep, ClientCall, NextCall, ClientError, Advances
<1>5. CASE UNCHANGED vars
  BY <1>5 DEF vars
<1>6. QED
  BY <1>2, <1>3, <1>4, <1>5 DEF Next

LEMMA ClientsOKStep == Sound /\ ClientsOK /\ [Next]_vars => ClientsOK'
<1> SUFFICES ASSUME Sound, ClientsOK, [Next]_vars, NEW c \in Clients
             PROVE  prog'[c] \in Seq(ClientCalls)
  BY DEF ClientsOK
<1>1. prog[c] \in Seq(ClientCalls) /\ <<>> \in Seq(ClientCalls)
  BY SeqFacts DEF ClientsOK
<1>2. CASE Advances(c) /\ prog'[c] = Rest(c)
  <2>1. prog[c] # <<>> /\ Head(prog[c]) \in ClientCalls /\ Tail(prog[c]) \in Seq(ClientCalls)
        /\ Len(jobs) \in Nat
    BY <1>1, <1>2, SeqFacts DEF Advances, Sound, Ready, TablesReady
  <2>2. FollowedBy(Head(prog[c])) \in Seq(ClientCalls)
    <3>1. Push(Len(jobs) + 1) \in ClientCalls
      BY <2>1 DEF Push, ClientCalls
    <3>2. Head(prog[c]).call = "requeue" => Push(Head(prog[c]).id) \in ClientCalls
      BY <2>1 DEF Push, ClientCalls, SaveScript
    <3>3. SetStatus(StatusForRetry(Head(prog[c]).type)) \in ClientCalls
      BY DEF SetStatus, ClientCalls, StatusForRetry, Statuses
    <3>4. QED
      BY <3>1, <3>2, <3>3, SeqFacts DEF FollowedBy
  <2>3. QED
    BY <1>2, <2>1, <2>2, SeqFacts DEF Rest
<1>3. CASE CreateProject(c) \/ Approve(c) \/ Reject(c) \/ RetryProject(c)
  <2>1. c \in Procs /\ DOMAIN prog = Procs /\ Ready
    BY DEF Procs, Sound, Ready, ProgramsReady
  <2>2. QED
    BY <1>3, <2>1, RequestCalls
<1>4. QED
  BY <1>1, <1>2, <1>3, ClientMoves

\* A project with jobs has one of the first two stages.
Begun == jobs # <<>> => HasJob("SCRIPT") \/ HasJob("SCENES")

LEMMA HasJobKept ==
    ASSUME Sound, [Next]_vars, NEW type, HasJob(type)
    PROVE  HasJob(type)'
BY JobChange DEF HasJob

LEMMA BegunStep == Sound /\ ClientsOK /\ Begun /\ [Next]_vars => Begun'
<1> SUFFICES ASSUME Sound, ClientsOK, Begun, [Next]_vars, jobs' # <<>>
             PROVE  HasJob("SCRIPT")' \/ HasJob("SCENES")'
  BY DEF Begun
<1>1. Len(jobs) \in Nat /\ Len(jobs') \in Nat /\ jobs \in Seq(ReadyJobs)
  BY JobChange DEF Sound, Ready, TablesReady
<1>2. CASE jobs # <<>>
  BY <1>2, HasJobKept DEF Begun
<1>3. CASE jobs = <<>>
  <2>1. Len(jobs) = 0
    BY <1>1, <1>3
  <2>2. Len(jobs') > 0
    <3>1. jobs' \in Seq(ReadyJobs')
      BY SoundStep DEF Sound, Ready, TablesReady
    <3>2. QED
      BY <3>1
  <2>3. 1 \in 1..Len(jobs') /\ NewBy(1)
    BY <1>1, <2>1, <2>2, JobChange
  <2>4. PICK p \in Procs : /\ prog[p] # <<>> /\ Head(prog[p]).call = "enqueue"
                           /\ jobs'[1].kind = Head(prog[p]).kind
    BY <2>3 DEF NewBy, Submits
  <2>5. p \notin Workers
    BY <1>1, <2>1, <2>4 DEF Sound, Delivery, PlacesOK, HeldOK
  <2>6. Head(prog[p]) \in ClientCalls
    BY <2>4, <2>5, SeqFacts DEF ClientsOK, Procs
  <2>7. Head(prog[p]).kind \in {OfProject("SCRIPT"), OfProject("SCENES")}
    BY <2>4, <2>6 DEF ClientCalls, SaveScript
  <2>8. jobs'[1].kind.type \in {"SCRIPT", "SCENES"}
    BY <2>4, <2>7, KindFacts
  <2>9. QED
    BY <2>3, <2>8 DEF HasJob
<1>4. QED
  BY <1>2, <1>3

\* The stage that the callback of a stage enqueues.
FollowUps(type) ==
    CASE type = "SCRIPT"   -> {OfProject("SCENES")}
      [] type = "SUBTITLE" -> {OfProject("RENDER")}
      [] type = "RENDER"   -> {OfProject("REVIEW")}
      [] OTHER             -> {}

StageFollows ==
    \A i \in 1..Len(jobs) : \A k \in FollowUps(jobs[i].kind.type) : HasKind(k) \/ Working(i, {k})

LEMMA StageFollowsStep == Sound /\ StageFollows /\ [Next]_vars => StageFollows'
<1> SUFFICES ASSUME Sound, StageFollows, [Next]_vars, NEW i \in 1..Len(jobs'),
                    NEW k \in FollowUps(jobs'[i].kind.type), ~HasKind(k)'
             PROVE  Working(i, {k})'
  BY DEF StageFollows
<1>1. CASE i \notin 1..Len(jobs)
  <2>1. jobs'[i].status = "QUEUED"
    BY <1>1, JobChange
  <2>2. HeldOK' /\ i # 0
    BY SoundStep, JobChange DEF Sound, Delivery
  <2>3. QED
    BY <2>1, <2>2 DEF Working, Over, HeldOK
<1>2. CASE i \in 1..Len(jobs)
  <2>1. jobs'[i].kind = jobs[i].kind /\ Working(i, {k}) /\ k \in FollowUps(jobs[i].kind.type)
    <3>1. jobs'[i].kind = jobs[i].kind
      BY <1>2, JobChange
    <3>2. k \in FollowUps(jobs[i].kind.type) /\ ~HasKind(k)
      BY <3>1, HasKindKept
    <3>3. QED
      BY <1>2, <3>1, <3>2 DEF StageFollows
  <2>2. ASSUME NEW w \in Workers, cur[w] = i, Begins(w) PROVE Working(i, {k})'
    <3>1. jobs[i].kind.type \in {"SCRIPT", "SUBTITLE", "RENDER"}
      BY <2>1 DEF FollowUps
    <3>2. ~CountImages(w)
      BY <2>2, <3>1 DEF CountImages, Sound, Ready, WorkersReady, AssetTypes
    <3>3. /\ KindOf(w) = jobs[i].kind /\ pc'[w] = "calls" /\ cur'[w] = i
          /\ prog'[w] = Callback(KindOf(w).type, SceneList')
      BY <2>2, <3>1, <3>2, StartFacts DEF Begins, AssetTypes
    <3>4. Names(prog'[w], k)
      BY <2>1, <3>1, <3>3, CallbackNames DEF FollowUps
    <3>5. QED
      BY <3>3, <3>4, BeginWorking
  <2>3. QED
    <3>1. Working(i, {k})' \/ \E w \in Workers : cur[w] = i /\ Begins(w)
      BY <1>2, <2>1, WorkingStep
    <3>2. QED
      BY <2>2, <3>1
<1>3. QED
  BY <1>1, <1>2

\* Once the scenes are stored, their assets are enqueued.
AssetsFollow ==
    Exists(OfProject("SCENES")) =>
        \/ \A k \in Assets : HasKind(k)
        \/ \E i \in 1..Len(jobs) : jobs[i].kind.type = "SCENES" /\ Working(i, Assets)

LEMMA AssetsFollowStep == Sound /\ AssetsFollow /\ [Next]_vars => AssetsFollow'
<1> SUFFICES ASSUME Sound, AssetsFollow, [Next]_vars, Exists(OfProject("SCENES"))',
                    ~ \A k \in Assets : HasKind(k)'
             PROVE  \E i \in 1..Len(jobs') : jobs'[i].kind.type = "SCENES" /\ Working(i, Assets)'
  BY DEF AssetsFollow
<1>1. ASSUME NEW w \in Workers, Starts(w), KindOf(w).type = "SCENES"
      PROVE  \E i \in 1..Len(jobs') : jobs'[i].kind.type = "SCENES" /\ Working(i, Assets)'
  <2>1. /\ cur'[w] = cur[w] /\ cur[w] \in 1..Len(jobs) /\ UNCHANGED jobs /\ pc'[w] = "calls"
        /\ KindOf(w) = jobs[cur[w]].kind /\ prog'[w] = Callback("SCENES", SceneList')
    BY <1>1, StartFacts DEF AssetTypes
  <2>2. SceneList' = Scenes
    BY DEF SceneList
  <2>3. PICK i \in 1..Len(jobs') : i = cur[w] /\ jobs'[i].kind.type = "SCENES"
    BY <1>1, <2>1
  <2>4. Working(i, Assets)'
    BY <1>1, <2>1, <2>2, <2>3, BeginWorking, CallbackNames
  <2>5. QED
    BY <2>3, <2>4
<1>2. CASE Exists(OfProject("SCENES"))
  <2>1. PICK i \in 1..Len(jobs) : jobs[i].kind.type = "SCENES" /\ Working(i, Assets)
    BY <1>2, HasKindKept DEF AssetsFollow
  <2>2. i \in 1..Len(jobs') /\ jobs'[i].kind.type = "SCENES"
    BY <2>1, JobChange
  <2>3. ASSUME NEW w \in Workers, cur[w] = i, Begins(w) PROVE Starts(w) /\ KindOf(w).type = "SCENES"
    <3>1. ~CountImages(w)
      BY <2>1, <2>3 DEF CountImages, Sound, Ready, WorkersReady, AssetTypes
    <3>2. QED
      BY <2>1, <2>3, <3>1 DEF Begins, KindOf
  <2>4. Working(i, Assets)' \/ \E w \in Workers : cur[w] = i /\ Begins(w)
    BY <2>1, WorkingStep
  <2>5. QED
    BY <1>1, <2>1, <2>2, <2>3, <2>4
<1>3. CASE ~Exists(OfProject("SCENES"))
  <2>1. rows'[OfProject("SCENES")] # rows[OfProject("SCENES")] /\ OfProject("SCENES") \in Kinds
    BY <1>3, KindFacts DEF Exists
  <2>2. ASSUME NEW w \in Workers, Generate(w), KindOf(w) \in Kinds
        PROVE  Starts(w) /\ KindOf(w).type = "SCENES"
    <3>1. KindOf(w) = OfProject("SCENES")
      BY <2>1, <2>2 DEF Generate, Sound, Ready, TablesReady
    <3>2. QED
      BY <2>2, <3>1, KindFacts DEF Starts, Generate
  <2>3. ASSUME NEW p \in Procs, DoSaveScript(Head(prog[p])) PROVE FALSE
    <3>1. OfProject("SCRIPT") # OfProject("SCENES")
      BY DEF OfProject
    <3>2. QED
      BY <2>1, <2>3, <3>1 DEF DoSaveScript, Sound, Ready, TablesReady
  <2>4. PICK w \in Workers : Starts(w) /\ KindOf(w).type = "SCENES"
    BY <2>1, <2>2, <2>3, RowsChange DEF Sound
  <2>5. QED
    BY <1>1, <2>4
<1>4. QED
  BY <1>2, <1>3

\* The handler of job i is past its artifact.
Made(i) ==
    \/ jobs[i].status = "SUCCEEDED"
    \/ \E w \in Workers : cur[w] = i /\ pc[w] \in {"audios", "images", "calls", "done"}

LEMMA HeldAlone ==
    ASSUME Sound, [Next]_vars, NEW w \in Workers, cur'[w] # 0
    PROVE  /\ cur'[w] \in 1..Len(jobs') /\ jobs'[cur'[w]].status = "RUNNING"
           /\ \A v \in Workers : cur'[v] = cur'[w] => v = w
<1>1. HeldOK'
  BY SoundStep DEF Sound, Delivery
<1>2. QED
  BY <1>1 DEF HeldOK

LEMMA MadeStep ==
    ASSUME Sound, [Next]_vars, NEW i \in 1..Len(jobs'), Made(i)'
    PROVE  /\ i \in 1..Len(jobs) /\ jobs'[i].kind = jobs[i].kind
           /\ Made(i) \/ \E w \in Workers : cur[w] = i /\ cur'[w] = i /\ Starts(w)
<1>1. i # 0
  BY JobChange
<1>2. i \in 1..Len(jobs)
  BY <1>1, JobChange, HeldAlone DEF Made
<1>3. jobs'[i].kind = jobs[i].kind
  BY <1>2, JobChange
<1>4. CASE jobs'[i].status = "SUCCEEDED"
  BY <1>2, <1>4, JobChange DEF JobAfter, Made
<1>5. ASSUME NEW w \in Workers, cur'[w] = i, pc'[w] \in {"audios", "images", "calls", "done"}, ~Made(i)
      PROVE  cur[w] = i /\ Starts(w)
  <2>1. CASE pc'[w] = pc[w] /\ cur'[w] = cur[w]
    BY <1>5, <2>1 DEF Made
  <2>2. CASE WorkerStep(w) /\ ~Panic(w)
    <3>1. CASE Starts(w)
      BY <1>5, <3>1 DEF Starts
    <3>2. CASE cur'[w] = cur[w] /\ pc[w] \in {"audios", "images", "calls"}
      BY <1>5, <3>2 DEF Made
    <3>3. CASE pc'[w] \in {"inputs", "check", "generate", "error", "idle", "failed"}
      BY <1>5, <3>3
    <3>4. QED
      BY <2>2, <3>1, <3>2, <3>3, PlacesAfter
  <2>3. CASE pc'[w] = "idle"
    BY <1>5, <2>3
  <2>4. QED
    BY <2>1, <2>2, <2>3, WorkerMoves
<1>6. QED
  BY <1>2, <1>3, <1>4, <1>5 DEF Made

\* What is made exists, but for the scenes of a script that has none.
MadeExist ==
    \A i \in 1..Len(jobs) : Made(i) =>
        \/ jobs[i].kind.type = "REVIEW"
        \/ jobs[i].kind.type = "SCENES" /\ "noScenes" \in Faults
        \/ Exists(jobs[i].kind)

LEMMA StartMakes ==
    ASSUME Sound, NEW w \in Workers, Starts(w)
    PROVE  \/ KindOf(w).type = "REVIEW"
           \/ KindOf(w).type = "SCENES" /\ "noScenes" \in Faults
           \/ rows'[KindOf(w)] > 0
<1>1. KindOf(w) \in Kinds /\ rows \in [Kinds -> Nat]
  BY StartFacts DEF Sound, Ready, TablesReady
<1>2. CASE CheckExisting(w) /\ Reuses(KindOf(w))
  BY <1>1, <1>2 DEF CheckExisting, Reuses, Exists
<1>3. CASE Generate(w)
  BY <1>1, <1>3 DEF Generate
<1>4. CASE GenerateNoScenes(w)
  BY <1>4 DEF GenerateNoScenes
<1>5. QED
  BY <1>2, <1>3, <1>4 DEF Starts

LEMMA RowsKept ==
    ASSUME Sound, [Next]_vars
    PROVE  \A k \in Kinds : Exists(k) => rows'[k] > 0
BY GrowthStep DEF Grows, Exists, Sound, Ready, TablesReady

LEMMA MadeExistStep == Sound /\ MadeExist /\ [Next]_vars => MadeExist'
<1> SUFFICES ASSUME Sound, MadeExist, [Next]_vars, NEW i \in 1..Len(jobs'), Made(i)'
             PROVE  \/ jobs'[i].kind.type = "REVIEW"
                    \/ jobs'[i].kind.type = "SCENES" /\ "noScenes" \in Faults
                    \/ rows'[jobs'[i].kind] > 0
  BY DEF MadeExist, Exists
<1>1. /\ i \in 1..Len(jobs) /\ jobs'[i].kind = jobs[i].kind /\ jobs[i].kind \in Kinds
      /\ Made(i) \/ \E w \in Workers : cur[w] = i /\ cur'[w] = i /\ Starts(w)
  BY MadeStep, JobFacts DEF Sound
<1>2. CASE Made(i)
  BY <1>1, <1>2, RowsKept DEF MadeExist
<1>3. ASSUME NEW w \in Workers, cur[w] = i, cur'[w] = i, Starts(w)
      PROVE  \/ jobs'[i].kind.type = "REVIEW"
             \/ jobs'[i].kind.type = "SCENES" /\ "noScenes" \in Faults
             \/ rows'[jobs'[i].kind] > 0
  <2>1. KindOf(w) = jobs'[i].kind
    BY <1>1, <1>3 DEF KindOf
  <2>2. QED
    BY <1>3, <2>1, StartMakes
<1>4. QED
  BY <1>1, <1>2, <1>3

\* Once all assets exist, an asset job is not over that enqueues the subtitles: it has
\* still to count the images, or enough audios were there when it counted them.
Counting(i) ==
    /\ jobs[i].kind.type \in AssetTypes
    /\ Working(i, {OfProject("SUBTITLE")})
    /\ \A w \in Workers : cur[w] = i /\ pc[w] = "images" => audios[w] >= NumScenes

SubtitleFollows ==
    AssetsExist => HasKind(OfProject("SUBTITLE")) \/ \E i \in 1..Len(jobs) : Counting(i)

\* The counts of assets that all exist are not below the number of scenes.
LEMMA AssetsAreCounted ==
    ASSUME Sound, AssetsExist
    PROVE  /\ CountRows(VoiceKinds) >= NumScenes /\ CountRows(ImageKinds) >= NumScenes
           /\ CountRows(VoiceKinds) \in Nat /\ CountRows(ImageKinds) \in Nat
<1>1. rows \in [Kinds -> Nat]
  BY DEF Sound, Ready, TablesReady
<1>2. (\A k \in VoiceKinds : Exists(k)) /\ (\A k \in ImageKinds : Exists(k))
  BY DEF AssetsExist, VoiceKinds, ImageKinds
<1>3. CountRows(VoiceKinds) >= NumScenes /\ CountRows(VoiceKinds) \in Nat
  BY <1>1, <1>2, AssetKinds, RowsAtLeast, RowsFinite
<1>4. CountRows(ImageKinds) >= NumScenes /\ CountRows(ImageKinds) \in Nat
  BY <1>1, <1>2, AssetKinds, RowsAtLeast, RowsFinite
<1>5. QED
  BY <1>3, <1>4

LEMMA ListBound == Cardinality(SceneList) \in Nat /\ Cardinality(SceneList) <= NumScenes
<1>1. Cardinality(Scenes) = NumScenes /\ NumScenes \in Nat
  BY FS_Interval, WorkflowAssumption DEF Scenes
<1>2. Cardinality({}) = 0
  BY FS_EmptySet
<1>3. QED
  BY <1>1, <1>2 DEF SceneList

\* A worker that counts the images when all assets exist, having counted enough audios,
\* goes on to the subtitles.
LEMMA CountCompletes ==
    ASSUME Sound, AssetsExist, NEW w \in Workers, CountImages(w), audios[w] >= NumScenes
    PROVE  pc'[w] = "calls" /\ prog'[w] = OnAssetsComplete /\ UNCHANGED <<cur, jobs, rows>>
<1>1. audios[w] \in Nat /\ NumScenes \in Nat /\ DOMAIN pc = Workers /\ DOMAIN prog = Procs /\ w \in Procs
  BY WorkflowAssumption DEF Sound, Ready, WorkersReady, ProgramsReady, BoundsOK, Procs
<1>2. AllAssets(w)
  BY <1>1, AssetsAreCounted, ListBound DEF AllAssets, ImageKinds
<1>3. QED
  BY <1>1, <1>2 DEF CountImages, Goto

\* The step that completes the assets.
LEMMA AssetsCompleted ==
    ASSUME Sound, [Next]_vars, AssetsExist', ~AssetsExist
    PROVE  \E w \in Workers : /\ Starts(w) /\ pc'[w] = "audios" /\ cur'[w] = cur[w]
                              /\ cur[w] \in 1..Len(jobs) /\ jobs'[cur[w]].kind.type \in AssetTypes
<1>1. PICK k \in Kinds : k.type \in AssetTypes /\ rows'[k] # rows[k]
  <2>1. PICK s \in Scenes : ~Exists(Voice(s)) \/ ~Exists(Image(s))
    BY DEF AssetsExist
  <2>2. rows'[Voice(s)] > 0 /\ rows'[Image(s)] > 0
    BY DEF AssetsExist, Exists
  <2>3. QED
    BY <2>1, <2>2, KindFacts DEF Exists, AssetTypes
<1>2. ASSUME NEW p \in Procs, DoSaveScript(Head(prog[p])) PROVE FALSE
  <2>1. k # OfProject("SCRIPT")
    BY <1>1, KindFacts DEF AssetTypes
  <2>2. QED
    BY <1>1, <1>2, <2>1 DEF DoSaveScript, Sound, Ready, TablesReady
<1>3. PICK w \in Workers : Generate(w) /\ KindOf(w) \in Kinds
  BY <1>1, <1>2, RowsChange DEF Sound
<1>4. KindOf(w) = k
  BY <1>1, <1>3 DEF Generate, Sound, Ready, TablesReady
<1>5. Starts(w)
  <2>1. UNCHANGED <<cur, jobs>> /\ Proceed(w) /\ pc[w] \in {"check", "generate"}
    BY <1>3 DEF Generate
  <2>2. QED
    BY <1>3, <2>1 DEF Starts
<1>6. QED
  BY <1>1, <1>4, <1>5, StartFacts DEF AssetTypes

LEMMA CountingStep ==
    ASSUME Sound, [Next]_vars, AssetsExist, NEW i \in 1..Len(jobs), Counting(i)
    PROVE  HasKind(OfProject("SUBTITLE"))' \/ Counting(i)'
<1> DEFINE K == {OfProject("SUBTITLE")}
<1> SUFFICES ASSUME ~HasKind(OfProject("SUBTITLE"))' PROVE Counting(i)'
  OBVIOUS
<1>1. /\ i \in 1..Len(jobs') /\ i # 0
      /\ jobs'[i].kind = jobs[i].kind /\ jobs[i].kind.type \in AssetTypes /\ Working(i, K)
  BY JobChange DEF Counting
<1>2. ASSUME NEW w \in Workers, cur[w] = i, Begins(w) PROVE Counting(i)'
  <2>1. KindOf(w).type \in AssetTypes
    BY <1>1, <1>2 DEF KindOf
  <2>2. CountImages(w)
    BY <1>2, <2>1, StartFacts DEF Begins, AssetTypes
  <2>3. audios[w] >= NumScenes
    BY <1>2, <2>2 DEF Counting, CountImages
  <2>4. pc'[w] = "calls" /\ prog'[w] = OnAssetsComplete /\ cur'[w] = i
    BY <1>2, <2>2, <2>3, CountCompletes
  <2>5. Working(i, K)'
    BY <1>1, <2>4, BeginWorking, CallbackNames
  <2>6. \A v \in Workers : cur'[v] = i => v = w
    BY <1>1, <2>4, HeldAlone
  <2>7. QED
    BY <1>1, <2>4, <2>5, <2>6 DEF Counting
<1>3. CASE Working(i, K)' /\ ~ \E w \in Workers : cur[w] = i /\ Begins(w)
  <2>1. SUFFICES ASSUME NEW w \in Workers, cur'[w] = i, pc'[w] = "images"
                 PROVE  audios'[w] >= NumScenes
    BY <1>1, <1>3 DEF Counting
  <2>2. CASE pc'[w] = pc[w] /\ cur'[w] = cur[w] /\ audios'[w] = audios[w]
    BY <2>1, <2>2 DEF Counting
  <2>3. CASE WorkerStep(w) /\ ~Panic(w)
    <3>1. CountAudios(w)
      BY <1>1, <2>1, <2>3, PlacesAfter, StartFacts DEF AssetTypes
    <3>2. audios'[w] = CountRows(VoiceKinds)
      BY <3>1 DEF CountAudios, VoiceKinds, Sound, BoundsOK
    <3>3. QED
      BY <3>2, AssetsAreCounted
  <2>4. QED
    BY <2>1, <2>2, <2>3, WorkerMoves
<1>4. Working(i, K)' \/ \E w \in Workers : cur[w] = i /\ Begins(w)
  BY <1>1, WorkingStep
<1>5. QED
  BY <1>2, <1>3, <1>4

LEMMA SubtitleFollowsStep == Sound /\ SubtitleFollows /\ [Next]_vars => SubtitleFollows'
<1> SUFFICES ASSUME Sound, SubtitleFollows, [Next]_vars, AssetsExist', ~HasKind(OfProject("SUBTITLE"))'
             PROVE  \E i \in 1..Len(jobs') : Counting(i)'
  BY DEF SubtitleFollows
<1>1. CASE AssetsExist
  <2>1. PICK i \in 1..Len(jobs) : Counting(i)
    BY <1>1, HasKindKept DEF SubtitleFollows
  <2>2. i \in 1..Len(jobs')
    BY JobChange
  <2>3. QED
    BY <1>1, <2>1, <2>2, CountingStep
<1>2. CASE ~AssetsExist
  <2>1. PICK w \in Workers : /\ pc'[w] = "audios" /\ cur'[w] = cur[w]
                             /\ cur[w] \in 1..Len(jobs) /\ jobs'[cur[w]].kind.type \in AssetTypes
    BY <1>2, AssetsCompleted
  <2>2. PICK i \in 1..Len(jobs') : i = cur[w] /\ i # 0
    BY <2>1, JobChange
  <2>3. jobs'[i].status = "RUNNING" /\ \A v \in Workers : cur'[v] = i => v = w
    BY <2>1, <2>2, HeldAlone
  <2>4. Counting(i)'
    BY <2>1, <2>2, <2>3 DEF Counting, Working, Over
  <2>5. QED
    BY <2>4
<1>3. QED
  BY <1>1, <1>2

\* The inductive invariant of the pipeline: what is still to be enqueued, some job will.
Flow ==
    /\ Sound /\ ClientsOK /\ Begun /\ StageFollows /\ AssetsFollow /\ MadeExist
    /\ SubtitleFollows

LEMMA FlowHolds == Spec => []Flow
<1>1. Init => Flow
  <2> SUFFICES ASSUME Init PROVE Flow
    OBVIOUS
  <2>1. Sound /\ Len(jobs) = 0 /\ jobs = <<>> /\ \A k \in Kinds : ~Exists(k)
    BY SoundInit DEF Init, Exists
  <2>2. ClientsOK
    BY SeqFacts DEF Init, ClientsOK, Procs
  <2>3. Begun /\ StageFollows /\ MadeExist
    BY <2>1 DEF Begun, StageFollows, MadeExist
  <2>4. AssetsFollow
    BY <2>1, KindFacts DEF AssetsFollow
  <2>5. SubtitleFollows
    <3>1. 1 \in Scenes
      BY WorkflowAssumption DEF Scenes
    <3>2. QED
      BY <2>1, <3>1, KindFacts DEF SubtitleFollows, AssetsExist
  <2>6. QED
    BY <2>1, <2>2, <2>3, <2>4, <2>5 DEF Flow
<1>2. Flow /\ [Next]_vars => Flow'
  BY SoundStep, ClientsOKStep, BegunStep, StageFollowsStep, AssetsFollowStep, MadeExistStep,
     SubtitleFollowsStep DEF Flow
<1>3. QED
  BY <1>1, <1>2, PTL DEF Spec

\* Jobs that are neither given up nor lost nor waiting are over.
LEMMA AllOver ==
    ASSUME Sound, ~GivenUp, ~Lost, NEW i \in 1..Len(jobs)
    PROVE  jobs[i].status = "SUCCEEDED"
<1>1. jobs[i].status \in {"QUEUED", "RUNNING", "SUCCEEDED", "FAILED"}
  BY JobFacts DEF Sound
<1>2. QED
  BY <1>1 DEF GivenUp, Lost

\* A stage whose predecessors are all over has been reached.
LEMMA FlowReaches ==
    ASSUME Flow, \A i \in 1..Len(jobs) : jobs[i].status = "SUCCEEDED"
    PROVE  /\ \A i \in 1..Len(jobs) : \A k \in FollowUps(jobs[i].kind.type) : HasKind(k)
           /\ Exists(OfProject("SCENES")) => AssetsExist
           /\ AssetsExist => HasKind(OfProject("SUBTITLE"))
<1>1. \A i \in 1..Len(jobs) : Over(i) /\ Made(i) /\ \A kinds : ~Working(i, kinds)
  BY DEF Over, Made, Working
<1>2. \A i \in 1..Len(jobs) : \A k \in FollowUps(jobs[i].kind.type) : HasKind(k)
  BY <1>1 DEF Flow, StageFollows
<1>3. ASSUME Exists(OfProject("SCENES")) PROVE AssetsExist
  <2>1. \A k \in Assets : HasKind(k)
    BY <1>1, <1>3 DEF Flow, AssetsFollow
  <2>2. ASSUME NEW k \in Assets PROVE Exists(k)
    <3>1. PICK i \in 1..Len(jobs) : jobs[i].kind = k
      BY <2>1, <2>2 DEF HasKind
    <3>2. k.type \in AssetTypes
      BY <2>2, KindFacts DEF Assets, VoiceKinds, ImageKinds, AssetTypes
    <3>3. QED
      BY <1>1, <3>1, <3>2 DEF Flow, MadeExist, AssetTypes
  <2>3. QED
    BY <2>2 DEF AssetsExist, Assets, VoiceKinds, ImageKinds
<1>4. AssetsExist => HasKind(OfProject("SUBTITLE"))
  BY <1>1 DEF Flow, SubtitleFollows, Counting
<1>5. QED
  BY <1>2, <1>3, <1>4

\* The kinds of the stages of a project, from the type of their jobs.
LEMMA StageKinds ==
    ASSUME Sound, NEW type \in {"SCRIPT", "SCENES", "SUBTITLE", "RENDER", "REVIEW"}
    PROVE  HasJob(type) <=> HasKind(OfProject(type))
<1>1. \A i \in 1..Len(jobs) : jobs[i].kind \in Kinds
  BY JobFacts DEF Sound
<1>2. \A i \in 1..Len(jobs) : jobs[i].kind.type = type <=> jobs[i].kind = OfProject(type)
  BY <1>1, KindFacts DEF AssetTypes
<1>3. QED
  BY <1>2 DEF HasJob, HasKind

\* Whatever fails, is retried or is restarted, a project stops short of its review only
\* because a job was given up or was never pushed, because its creation was cut off
\* before there was a job, or because its script has no scenes: where all jobs of a
\* project succeeded, no callback that was cut off has left out a job on the way.
THEOREM StoppedForAReason == Spec => []StopsForAReason
<1>1. Flow => StopsForAReason
  <2> SUFFICES ASSUME Flow, AllQuiet, pending = <<>>, ~Reviewed, ~GivenUp, ~Lost, jobs # <<>>,
                      ~(HasJob("SCENES") /\ SceneList = {})
               PROVE  FALSE
    BY DEF StopsForAReason
  <2>1. Sound /\ \A i \in 1..Len(jobs) : jobs[i].status = "SUCCEEDED"
    BY AllOver DEF Flow
  <2>2. ASSUME NEW type \in {"SCRIPT", "SUBTITLE", "RENDER"}, HasJob(type),
               NEW next \in {"SCENES", "RENDER", "REVIEW"}, OfProject(next) \in FollowUps(type)
        PROVE  HasJob(next)
    <3>1. HasKind(OfProject(next))
      BY <2>1, <2>2, FlowReaches DEF HasJob
    <3>2. QED
      BY <2>1, <3>1, StageKinds
  <2>3. HasJob("SCENES")
    BY <2>2 DEF Flow, Begun, FollowUps
  <2>4. AssetsExist
    BY <2>1, <2>3, FlowReaches DEF SceneList
  <2>5. HasJob("SUBTITLE")
    BY <2>1, <2>4, FlowReaches, StageKinds
  <2>6. HasJob("RENDER")
    BY <2>2, <2>5 DEF FollowUps
  <2>7. HasJob("REVIEW")
    BY <2>2, <2>6 DEF FollowUps
  <2>8. QED
    BY <2>1, <2>7 DEF Reviewed, HasJob, JobsOf
<1>2. QED
  BY <1>1, FlowHolds, PTL

-----------------------------------------------------------------------------
(* Without errors of the database, whichever asset comes last is noticed   *)
(* even where other jobs fail.                                             *)

\* Worker w is going to enqueue the subtitles.
Proceeding(w) ==
    \/ pc[w] = "audios"
    \/ pc[w] = "images" /\ audios[w] >= NumScenes
    \/ pc[w] = "calls" /\ Names(prog[w], OfProject("SUBTITLE"))

AssetsProceed ==
    AssetsExist => HasKind(OfProject("SUBTITLE")) \/ \E w \in Workers : Proceeding(w)

\* Nothing makes the worker process panic but an error of the database.
LEMMA NoPanic ==
    ASSUME Sound, "database" \notin Faults, NEW w \in Workers
    PROVE  ~Panic(w) /\ ~WorkerError(w)
<1>1. ~WorkerError(w)
  BY DEF WorkerError
<1>2. SUFFICES ASSUME Panic(w) PROVE FALSE
  BY <1>1
<1>3. cur[w] \in 1..Len(jobs) /\ KindOf(w).type = "RENDER"
  BY <1>2 DEF Panic, Sound, Ready, WorkersReady
<1>4. jobs[cur[w]] \in ReadyJobs
  BY <1>3, QueueFacts DEF Sound, Ready, TablesReady
<1>5. Exists(OfProject("SUBTITLE"))
  BY <1>3, <1>4 DEF KindOf, ReadyJobs, ReadyKinds, Prerequisites
<1>6. QED
  BY <1>2, <1>5 DEF Panic

LEMMA AssetsProceedStep ==
    ASSUME "database" \notin Faults, Sound, AssetsProceed, [Next]_vars
    PROVE  AssetsProceed'
<1> SUFFICES ASSUME AssetsExist', ~HasKind(OfProject("SUBTITLE"))'
             PROVE  \E w \in Workers : Proceeding(w)'
  BY DEF AssetsProceed
<1>1. CASE AssetsExist
  <2>1. PICK w \in Workers : Proceeding(w)
    BY <1>1, HasKindKept DEF AssetsProceed
  <2>2. CASE pc'[w] = pc[w] /\ prog'[w] = prog[w] /\ audios'[w] = audios[w]
    BY <2>1, <2>2 DEF Proceeding
  <2>3. CASE WorkerStep(w) /\ ~Panic(w)
    <3>1. CASE CountAudios(w) /\ pc'[w] = "images"
      <4>1. audios'[w] = CountRows(VoiceKinds)
        BY <3>1 DEF CountAudios, VoiceKinds, Sound, BoundsOK
      <4>2. QED
        BY <1>1, <3>1, <4>1, AssetsAreCounted DEF Proceeding
    <3>2. CASE CountImages(w)
      <4>1. audios[w] >= NumScenes
        BY <2>1, <3>2 DEF Proceeding, CountImages
      <4>2. QED
        BY <1>1, <3>2, <4>1, CountCompletes, CallbackNames DEF Proceeding
    <3>3. CASE WorkerCall(w) /\ pc[w] = "calls"
      <4>1. w \in Procs /\ Advances(w) /\ Perform(Head(prog[w]))
        BY <3>3 DEF WorkerCall, NextCall, Advances, Procs, Sound, Ready, WorkersReady
      <4>2. Names(prog'[w], OfProject("SUBTITLE"))
        BY <2>1, <3>3, <4>1, NamesKept DEF Proceeding
      <4>3. prog'[w] # <<>>
        BY <4>2 DEF Names
      <4>4. pc'[w] = "calls"
        BY <3>3, <4>1, <4>3 DEF WorkerCall, NextCall, Goto, Sound, Ready, WorkersReady, ProgramsReady
      <4>5. QED
        BY <4>2, <4>4 DEF Proceeding
    <3>4. CASE pc[w] \in {"idle", "inputs", "check", "generate", "failed", "done", "error"}
      BY <2>1, <3>4 DEF Proceeding
    <3>5. QED
      BY <2>3, <3>1, <3>2, <3>3, <3>4, PlacesAfter, NoPanic DEF Starts, Settles
  <2>4. ~ \E v \in Workers : Panic(v)
    BY NoPanic
  <2>5. QED
    BY <2>2, <2>3, <2>4, WorkerMoves
<1>2. CASE ~AssetsExist
  BY <1>2, AssetsCompleted DEF Proceeding
<1>3. QED
  BY <1>1, <1>2

\* Where neither the database nor the breakdown into scenes fails, a project whose scenes
\* all have their assets goes on to its subtitles when everyone is done, whatever else
\* failed: whichever asset comes last, the job that made it notices.
THEOREM AssetsAreNoticed ==
    ASSUME Faults \cap {"database", "noScenes"} = {}
    PROVE  Spec => []ReadyAssetsProceed
<1>1. Init => AssetsProceed
  <2> SUFFICES ASSUME Init PROVE ~AssetsExist
    BY DEF AssetsProceed
  <2>1. 1 \in Scenes
    BY WorkflowAssumption DEF Scenes
  <2>2. QED
    BY <2>1, KindFacts DEF Init, AssetsExist, Exists
<1>2. Flow /\ AssetsProceed /\ [Next]_vars => AssetsProceed'
  BY AssetsProceedStep DEF Flow
<1>3. Flow /\ AssetsProceed => ReadyAssetsProceed
  <2> SUFFICES ASSUME Flow, AssetsProceed, AllQuiet,
                      NEW i \in JobsOf("SCENES"), jobs[i].status = "SUCCEEDED",
                      \A s \in SceneList : Exists(Voice(s)) /\ Exists(Image(s))
               PROVE  HasJob("SUBTITLE")
    BY DEF ReadyAssetsProceed
  <2>1. Sound /\ i \in 1..Len(jobs) /\ Made(i) /\ jobs[i].kind = OfProject("SCENES")
    <3>1. Sound /\ i \in 1..Len(jobs) /\ jobs[i].kind.type = "SCENES"
      BY DEF Flow, JobsOf
    <3>2. jobs[i].kind \in Kinds
      BY <3>1, JobFacts DEF Sound
    <3>3. QED
      BY <3>1, <3>2, KindFacts DEF Made, AssetTypes
  <2>2. Exists(OfProject("SCENES"))
    BY <2>1, KindFacts DEF Flow, MadeExist
  <2>3. AssetsExist
    BY <2>2 DEF SceneList, AssetsExist
  <2>4. \A w \in Workers : ~Proceeding(w)
    BY DEF AllQuiet, Proceeding
  <2>5. HasKind(OfProject("SUBTITLE"))
    BY <2>3, <2>4 DEF AssetsProceed
  <2>6. QED
    BY <2>1, <2>5, StageKinds
<1>4. QED
  BY <1>1, <1>2, <1>3, FlowHolds, PTL DEF Spec

-----------------------------------------------------------------------------
(* A project is left FAILED for a reason.                                  *)

\* The status that the first call of a program writes is not of a failure.
LEMMA HeadStatus ==
    ASSUME Sound, NEW p \in Procs, prog[p] # <<>>, Head(prog[p]).call = "status"
    PROVE  Head(prog[p]).status \in ReadyStatuses /\ ReadyStatuses \cap OtherStatuses = {}
<1>1. ReadyStatuses \cap OtherStatuses = {}
  BY StatusFacts DEF ReadyStatuses, OtherStatuses
<1>2. prog[p] \in Seq(ReadyCalls) \/ prog[p] = UserScript
  BY DEF Sound, Ready, ProgramsReady
<1>3. CASE prog[p] = UserScript
  <2>1. \A a, S : \A s \in Seq(S) : Head(<<a>> \o s) = a
    OBVIOUS
  <2>2. \E S : OnScriptGenerated \in Seq(S)
    <3>1. PlainStatuses \subseteq Statuses /\ 0 \in Nat
      BY DEF PlainStatuses
    <3>2. OnScriptGenerated \in Seq(Calls({OfProject("SCENES")}, Statuses, 0))
      BY <3>1, ProjectPrograms
    <3>3. QED
      BY <3>2
  <2>3. Head(UserScript) = SaveScript
    BY <2>1, <2>2 DEF UserScript
  <2>4. QED
    BY <1>3, <2>3 DEF SaveScript
<1>4. CASE prog[p] \in Seq(ReadyCalls)
  <2>1. Head(prog[p]) \in ReadyCalls /\ Len(jobs) \in Nat
    BY <1>4, SeqFacts DEF Sound, Ready, TablesReady
  <2>2. QED
    BY <1>1, <2>1, CallFacts DEF ReadyCalls
<1>5. QED
  BY <1>2, <1>3, <1>4

\* A call of a program never writes FAILED.
LEMMA CallNeverFails ==
    ASSUME Sound, NEW p \in Procs, prog[p] # <<>>, Perform(Head(prog[p]))
    PROVE  /\ UNCHANGED status \/ status' # "FAILED"
           /\ Head(prog[p]).call = "status" => status' # "FAILED"
<1>1. CASE DoSetStatus(Head(prog[p]))
  BY <1>1, HeadStatus DEF DoSetStatus, OtherStatuses
<1>2. CASE \/ DoCreateJob(Head(prog[p])) \/ DoSaveScript(Head(prog[p])) \/ DoResetJob(Head(prog[p]))
           \/ DoReadProject(Head(prog[p])) \/ DoPush(Head(prog[p]))
  BY <1>2 DEF DoCreateJob, DoSaveScript, DoResetJob, DoReadProject, DoPush
<1>3. QED
  BY <1>1, <1>2 DEF Perform

\* Who writes FAILED: a handler whose service returned an error, and the callback of a
\* job that failed for good.
LEMMA WhoFails ==
    ASSUME Sound, [Next]_vars, status' = "FAILED"
    PROVE  \/ UNCHANGED status
           \/ \E w \in Workers : GenerateError(w) /\ MarksFailed(KindOf(w).type)
           \/ \E w \in Workers : FailProject(w)
<1>1. ASSUME NEW w \in Workers, WorkerStep(w)
      PROVE  \/ UNCHANGED status
             \/ GenerateError(w) /\ MarksFailed(KindOf(w).type)
             \/ FailProject(w)
  <2>1. CASE WorkerCall(w)
    BY <2>1, CallNeverFails DEF WorkerCall, NextCall, Sound, Ready, WorkersReady, Procs
  <2>2. CASE GenerateError(w)
    BY <2>2 DEF GenerateError
  <2>3. CASE ~WorkerCall(w) /\ ~GenerateError(w) /\ ~FailProject(w)
    BY <1>1, <2>3 DEF WorkerStep, Take, ReadInputs, Panic, CheckExisting, MissSubtitle, Generate,
       GenerateNoScenes, CountAudios, CountImages, WorkerError, Complete, FailAndRetry, FailForGood
  <2>4. QED
    BY <2>1, <2>2, <2>3
<1>2. ASSUME NEW c \in Clients,
             CreateProject(c) \/ Approve(c) \/ Reject(c) \/ RetryProject(c) \/ ClientStep(c)
      PROVE  UNCHANGED status
  <2>1. CASE ClientCall(c)
    BY <2>1, CallNeverFails DEF ClientCall, NextCall, Procs
  <2>2. CASE ~ClientCall(c)
    BY <1>2, <2>2 DEF CreateProject, Approve, Reject, RetryProject, ClientStep, ClientError
  <2>3. QED
    BY <2>1, <2>2
<1>3. QED
  BY <1>1, <1>2 DEF Next, vars

\* Job i failed, was lost with the process that ran it, or belongs to a stage of the
\* project that has still to write a status.
StatusToCome(w) == pc[w] # "done" /\ (pc[w] = "calls" => Head(prog[w]).call = "status")

Reason(i) ==
    \/ jobs[i].status = "FAILED"
    \/ jobs[i].status = "RUNNING" /\ \A w \in Workers : cur[w] # i
    \/ /\ jobs[i].kind.type \notin AssetTypes
       /\ \/ jobs[i].status = "QUEUED" /\ Queued(i)
          \/ \E w \in Workers : cur[w] = i /\ StatusToCome(w)

FailureOK ==
  retries = 0 =>
    /\ status = "FAILED" => \E i \in 1..Len(jobs) : Reason(i)
    /\ \A w \in Workers : pc[w] = "failed" => \E i \in 1..Len(jobs) : jobs[i].status = "FAILED"

\* A callback writes its status first.
LEMMA CallbackHead ==
    ASSUME NEW type \in {"SCRIPT", "SCENES", "SUBTITLE", "RENDER", "REVIEW"},
           NEW list \in {Scenes, {}}
    PROVE  Head(Callback(type, list)).call = "status"
<1>1. \A a, S : \A s \in Seq(S) : Head(<<a>> \o s) = a
  OBVIOUS
<1>2. \A a, b, S : \A s \in Seq(S) : Head((<<a>> \o s) \o <<b>>) = a
  OBVIOUS
<1>3. \A s : SetStatus(s).call = "status"
  BY DEF SetStatus
<1>4. CASE type \in {"SCRIPT", "SUBTITLE"}
  <2>1. \A t, s : EnqueueThenStatus(t, s) \in Seq({Enqueue(OfProject(t)), SetStatus(s)})
    BY SeqFacts DEF EnqueueThenStatus
  <2>2. QED
    BY <1>1, <1>3, <1>4, <2>1 DEF Callback, OnScriptGenerated, OnSubtitlesGenerated
<1>5. CASE type = "SCENES"
  <2>1. Cardinality(list) \in Nat
    BY ListLength
  <2> DEFINE T == {AssetJobs(list)[x] : x \in 1..(2 * Cardinality(list))}
             q == AssetJobs(list)
  <2>2. q \in Seq(T)
    <3>1. DOMAIN q = 1..(2 * Cardinality(list)) /\ q = [x \in DOMAIN q |-> q[x]]
      BY <2>1 DEF AssetJobs
    <3>2. \A S : \A m \in Nat : \A f \in [1..m -> S] : f \in Seq(S)
      OBVIOUS
    <3>3. q \in [1..(2 * Cardinality(list)) -> T] /\ 2 * Cardinality(list) \in Nat
      BY <2>1, <3>1
    <3> HIDE DEF q, T
    <3>4. QED
      BY <3>2, <3>3
  <2> HIDE DEF q, T
  <2>3. OnScenesGenerated(list) = (<<SetStatus("SCENES_READY")>> \o q) \o <<SetStatus("VOICE_GENERATING")>>
    BY DEF OnScenesGenerated, q
  <2>4. Head(OnScenesGenerated(list)) = SetStatus("SCENES_READY")
    BY <1>2, <2>2, <2>3
  <2>5. QED
    BY <1>3, <1>5, <2>4 DEF Callback
<1>6. CASE type \in {"RENDER", "REVIEW"}
  <2>1. ASSUME NEW a, NEW b PROVE Head(<<a, b>>) = a /\ Head(<<a>>) = a
    <3>1. <<a, b>> \in Seq({a, b}) /\ <<a>> \in Seq({a, b})
      BY SeqFacts
    <3>2. <<a, b>> # <<>> /\ <<a>> # <<>> /\ <<a, b>>[1] = a /\ <<a>>[1] = a
      OBVIOUS
    <3>3. QED
      BY <3>1, <3>2, QueueFacts
  <2>2. QED
    BY <1>3, <1>6, <2>1 DEF Callback, OnRenderComplete, OnReviewPackageReady
<1>7. QED
  BY <1>4, <1>5, <1>6

LEMMA TakesQueued ==
    ASSUME Sound, NEW w \in Workers, Take(w)
    PROVE  /\ cur'[w] \in 1..Len(jobs) /\ jobs[cur'[w]].status = "QUEUED"
           /\ jobs'[cur'[w]].status = "RUNNING" /\ pc'[w] = "inputs"
<1>1. /\ pending[1] \in 1..Len(jobs) /\ 1 \in 1..Len(pending) /\ cur'[w] = pending[1]
      /\ jobs'[pending[1]].status = "RUNNING"
  BY TakeFacts DEF Sound, Delivery, Ready, TablesReady, WorkersReady
<1>2. jobs[pending[1]].status = "QUEUED"
  BY <1>1 DEF Sound, Delivery, QueueOK, Queued
<1>3. pc'[w] = "inputs"
  BY DEF Take, Goto, Sound, Ready, WorkersReady
<1>4. QED
  BY <1>1, <1>2, <1>3

\* A job that no worker has is held only by who takes it.
LEMMA OrphanStep ==
    ASSUME Sound, [Next]_vars, NEW i \in 1..Len(jobs), jobs[i].status = "RUNNING",
           \A w \in Workers : cur[w] # i
    PROVE  jobs'[i].status = "RUNNING" /\ \A w \in Workers : cur'[w] # i
<1>1. jobs'[i].status = "RUNNING"
  BY JobChange DEF JobAfter
<1>2. ASSUME NEW w \in Workers, cur'[w] = i PROVE FALSE
  <2>1. i # 0
    BY JobChange
  <2>2. CASE WorkerStep(w) /\ ~Panic(w)
    BY <1>2, <2>1, <2>2, PlacesAfter, TakesQueued DEF Starts
  <2>3. QED
    BY <1>2, <2>1, <2>2, WorkerMoves
<1>3. QED
  BY <1>1, <1>2

\* Before a request tries failed jobs again, a failure stays a failure.
LEMMA FailedStays ==
    ASSUME retries = 0, Sound, [Next]_vars, NEW i \in 1..Len(jobs), jobs[i].status = "FAILED"
    PROVE  i \in 1..Len(jobs') /\ jobs'[i].status = "FAILED"
BY JobChange DEF JobAfter

LEMMA RetriesCount ==
    ASSUME Sound, [Next]_vars, retries' = 0
    PROVE  retries = 0
<1>1. retries \in Nat
  BY DEF Sound, Delivery, RetryOK
<1>2. UNCHANGED retries \/ retries' = retries + 1
  BY ProgramStep DEF Sound, Delivery, RetryProject
<1>3. QED
  BY <1>1, <1>2

\* A job that waits in the queue, or that a worker gives back, waits there as long as
\* it is not taken.
LEMMA StaysQueued ==
    ASSUME Sound, [Next]_vars, NEW i \in 1..Len(jobs), jobs'[i].status = "QUEUED",
           Queued(i) \/ jobs[i].status = "RUNNING"
    PROVE  Queued(i)'
<1>1. Ready /\ Delivery /\ pending \in Seq(1..Len(jobs)) /\ Len(pending) \in Nat /\ Len(jobs) \in Nat
  BY DEF Sound, Ready, TablesReady
<1>2. CASE QuietStep
  BY <1>2 DEF QuietStep, Queued
<1>3. ASSUME NEW w \in Workers, Take(w) PROVE Queued(i)'
  <2>1. /\ Len(pending') = Len(pending) - 1 /\ \A p \in 1..Len(pending') : pending'[p] = pending[p + 1]
        /\ jobs'[pending[1]].status = "RUNNING"
        /\ \A k \in 1..Len(jobs) : k # pending[1] => jobs'[k] = jobs[k]
    BY <1>1, <1>3, TakeFacts
  <2>2. i # pending[1] /\ Queued(i)
    BY <2>1
  <2>3. PICK p \in 1..Len(pending) : pending[p] = i
    BY <2>2 DEF Queued
  <2>4. p - 1 \in 1..Len(pending') /\ (p - 1) + 1 = p
    BY <1>1, <2>1, <2>2, <2>3
  <2>5. pending'[p - 1] = i
    BY <2>1, <2>3, <2>4
  <2>6. QED
    BY <2>4, <2>5 DEF Queued
<1>4. ASSUME NEW w \in Workers, Settles(w) PROVE Queued(i)'
  <2>1. cur[w] \in 1..Len(jobs)
    BY <1>1, <1>4 DEF Settles, Delivery, HeldOK
  <2>2. PICK s \in {"SUCCEEDED", "FAILED", "QUEUED"} :
           /\ jobs' = [jobs EXCEPT ![cur[w]].status = s]
           /\ pending' = IF s = "QUEUED" THEN Append(pending, cur[w]) ELSE pending
    BY <1>4 DEF Settles
  <2>3. jobs'[cur[w]].status = s /\ \A k \in 1..Len(jobs) : k # cur[w] => jobs'[k] = jobs[k]
    BY <1>1, <2>1, <2>2, StatusSet
  <2>4. CASE s # "QUEUED"
    <3>1. i # cur[w] /\ Queued(i)
      BY <2>3, <2>4
    <3>2. QED
      BY <2>2, <2>4, <3>1 DEF Queued
  <2>5. CASE s = "QUEUED"
    <3>1. /\ Len(pending') = Len(pending) + 1 /\ pending'[Len(pending) + 1] = cur[w]
          /\ \A p \in 1..Len(pending) : pending'[p] = pending[p]
      BY <1>1, <2>1, <2>2, <2>5, QueueFacts
    <3>2. Len(pending) + 1 \in 1..Len(pending') /\ \A p \in 1..Len(pending) : p \in 1..Len(pending')
      BY <1>1, <3>1
    <3>3. i = cur[w] \/ Queued(i)
      BY <2>3
    <3>4. QED
      BY <3>1, <3>2, <3>3 DEF Queued
  <2>6. QED
    BY <2>4, <2>5
<1>5. ASSUME NEW p \in Procs, Submits(p) PROVE Queued(i)'
  BY <1>1, <1>5, SubmitFacts DEF Queued
<1>6. ASSUME NEW p \in Procs, Delivers(p) PROVE Queued(i)'
  BY <1>1, <1>6, PushFacts
<1>7. QED
  BY <1>1, <1>2, <1>3, <1>4, <1>5, <1>6, TableStep DEF Delivery

\* A step from a worker of whose job a status is still to come, if it is no such status.
LEMMA StatusToComeStep ==
    ASSUME Sound, [Next]_vars, status' = "FAILED", NEW w \in Workers, cur[w] # 0,
           KindOf(w).type \notin AssetTypes, StatusToCome(w)
    PROVE  \/ cur'[w] = cur[w] /\ StatusToCome(w)'
           \/ jobs'[cur[w]].status \in {"QUEUED", "FAILED"}
           \/ jobs'[cur[w]].status = "RUNNING" /\ \A v \in Workers : cur'[v] # cur[w]
<1>1. /\ cur[w] \in 1..Len(jobs) /\ pc[w] \notin {"idle", "failed"} /\ jobs \in Seq(ReadyJobs)
      /\ pc[w] \notin {"audios", "images"} /\ jobs[cur[w]].status = "RUNNING" /\ w \in Procs
  BY DEF Sound, Delivery, HeldOK, PlacesOK, Ready, TablesReady, WorkersReady, KindOf, Procs
<1>2. CASE pc'[w] = pc[w] /\ cur'[w] = cur[w] /\ prog'[w] = prog[w]
  BY <1>2 DEF StatusToCome
<1>3. ASSUME NEW v \in Workers, Panic(v)
      PROVE  jobs'[cur[w]].status = "RUNNING" /\ \A u \in Workers : cur'[u] # cur[w]
  BY <1>1, <1>3 DEF Panic
<1>4. CASE WorkerStep(w) /\ ~Panic(w)
  <2>1. CASE Starts(w)
    <3>1. cur'[w] = cur[w] /\ pc'[w] = "calls" /\ Head(prog'[w]).call = "status"
      <4>1. SceneList' \in {Scenes, {}}
        BY DEF SceneList
      <4>2. /\ cur'[w] = cur[w] /\ pc'[w] = "calls"
            /\ prog'[w] = Callback(KindOf(w).type, SceneList')
            /\ KindOf(w).type \in {"SCRIPT", "SCENES", "SUBTITLE", "RENDER", "REVIEW"}
        BY <2>1, StartFacts
      <4>3. Head(Callback(KindOf(w).type, SceneList')).call = "status"
        BY <4>1, <4>2, CallbackHead
      <4>4. QED
        BY <4>2, <4>3
    <3>2. QED
      BY <3>1 DEF StatusToCome
  <2>2. CASE pc'[w] \in {"check", "generate", "error"} /\ UNCHANGED cur
    BY <2>2 DEF StatusToCome
  <2>3. CASE WorkerCall(w) /\ pc[w] = "calls"
    <3>1. Head(prog[w]).call = "status" /\ Perform(Head(prog[w])) /\ prog[w] # <<>>
      BY <2>3 DEF StatusToCome, WorkerCall, NextCall, Sound, Ready, WorkersReady
    <3>2. QED
      BY <1>1, <3>1, CallNeverFails
  <2>4. CASE Settles(w)
    <3>1. pc[w] # "done"
      BY DEF StatusToCome
    <3>2. PICK s \in {"QUEUED", "FAILED"} : jobs' = [jobs EXCEPT ![cur[w]].status = s]
      BY <2>4, <3>1 DEF Settles
    <3>3. jobs'[cur[w]].status = s
      BY <1>1, <3>2, StatusSet DEF Sound
    <3>4. QED
      BY <3>3
  <2>5. QED
    BY <1>1, <1>4, <2>1, <2>2, <2>3, <2>4, PlacesAfter
<1>5. QED
  BY <1>2, <1>3, <1>4, WorkerMoves

LEMMA ReasonStep ==
    ASSUME retries = 0, Sound, [Next]_vars, status' = "FAILED", NEW i \in 1..Len(jobs), Reason(i)
    PROVE  Reason(i)'
<1>1. /\ i # 0 /\ jobs'[i].kind = jobs[i].kind
      /\ jobs'[i].status \in {"QUEUED", "RUNNING", "SUCCEEDED", "FAILED"}
  <2>1. i \in 1..Len(jobs') /\ i # 0 /\ jobs'[i].kind = jobs[i].kind
    BY JobChange
  <2>2. Ready'
    BY SoundStep DEF Sound
  <2>3. jobs' \in Seq(ReadyJobs')
    BY <2>2 DEF Ready, TablesReady
  <2>4. jobs'[i] \in ReadyJobs'
    BY <2>1, <2>3, QueueFacts
  <2>5. QED
    BY <2>1, <2>4 DEF ReadyJobs
<1>2. CASE jobs[i].status = "FAILED"
  BY <1>2, FailedStays DEF Reason
<1>3. CASE jobs[i].status = "RUNNING" /\ \A w \in Workers : cur[w] # i
  BY <1>3, OrphanStep DEF Reason
<1>4. CASE jobs[i].kind.type \notin AssetTypes /\ jobs[i].status = "QUEUED" /\ Queued(i)
  <2>1. CASE jobs'[i].status = "QUEUED"
    BY <1>1, <1>4, <2>1, StaysQueued DEF Reason
  <2>2. ASSUME NEW w \in Workers, Take(w), cur'[w] = i PROVE Reason(i)'
    <3>1. pc'[w] = "inputs"
      BY <2>2, TakesQueued
    <3>2. QED
      BY <1>1, <1>4, <2>2, <3>1 DEF Reason, StatusToCome
  <2>3. QED
    BY <1>4, <2>1, <2>2, JobChange DEF JobAfter
<1>5. ASSUME NEW w \in Workers, jobs[i].kind.type \notin AssetTypes, cur[w] = i, StatusToCome(w)
      PROVE  Reason(i)'
  <2>1. cur[w] # 0 /\ KindOf(w).type \notin AssetTypes
    BY <1>1, <1>5 DEF KindOf
  <2>2. \/ cur'[w] = i /\ StatusToCome(w)'
        \/ jobs'[i].status \in {"QUEUED", "FAILED"}
        \/ jobs'[i].status = "RUNNING" /\ \A v \in Workers : cur'[v] # i
    BY <1>5, <2>1, StatusToComeStep
  <2>3. jobs[i].status = "RUNNING"
    BY <1>1, <1>5 DEF Sound, Delivery, HeldOK
  <2>4. jobs'[i].status = "QUEUED" => Queued(i)'
    BY <2>3, StaysQueued
  <2>5. QED
    BY <1>1, <1>5, <2>2, <2>4 DEF Reason
<1>6. QED
  BY <1>2, <1>3, <1>4, <1>5 DEF Reason

LEMMA FailureStep ==
    ASSUME Sound, FailureOK, [Next]_vars
    PROVE  FailureOK'
<1> SUFFICES ASSUME retries' = 0 PROVE FailureOK'
  BY DEF FailureOK
<1>0. retries = 0
  BY RetriesCount
<1>1. ASSUME NEW w \in Workers, pc'[w] = "failed"
      PROVE  \E i \in 1..Len(jobs') : jobs'[i].status = "FAILED"
  <2>1. CASE pc[w] = "failed"
    BY <1>0, <2>1, FailedStays DEF FailureOK
  <2>2. CASE FailForGood(w)
    <3>1. cur[w] \in 1..Len(jobs)
      BY <2>2 DEF FailForGood, Sound, Ready, WorkersReady
    <3>2. jobs'[cur[w]].status = "FAILED" /\ Len(jobs') = Len(jobs)
      BY <2>2, <3>1, StatusSet DEF FailForGood, Sound
    <3>3. QED
      BY <3>1, <3>2
  <2>3. CASE WorkerStep(w) /\ ~Panic(w) /\ ~FailForGood(w) /\ pc[w] # "failed"
    <3>1. w \in Workers /\ DOMAIN pc = Workers
      BY DEF Sound, Ready, WorkersReady
    <3>2. QED
      BY <1>1, <2>3, <3>1, StartFacts DEF WorkerStep, Take, ReadInputs, CheckExisting, MissSubtitle,
         Generate, GenerateNoScenes, GenerateError, CountAudios, CountImages, WorkerCall, NextCall, WorkerError,
         Complete, FailAndRetry, FailProject, Proceed, Goto, Release
  <2>4. QED
    BY <1>1, <2>1, <2>2, <2>3, WorkerMoves
<1>2. ASSUME status' = "FAILED" PROVE \E i \in 1..Len(jobs') : Reason(i)'
  <2>1. 1..Len(jobs) \subseteq 1..Len(jobs')
    BY JobChange
  <2>2. CASE status = "FAILED"
    BY <1>0, <1>2, <2>1, <2>2, ReasonStep DEF FailureOK
  <2>3. ASSUME NEW w \in Workers, GenerateError(w), MarksFailed(KindOf(w).type)
        PROVE  \E i \in 1..Len(jobs') : Reason(i)'
    <3>1. cur[w] \in 1..Len(jobs) /\ pc'[w] = "error" /\ cur'[w] = cur[w] /\ UNCHANGED jobs
      BY <2>3 DEF GenerateError, ServiceFails, Goto, Sound, Ready, WorkersReady
    <3>2. PICK i \in 1..Len(jobs') : i = cur[w]
      BY <3>1
    <3>3. Reason(i)'
      BY <2>3, <3>1, <3>2 DEF Reason, StatusToCome, MarksFailed, KindOf
    <3>4. QED
      BY <3>3
  <2>4. ASSUME NEW w \in Workers, FailProject(w) PROVE \E i \in 1..Len(jobs') : Reason(i)'
    <3>1. PICK i \in 1..Len(jobs) : jobs[i].status = "FAILED"
      BY <1>0, <2>4 DEF FailProject, FailureOK
    <3>2. Reason(i)'
      BY <1>0, <3>1, FailedStays DEF Reason
    <3>3. QED
      BY <2>1, <3>2
  <2>5. QED
    BY <1>2, <2>2, <2>3, <2>4, WhoFails
<1>3. QED
  BY <1>1, <1>2 DEF FailureOK

\* Until somebody asks for a retry, a project that is FAILED when everyone is done has a
\* job that was given up: an attempt that was repeated with success leaves no trace,
\* because its job writes a status over the one of the failure.  A retry may overtake the
\* failure callback of another goroutine, which then marks a finished project as failed.
THEOREM FailureHasReason == Spec => []FailedHasReason
<1>1. Init => FailureOK
  BY DEF Init, FailureOK
<1>2. Sound /\ FailureOK /\ [Next]_vars => FailureOK'
  BY FailureStep
<1>3. Sound /\ FailureOK => FailedHasReason
  <2> SUFFICES ASSUME Sound, FailureOK, AllQuiet, pending = <<>>, status = "FAILED", retries = 0
               PROVE  GivenUp
    BY DEF FailedHasReason
  <2>1. PICK i \in 1..Len(jobs) : Reason(i)
    BY DEF FailureOK
  <2>2. ~Queued(i)
    BY DEF Queued
  <2>3. \A w \in Workers : cur[w] = 0 /\ i # 0
    BY <2>1 DEF AllQuiet, Sound, Delivery, PlacesOK, Ready, TablesReady
  <2>4. jobs[i].status \in {"FAILED", "RUNNING"}
    BY <2>1, <2>2, <2>3 DEF Reason
  <2>5. QED
    BY <2>4 DEF GivenUp
<1>4. QED
  BY <1>1, <1>2, <1>3, SoundInit, SoundStep, PTL DEF Spec

-----------------------------------------------------------------------------
(* What programs enqueue.                                                  *)

\* The calls of q enqueue kinds of K only, and none twice.
EnqueuesOnce(q, K) ==
    \A n \in 1..Len(q) : \A k : q[n] = Enqueue(k) =>
        k \in K /\ \A m \in 1..Len(q) : q[m] = Enqueue(k) => m = n

\* The stages that the callback of a stage enqueues.
Enqueued(type) == IF type = "SCENES" THEN Assets ELSE FollowUps(type)

LEMMA EnqueueFacts ==
    /\ \A j, k : Enqueue(j) = Enqueue(k) => j = k
    /\ \A k, s : Enqueue(k) # SetStatus(s)
    /\ \A k : Enqueue(k) # SaveScript
    /\ \A k, i : Enqueue(k) # Requeue(i)
    /\ \A k, t : Enqueue(k) # Restore(t)
<1>1. \A j, k : Enqueue(j).kind = j /\ Enqueue(k).call = "enqueue"
  BY DEF Enqueue
<1>2. \A s, i, t : /\ SetStatus(s).call = "status" /\ Requeue(i).call = "requeue"
                   /\ Restore(t).call = "restore" /\ SaveScript.call = "script"
  BY DEF SetStatus, Requeue, Restore, SaveScript
<1>3. \A j, k : Enqueue(j) = Enqueue(k) => j = k
  BY <1>1
<1>4. QED
  BY <1>1, <1>2, <1>3

\* What is left of a program enqueues no more than the program did, and not what
\* its first call enqueued.
LEMMA RestEnqueues ==
    ASSUME Ready, NEW p \in Procs, prog[p] # <<>>, NEW K, EnqueuesOnce(prog[p], K)
    PROVE  /\ EnqueuesOnce(Rest(p), K)
           /\ \A k : Names(Rest(p), k) => Names(prog[p], k) /\ Head(prog[p]) # Enqueue(k)
<1>1. Head(prog[p]) = prog[p][1] /\ 1 \in 1..Len(prog[p])
  BY RestFacts
<1>2. PICK d \in {0, 1} : \A n \in 1..Len(Rest(p)) :
             \/ n + d # 1 /\ n + d \in 1..Len(prog[p]) /\ Rest(p)[n] = prog[p][n + d]
             \/ d = 0 /\ n = 1 /\ Rest(p)[1].call \in {"push", "status"}
  BY RestIndex
<1>3. ASSUME NEW n \in 1..Len(Rest(p)), NEW k, Rest(p)[n] = Enqueue(k)
      PROVE  /\ n + d # 1 /\ n + d \in 1..Len(prog[p]) /\ prog[p][n + d] = Enqueue(k)
             /\ k \in K /\ \A m \in 1..Len(prog[p]) : prog[p][m] = Enqueue(k) => m = n + d
  <2>1. Enqueue(k).call = "enqueue"
    BY DEF Enqueue
  <2>2. n + d # 1 /\ n + d \in 1..Len(prog[p]) /\ prog[p][n + d] = Enqueue(k)
    BY <1>2, <1>3, <2>1
  <2>3. QED
    BY <2>2 DEF EnqueuesOnce
<1>4. EnqueuesOnce(Rest(p), K)
  <2>1. SUFFICES ASSUME NEW n \in 1..Len(Rest(p)), NEW k, Rest(p)[n] = Enqueue(k)
                 PROVE  k \in K /\ \A m \in 1..Len(Rest(p)) : Rest(p)[m] = Enqueue(k) => m = n
    BY DEF EnqueuesOnce
  <2>2. k \in K /\ \A m \in 1..Len(prog[p]) : prog[p][m] = Enqueue(k) => m = n + d
    BY <1>3, <2>1
  <2>3. ASSUME NEW m \in 1..Len(Rest(p)), Rest(p)[m] = Enqueue(k) PROVE m = n
    <3>1. m + d = n + d
      BY <1>3, <2>2, <2>3
    <3>2. QED
      BY <3>1
  <2>4. QED
    BY <2>2, <2>3
<1>5. ASSUME NEW k, Names(Rest(p), k) PROVE Names(prog[p], k) /\ Head(prog[p]) # Enqueue(k)
  <2>1. PICK n \in 1..Len(Rest(p)) : Rest(p)[n] = Enqueue(k)
    BY <1>5 DEF Names
  <2>2. /\ n + d # 1 /\ n + d \in 1..Len(prog[p]) /\ prog[p][n + d] = Enqueue(k)
        /\ \A m \in 1..Len(prog[p]) : prog[p][m] = Enqueue(k) => m = n + d
    BY <1>3, <2>1
  <2>3. QED
    BY <1>1, <2>2 DEF Names
<1>6. QED
  BY <1>4, <1>5

\* The short programs.
LEMMA ShortEnqueues ==
    /\ \A K : EnqueuesOnce(<<>>, K)
    /\ \A s, K : EnqueuesOnce(<<SetStatus(s)>>, K)
    /\ \A k, s : EnqueuesOnce(<<SetStatus(s), Enqueue(k)>>, {k})
    /\ \A type, s : EnqueuesOnce(EnqueueThenStatus(type, s), {OfProject(type)})
    /\ \A type, s, t :
         EnqueuesOnce(<<SetStatus(t)>> \o EnqueueThenStatus(type, s), {OfProject(type)})
    /\ EnqueuesOnce(UserScript, {OfProject("SCENES")})
<1>1. \A K : EnqueuesOnce(<<>>, K)
  BY DEF EnqueuesOnce
<1>2. \A s, K : EnqueuesOnce(<<SetStatus(s)>>, K)
  <2>1. \A a : Len(<<a>>) = 1 /\ <<a>>[1] = a
    OBVIOUS
  <2>2. QED
    BY <2>1, EnqueueFacts DEF EnqueuesOnce
<1>3. \A k, s : /\ EnqueuesOnce(<<SetStatus(s), Enqueue(k)>>, {k})
                /\ EnqueuesOnce(<<Enqueue(k), SetStatus(s)>>, {k})
  <2>1. \A a, b : Len(<<a, b>>) = 2 /\ <<a, b>>[1] = a /\ <<a, b>>[2] = b
    OBVIOUS
  <2>2. 1..2 = {1, 2}
    OBVIOUS
  <2>3. QED
    BY <2>1, <2>2, EnqueueFacts DEF EnqueuesOnce
<1>4. \A k, s, t : EnqueuesOnce(<<SetStatus(t)>> \o <<Enqueue(k), SetStatus(s)>>, {k})
  <2>1. \A a, b, c : /\ Len(<<a>> \o <<b, c>>) = 3 /\ (<<a>> \o <<b, c>>)[1] = a
                     /\ (<<a>> \o <<b, c>>)[2] = b /\ (<<a>> \o <<b, c>>)[3] = c
    OBVIOUS
  <2>2. 1..3 = {1, 2, 3}
    OBVIOUS
  <2>3. QED
    BY <2>1, <2>2, EnqueueFacts DEF EnqueuesOnce
<1>5. EnqueuesOnce(UserScript, {OfProject("SCENES")})
  <2>1. \A a, b, c, d :
          /\ Len(<<a>> \o (<<b>> \o <<c, d>>)) = 4 /\ (<<a>> \o (<<b>> \o <<c, d>>))[1] = a
          /\ (<<a>> \o (<<b>> \o <<c, d>>))[2] = b /\ (<<a>> \o (<<b>> \o <<c, d>>))[3] = c
          /\ (<<a>> \o (<<b>> \o <<c, d>>))[4] = d
    OBVIOUS
  <2>2. 1..4 = {1, 2, 3, 4}
    OBVIOUS
  <2>3. QED
    BY <2>1, <2>2, EnqueueFacts DEF EnqueuesOnce, UserScript, OnScriptGenerated, EnqueueThenStatus
<1>6. QED
  BY <1>1, <1>2, <1>3, <1>4, <1>5 DEF EnqueueThenStatus

\* The jobs of the assets, each once.
LEMMA AssetsEnqueued ==
    ASSUME NEW list \in {Scenes, {}}
    PROVE  EnqueuesOnce(OnScenesGenerated(list), Assets)
<1> DEFINE N == Cardinality(list)
           q == AssetJobs(list)
           kind(i) == IF i % 2 = 1 THEN Voice((i + 1) \div 2) ELSE Image(i \div 2)
           T == {q[x] : x \in 1..(2 * N)}
<1>1. N \in Nat /\ list = 1..N /\ list \subseteq Scenes
  BY ListLength
<1>2. q \in Seq(T) /\ Len(q) = 2 * N
  <2>1. DOMAIN q = 1..(2 * N) /\ q = [x \in DOMAIN q |-> q[x]]
    BY <1>1 DEF AssetJobs
  <2>2. \A S : \A m \in Nat : \A f \in [1..m -> S] : f \in Seq(S) /\ Len(f) = m
    OBVIOUS
  <2>3. q \in [1..(2 * N) -> T] /\ 2 * N \in Nat
    BY <1>1, <2>1
  <2> HIDE DEF q, T, N
  <2>4. QED
    BY <2>2, <2>3
<1>3. \A i \in 1..(2 * N) : q[i] = Enqueue(kind(i))
  BY <1>1 DEF AssetJobs
<1>4. \A i \in 1..(2 * N) : kind(i) \in Assets
  <2>1. ASSUME NEW i \in 1..(2 * N) PROVE kind(i) \in Assets
    <3>1. i % 2 = 1 => (i + 1) \div 2 \in 1..N
      BY <1>1
    <3>2. i % 2 # 1 => i \div 2 \in 1..N
      BY <1>1
    <3>3. QED
      BY <1>1, <3>1, <3>2 DEF Assets, VoiceKinds, ImageKinds
  <2>2. QED
    BY <2>1
<1>5. \A i, j \in 1..(2 * N) : kind(i) = kind(j) => i = j
  <2>1. SUFFICES ASSUME NEW i \in 1..(2 * N), NEW j \in 1..(2 * N), kind(i) = kind(j)
                 PROVE  i = j
    OBVIOUS
  <2>2. /\ \A s, t : Voice(s) = Voice(t) => s = t
        /\ \A s, t : Image(s) = Image(t) => s = t
        /\ \A s, t : Voice(s) # Image(t)
    <3>1. \A s : Voice(s).scene = s /\ Image(s).scene = s /\ Voice(s).type = "VOICE"
                 /\ Image(s).type = "IMAGE"
      BY DEF Voice, Image
    <3>2. QED
      BY <3>1
  <2>3. i \in Nat /\ j \in Nat
    BY <1>1
  <2>4. CASE i % 2 = 1
    <3>1. j % 2 = 1 /\ (i + 1) \div 2 = (j + 1) \div 2
      BY <2>1, <2>2, <2>4
    <3>2. QED
      BY <2>3, <2>4, <3>1
  <2>5. CASE i % 2 # 1
    <3>1. j % 2 # 1 /\ i \div 2 = j \div 2
      BY <2>1, <2>2, <2>5
    <3>2. QED
      BY <2>3, <2>5, <3>1
  <2>6. QED
    BY <2>4, <2>5
<1>6. \A a, b, S : \A s \in Seq(S) :
        /\ Len((<<a>> \o s) \o <<b>>) = Len(s) + 2
        /\ \A n \in 1..Len((<<a>> \o s) \o <<b>>) :
             \/ n = 1 /\ ((<<a>> \o s) \o <<b>>)[n] = a
             \/ n = Len(s) + 2 /\ ((<<a>> \o s) \o <<b>>)[n] = b
             \/ n - 1 \in 1..Len(s) /\ ((<<a>> \o s) \o <<b>>)[n] = s[n - 1]
  OBVIOUS
<1> DEFINE p == OnScenesGenerated(list)
<1>7. \A n \in 1..Len(p) : \/ \E s : p[n] = SetStatus(s)
                           \/ n - 1 \in 1..(2 * N) /\ p[n] = q[n - 1]
  <2>1. p = (<<SetStatus("SCENES_READY")>> \o q) \o <<SetStatus("VOICE_GENERATING")>>
    BY DEF OnScenesGenerated
  <2> HIDE DEF p, q, T, N
  <2>2. QED
    BY <1>2, <1>6, <2>1
<1> HIDE DEF p, q, T, N, kind
<1>8. SUFFICES ASSUME NEW n \in 1..Len(p), NEW k, p[n] = Enqueue(k)
               PROVE  k \in Assets /\ \A m \in 1..Len(p) : p[m] = Enqueue(k) => m = n
  BY DEF EnqueuesOnce, p
<1>9. \A m \in 1..Len(p) : p[m] = Enqueue(k) => m - 1 \in 1..(2 * N) /\ k = kind(m - 1)
  BY <1>3, <1>7, EnqueueFacts
<1>10. QED
  <2>1. k \in Assets
    BY <1>4, <1>8, <1>9
  <2>2. ASSUME NEW m \in 1..Len(p), p[m] = Enqueue(k) PROVE m = n
    <3>1. m - 1 = n - 1
      BY <1>5, <1>8, <1>9, <2>2
    <3>2. QED
      BY <3>1
  <2>3. QED
    BY <2>1, <2>2

LEMMA CallbackEnqueues ==
    ASSUME NEW type \in {"SCRIPT", "SCENES", "SUBTITLE", "RENDER", "REVIEW"},
           NEW list \in {Scenes, {}}
    PROVE  EnqueuesOnce(Callback(type, list), Enqueued(type))
<1>1. CASE type \in {"SCRIPT", "SUBTITLE"}
  BY <1>1, ShortEnqueues DEF Callback, Enqueued, FollowUps, OnScriptGenerated, OnSubtitlesGenerated
<1>2. CASE type = "SCENES"
  BY <1>2, AssetsEnqueued DEF Callback, Enqueued
<1>3. CASE type \in {"RENDER", "REVIEW"}
  BY <1>3, ShortEnqueues DEF Callback, Enqueued, FollowUps, OnRenderComplete, OnReviewPackageReady
<1>4. QED
  BY <1>1, <1>2, <1>3

\* What a step makes of the program of a process.
LEMMA ProgramMoves ==
    ASSUME Sound, [Next]_vars, NEW p \in Procs
    PROVE  \/ prog'[p] = prog[p]
           \/ Advances(p) /\ Perform(Head(prog[p])) /\ prog'[p] = Rest(p)
           \/ /\ p \in Workers /\ Starts(p) /\ prog'[p] = Callback(KindOf(p).type, SceneList')
              /\ KindOf(p).type \in {"SCRIPT", "SCENES", "SUBTITLE", "RENDER", "REVIEW"}
           \/ p \in Workers /\ CountImages(p) /\ AllAssets(p) /\ prog'[p] = OnAssetsComplete
           \/ /\ p \in Clients /\ CreateProject(p)
              /\ prog'[p] \in {EnqueueThenStatus("SCRIPT", "SCRIPT_GENERATING"), UserScript}
           \/ EnqueuesOnce(prog'[p], {})
<1>1. DOMAIN prog = Procs
  BY DEF Sound, Ready, ProgramsReady
<1>2. ASSUME p \in Workers, WorkerStep(p), ~Panic(p)
      PROVE  \/ prog'[p] = prog[p]
             \/ Advances(p) /\ Perform(Head(prog[p])) /\ prog'[p] = Rest(p)
             \/ /\ Starts(p) /\ prog'[p] = Callback(KindOf(p).type, SceneList')
                /\ KindOf(p).type \in {"SCRIPT", "SCENES", "SUBTITLE", "RENDER", "REVIEW"}
             \/ CountImages(p) /\ AllAssets(p) /\ prog'[p] = OnAssetsComplete
             \/ prog'[p] = <<>>
  <2>1. CASE Take(p) \/ CountAudios(p)
    BY <2>1 DEF Take, CountAudios
  <2>2. CASE Starts(p)
    BY <1>2, <2>2, StartFacts
  <2>3. CASE CountImages(p)
    BY <1>1, <1>2, <2>3 DEF CountImages
  <2>4. CASE WorkerCall(p)
    BY <1>1, <1>2, <2>4 DEF WorkerCall, NextCall, Advances, Sound, Ready, WorkersReady
  <2>5. CASE WorkerError(p)
    BY <1>1, <2>5 DEF WorkerError
  <2>6. QED
    BY <1>2, <2>1, <2>2, <2>3, <2>4, <2>5, PlacesAfter
<1>3. CASE p \in Workers
  <2>1. CASE prog'[p] = <<>>
    BY <2>1, ShortEnqueues
  <2>2. CASE prog'[p] # <<>>
    BY <1>2, <1>3, <2>2, WorkerMoves
  <2>3. QED
    BY <2>1, <2>2
<1>4. ASSUME p \in Clients, CreateProject(p)
      PROVE  prog'[p] \in {EnqueueThenStatus("SCRIPT", "SCRIPT_GENERATING"), UserScript}
  BY <1>1, <1>4 DEF CreateProject, Request, UserScript
<1>5. ASSUME p \in Clients, Approve(p) \/ Reject(p) PROVE EnqueuesOnce(prog'[p], {})
  BY <1>1, <1>5, ShortEnqueues DEF Approve, Reject, Request
<1>6. ASSUME p \in Clients, RetryProject(p) PROVE EnqueuesOnce(prog'[p], {})
  <2> DEFINE n == Cardinality(FailedJobs)
  <2>1. n \in Nat
    <3>1. Len(jobs) \in Nat /\ FailedJobs \subseteq 1..Len(jobs)
      BY DEF FailedJobs, Sound, Ready, TablesReady
    <3>2. IsFiniteSet(1..Len(jobs))
      BY <3>1, FS_Interval
    <3>3. IsFiniteSet(FailedJobs)
      BY <3>1, <3>2, FS_Subset
    <3>4. QED
      BY <3>3, FS_CardinalityType
  <2>2. PICK failed \in InCreationOrder(FailedJobs) :
           prog'[p] = [i \in 1..n |-> Requeue(failed[i])] \o <<Restore(jobs[failed[1]].kind.type)>>
    BY <1>1, <1>6 DEF RetryProject, Request
  <2> DEFINE s == [i \in 1..n |-> Requeue(failed[i])]
             S == {Requeue(failed[i]) : i \in 1..n}
  <2>3. s \in Seq(S) /\ Len(s) = n /\ \A i \in 1..n : s[i] = Requeue(failed[i])
    <3>1. \A T : \A m \in Nat : \A f \in [1..m -> T] : f \in Seq(T) /\ Len(f) = m
      OBVIOUS
    <3>2. s \in [1..n -> S]
      OBVIOUS
    <3> HIDE DEF n
    <3>3. s \in Seq(S) /\ Len(s) = n
      BY <2>1, <3>1, <3>2
    <3>4. QED
      BY <3>3
  <2>4. \A a, T : \A t \in Seq(T) : \A i \in 1..Len(t \o <<a>>) :
          (t \o <<a>>)[i] = a \/ (i \in 1..Len(t) /\ (t \o <<a>>)[i] = t[i])
    OBVIOUS
  <2>5. \A i \in 1..Len(prog'[p]) : \/ \E t : prog'[p][i] = Restore(t)
                                    \/ \E j : prog'[p][i] = Requeue(j)
    <3>1. prog'[p] = s \o <<Restore(jobs[failed[1]].kind.type)>>
      BY <2>2
    <3> HIDE DEF s, S, n
    <3>2. QED
      BY <2>3, <2>4, <3>1
  <2>6. QED
    BY <2>5, EnqueueFacts DEF EnqueuesOnce
<1>7. CASE p \in Clients
  <2>1. CASE prog'[p] = <<>>
    BY <2>1, ShortEnqueues
  <2>2. CASE prog'[p] # <<>>
    BY <1>4, <1>5, <1>6, <1>7, <2>2, ClientMoves
  <2>3. QED
    BY <2>1, <2>2
<1>8. QED
  BY <1>3, <1>7 DEF Procs

ProgramsOnce == \A p \in Procs : EnqueuesOnce(prog[p], Kinds)

LEMMA EnqueuesMore ==
    ASSUME NEW q, NEW K, NEW L, EnqueuesOnce(q, K), K \subseteq L
    PROVE  EnqueuesOnce(q, L) /\ \A k : Names(q, k) => k \in K
BY DEF EnqueuesOnce, Names

LEMMA EnqueuedKinds ==
    \A type \in {"SCRIPT", "SCENES", "SUBTITLE", "RENDER", "REVIEW"} : Enqueued(type) \subseteq Kinds
BY KindFacts, AssetKinds DEF Enqueued, FollowUps, Assets

\* Whoever comes to name a kind in its program has started the callback of a stage
\* before, has seen that the assets are complete, or creates the project.
NamesNow(p, k) ==
    \/ /\ p \in Workers /\ Starts(p) /\ k \in Enqueued(KindOf(p).type)
       /\ KindOf(p).type \in {"SCRIPT", "SCENES", "SUBTITLE", "RENDER", "REVIEW"}
    \/ p \in Workers /\ CountImages(p) /\ AllAssets(p) /\ k = OfProject("SUBTITLE")
    \/ /\ p \in Clients /\ CreateProject(p)
       /\ k \in {OfProject("SCRIPT"), OfProject("SCENES")}

LEMMA NamesStep ==
    ASSUME Sound, ProgramsOnce, [Next]_vars, NEW p \in Procs
    PROVE  /\ EnqueuesOnce(prog'[p], Kinds)
           /\ \A k : Names(prog'[p], k) =>
                \/ Names(prog[p], k) /\ (prog'[p] = prog[p] \/ Head(prog[p]) # Enqueue(k))
                \/ NamesNow(p, k)
<1>1. CASE prog'[p] = prog[p]
  BY <1>1 DEF ProgramsOnce
<1>2. CASE Advances(p) /\ prog'[p] = Rest(p)
  <2>1. Ready /\ prog[p] # <<>> /\ EnqueuesOnce(prog[p], Kinds)
    BY <1>2 DEF Sound, Advances, ProgramsOnce
  <2>2. QED
    BY <1>2, <2>1, RestEnqueues
<1>3. CASE /\ p \in Workers /\ Starts(p) /\ prog'[p] = Callback(KindOf(p).type, SceneList')
           /\ KindOf(p).type \in {"SCRIPT", "SCENES", "SUBTITLE", "RENDER", "REVIEW"}
  <2>1. SceneList' \in {Scenes, {}}
    BY DEF SceneList
  <2>2. EnqueuesOnce(prog'[p], Enqueued(KindOf(p).type)) /\ Enqueued(KindOf(p).type) \subseteq Kinds
    BY <1>3, <2>1, CallbackEnqueues, EnqueuedKinds
  <2>3. QED
    BY <1>3, <2>2, EnqueuesMore DEF NamesNow
<1>4. CASE p \in Workers /\ CountImages(p) /\ AllAssets(p) /\ prog'[p] = OnAssetsComplete
  <2>1. EnqueuesOnce(prog'[p], {OfProject("SUBTITLE")}) /\ {OfProject("SUBTITLE")} \subseteq Kinds
    BY <1>4, ShortEnqueues, KindFacts DEF OnAssetsComplete
  <2>2. QED
    BY <1>4, <2>1, EnqueuesMore DEF NamesNow
<1>5. CASE /\ p \in Clients /\ CreateProject(p)
           /\ prog'[p] \in {EnqueueThenStatus("SCRIPT", "SCRIPT_GENERATING"), UserScript}
  <2>1. \E k \in {OfProject("SCRIPT"), OfProject("SCENES")} : EnqueuesOnce(prog'[p], {k})
    BY <1>5, ShortEnqueues
  <2>2. {OfProject("SCRIPT")} \subseteq Kinds /\ {OfProject("SCENES")} \subseteq Kinds
    BY KindFacts
  <2>3. QED
    BY <1>5, <2>1, <2>2, EnqueuesMore DEF NamesNow
<1>6. CASE EnqueuesOnce(prog'[p], {})
  BY <1>6, EnqueuesMore
<1>7. QED
  BY <1>1, <1>2, <1>3, <1>4, <1>5, <1>6, ProgramMoves

LEMMA ProgramsOnceStep == Sound /\ ProgramsOnce /\ [Next]_vars => ProgramsOnce'
BY NamesStep DEF ProgramsOnce

\* At most one job is added, of a kind that a program named and names no more.
LEMMA NewJobs ==
    ASSUME Sound, ProgramsOnce, [Next]_vars
    PROVE  /\ \A i, j \in 1..Len(jobs') : i \notin 1..Len(jobs) /\ j \notin 1..Len(jobs) => i = j
           /\ \A i \in 1..Len(jobs') : i \notin 1..Len(jobs) =>
                \E p \in Procs : /\ Names(prog[p], jobs'[i].kind) /\ ~Names(prog'[p], jobs'[i].kind)
                                 /\ Submits(p)
<1>1. Ready /\ Delivery /\ Len(jobs) \in Nat
  BY DEF Sound, Ready, TablesReady
<1>2. \A i, j \in 1..Len(jobs') : i \notin 1..Len(jobs) /\ j \notin 1..Len(jobs) => i = j
  <2>1. CASE QuietStep
    BY <2>1 DEF QuietStep
  <2>2. ASSUME NEW w \in Workers, Take(w) PROVE Len(jobs') = Len(jobs)
    BY <1>1, <2>2, TakeFacts
  <2>3. ASSUME NEW w \in Workers, Settles(w) PROVE Len(jobs') = Len(jobs)
    <3>1. cur[w] \in 1..Len(jobs)
      BY <1>1, <2>3 DEF Settles, Delivery, HeldOK
    <3>2. QED
      BY <1>1, <2>3, <3>1, StatusSet DEF Settles
  <2>4. ASSUME NEW p \in Procs, Submits(p)
        PROVE  \E n : 1..Len(jobs') = 1..Len(jobs) \cup {n}
    BY <1>1, <2>4, SubmitFacts
  <2>5. ASSUME NEW p \in Procs, Delivers(p) PROVE Len(jobs') = Len(jobs)
    BY <2>5 DEF Delivers, DoPush
  <2>6. QED
    BY <1>1, <2>1, <2>2, <2>3, <2>4, <2>5, TableStep DEF Delivery
<1>3. ASSUME NEW i \in 1..Len(jobs'), i \notin 1..Len(jobs)
      PROVE  \E p \in Procs : /\ Names(prog[p], jobs'[i].kind) /\ ~Names(prog'[p], jobs'[i].kind)
                              /\ Submits(p)
  <2>1. PICK p \in Procs : /\ Submits(p) /\ Head(prog[p]).call = "enqueue"
                           /\ jobs'[i].kind = Head(prog[p]).kind
    BY <1>3, JobChange DEF NewBy
  <2>2. prog[p] # <<>> /\ prog'[p] = Rest(p)
    BY <2>1 DEF Submits, Sound, Ready, ProgramsReady
  <2>3. PICK S : prog[p] \in Seq(S)
    BY PlainPrograms DEF Sound, Ready, ProgramsReady
  <2>4. Head(prog[p]) = prog[p][1] /\ 1 \in 1..Len(prog[p])
    BY <2>2, <2>3, QueueFacts
  <2>5. Head(prog[p]) = Enqueue(jobs'[i].kind)
    <3>1. Head(prog[p]) \in PlainCalls \/ Head(prog[p]) \in ReadyCalls
      BY <2>2, PlainPrograms, SeqFacts DEF Sound, Ready, ProgramsReady
    <3>2. Head(prog[p]) \in [call : {"enqueue"}, kind : Kinds]
      BY <2>1, <3>1 DEF PlainCalls, ReadyCalls, Calls, SaveScript, ReadyKinds
    <3>3. QED
      BY <2>1, <3>2 DEF Enqueue
  <2>6. Names(prog[p], jobs'[i].kind)
    BY <2>4, <2>5 DEF Names
  <2>7. ~Names(prog'[p], jobs'[i].kind)
    <3>1. EnqueuesOnce(prog[p], Kinds)
      BY DEF ProgramsOnce
    <3>2. QED
      BY <1>1, <2>2, <2>5, <3>1, RestEnqueues
  <2>8. QED
    BY <2>1, <2>6, <2>7
<1>4. QED
  BY <1>2, <1>3

-----------------------------------------------------------------------------
(* Creation: a project that does not exist has nothing, and one whose       *)
(* script is still to be saved has nothing else.                            *)

Empty == jobs = <<>> /\ \A k \in Kinds : rows[k] = 0

Created ==
    /\ status = "NONE" => Empty /\ \A p \in Procs : prog[p] = <<>>
    /\ \A p \in Procs : prog[p] = UserScript =>
         Empty /\ \A q \in Procs : q # p => prog[q] = <<>>

LEMMA ScriptFirst ==
    /\ Len(UserScript) = 4 /\ UserScript # <<>> /\ Head(UserScript) = SaveScript
    /\ Names(UserScript, OfProject("SCENES")) /\ Tail(UserScript) # UserScript
<1>1. UserScript \in Seq(PlainCalls)
  BY PlainPrograms
<1>2. \A a, b, c, d :
          /\ Len(<<a>> \o (<<b>> \o <<c, d>>)) = 4 /\ (<<a>> \o (<<b>> \o <<c, d>>))[1] = a
          /\ (<<a>> \o (<<b>> \o <<c, d>>))[3] = c
  OBVIOUS
<1>3. Len(UserScript) = 4 /\ UserScript[1] = SaveScript /\ UserScript[3] = Enqueue(OfProject("SCENES"))
  BY <1>2 DEF UserScript, OnScriptGenerated, EnqueueThenStatus
<1>4. UserScript # <<>>
  BY <1>3
<1>5. Head(UserScript) = SaveScript /\ Len(Tail(UserScript)) = 3
  BY <1>1, <1>3, <1>4, QueueFacts
<1>6. Names(UserScript, OfProject("SCENES"))
  BY <1>3 DEF Names
<1>7. Tail(UserScript) # UserScript
  <2>1. \A s, t : Len(s) = 3 /\ Len(t) = 4 => s # t
    OBVIOUS
  <2>2. QED
    BY <1>3, <1>5, <2>1, Zenon
<1>8. QED
  BY <1>3, <1>4, <1>5, <1>6, <1>7

\* With no job and no artifact nobody is at work, and the review is far.
LEMMA EmptyFacts ==
    ASSUME Sound, Empty
    PROVE  /\ Len(jobs) = 0 /\ FailedJobs = {} /\ status \notin ReviewStatuses
           /\ \A w \in Workers : cur[w] = 0 /\ pc[w] \in {"idle", "failed"} /\ prog[w] = <<>>
<1>1. Len(jobs) = 0 /\ FailedJobs = {}
  BY DEF Empty, FailedJobs
<1>2. status \notin ReviewStatuses
  <2>1. ~Exists(OfProject("RENDER"))
    BY KindFacts DEF Empty, Exists
  <2>2. QED
    BY <2>1, StatusFacts DEF Sound, Ready, TablesReady, ReadyStatuses, OtherStatuses
<1>3. ASSUME NEW w \in Workers PROVE cur[w] = 0 /\ pc[w] \in {"idle", "failed"} /\ prog[w] = <<>>
  BY <1>1 DEF Sound, Delivery, HeldOK, PlacesOK
<1>4. QED
  BY <1>1, <1>2, <1>3

LEMMA EmptyPrograms ==
    ASSUME Sound, Empty, [Next]_vars, NEW p \in Procs, prog[p] = <<>>
    PROVE  prog'[p] = <<>> \/ (p \in Clients /\ CreateProject(p))
<1>1. CASE p \in Clients
  <2>1. status # "REVIEW_PACKAGED"
    BY StatusFacts DEF Sound, Ready, TablesReady, ReadyStatuses, OtherStatuses
  <2>2. ~Approve(p) /\ ~Reject(p) /\ ~RetryProject(p)
    BY <2>1, EmptyFacts DEF Approve, Reject, Reviewable, RetryProject, ReviewStatuses
  <2>3. QED
    BY <1>1, <2>2, ClientMoves DEF Advances
<1>2. CASE p \in Workers
  <2>1. CASE WorkerStep(p) /\ ~Panic(p)
    <3>1. pc[p] \in {"idle", "failed"} /\ cur[p] = 0
      BY <1>2, EmptyFacts
    <3>2. pc'[p] # "calls"
      BY <1>2, <2>1, <3>1, PlacesAfter DEF Starts
    <3>3. PlacesOK'
      BY SoundStep DEF Sound, Delivery
    <3>4. QED
      BY <1>2, <3>2, <3>3 DEF PlacesOK
  <2>2. QED
    BY <1>2, <2>1, WorkerMoves
<1>3. QED
  BY <1>1, <1>2 DEF Procs

LEMMA EmptyStep ==
    ASSUME Sound, Empty, [Next]_vars,
           \A p \in Procs : prog[p] = <<>> \/ (prog[p] = UserScript /\ prog'[p] = prog[p])
    PROVE  Empty'
<1>1. Len(jobs) = 0 /\ \A w \in Workers : cur[w] = 0
  BY EmptyFacts
<1>2. jobs' = <<>>
  <2>1. ASSUME NEW i \in 1..Len(jobs') PROVE FALSE
    <3>1. NewBy(i)
      BY <1>1, <2>1, JobChange
    <3>2. PICK p \in Procs : prog[p] # <<>> /\ Head(prog[p]).call = "enqueue"
      BY <3>1 DEF NewBy, Submits
    <3>3. Head(prog[p]) = SaveScript
      BY <3>2, ScriptFirst
    <3>4. QED
      BY <3>2, <3>3 DEF SaveScript
  <2>2. Len(jobs') = 0
    BY <2>1, JobChange
  <2>3. jobs' \in Seq(ReadyJobs')
    BY SoundStep DEF Sound, Ready, TablesReady
  <2>4. QED
    BY <2>2, <2>3
<1>3. UNCHANGED rows
  <2>1. ASSUME NEW w \in Workers, Generate(w) PROVE FALSE
    BY <1>1, <2>1 DEF Generate, Sound, Ready, WorkersReady
  <2>2. ASSUME NEW p \in Procs, prog[p] = UserScript, prog' = [prog EXCEPT ![p] = Rest(p)]
        PROVE  FALSE
    <3>1. prog'[p] = Rest(p)
      BY <2>2 DEF Sound, Ready, ProgramsReady
    <3>2. prog'[p] = UserScript
      BY <2>2, ScriptFirst
    <3>3. Tail(UserScript) = OnScriptGenerated /\ Rest(p) = OnScriptGenerated
      BY <2>2, UserScriptFacts, UserScriptRest
    <3>4. QED
      BY <3>1, <3>2, <3>3, ScriptFirst
  <2>3. QED
    BY <2>1, <2>2, RowsChange DEF Sound
<1>4. QED
  BY <1>2, <1>3 DEF Empty

\* No step removes a project.
LEMMA NoneStays ==
    ASSUME Sound, [Next]_vars, status' = "NONE"
    PROVE  status = "NONE" /\ \A c \in Clients : ~CreateProject(c)
<1>1. ASSUME NEW p \in Procs, prog[p] # <<>>, Perform(Head(prog[p])) PROVE UNCHANGED status
  <2>1. CASE DoSetStatus(Head(prog[p]))
    BY <1>1, <2>1, HeadStatus DEF DoSetStatus, OtherStatuses
  <2>2. CASE DoReadProject(Head(prog[p])) \/ DoPush(Head(prog[p]))
    BY <2>2 DEF DoReadProject, DoPush
  <2>3. CASE DoCreateJob(Head(prog[p])) \/ DoSaveScript(Head(prog[p])) \/ DoResetJob(Head(prog[p]))
    BY <2>3 DEF DoCreateJob, DoSaveScript, DoResetJob
  <2>4. QED
    BY <1>1, <2>1, <2>2, <2>3 DEF Perform
<1>2. ASSUME NEW w \in Workers, WorkerStep(w) PROVE UNCHANGED status
  <2>1. CASE WorkerCall(w)
    BY <1>1, <2>1 DEF WorkerCall, NextCall, Sound, Ready, WorkersReady, Procs
  <2>2. CASE ~WorkerCall(w)
    BY <1>2, <2>2 DEF WorkerStep, Take, ReadInputs, Panic, CheckExisting, MissSubtitle, Generate,
       GenerateNoScenes, GenerateError, CountAudios, CountImages, WorkerError, Complete, FailAndRetry,
       FailForGood, FailProject
  <2>3. QED
    BY <2>1, <2>2
<1>3. ASSUME NEW c \in Clients,
             CreateProject(c) \/ Approve(c) \/ Reject(c) \/ RetryProject(c) \/ ClientStep(c)
      PROVE  UNCHANGED status
  <2>1. CASE ClientCall(c)
    BY <1>1, <2>1 DEF ClientCall, NextCall, Procs
  <2>2. CASE ~ClientCall(c)
    BY <1>3, <2>2 DEF CreateProject, Approve, Reject, RetryProject, ClientStep, ClientError
  <2>3. QED
    BY <2>1, <2>2
<1>4. UNCHANGED status
  BY <1>2, <1>3 DEF Next, vars
<1>5. QED
  BY <1>4 DEF CreateProject

LEMMA CreatedStep == Sound /\ Created /\ [Next]_vars => Created'
<1> SUFFICES ASSUME Sound, Created, [Next]_vars PROVE Created'
  OBVIOUS
<1>1. ASSUME status' = "NONE" PROVE Empty' /\ \A p \in Procs : prog'[p] = <<>>
  <2>1. status = "NONE" /\ \A c \in Clients : ~CreateProject(c)
    BY <1>1, NoneStays
  <2>2. Empty /\ \A p \in Procs : prog[p] = <<>>
    BY <2>1 DEF Created
  <2>3. QED
    BY <2>1, <2>2, EmptyStep, EmptyPrograms
<1>2. ASSUME NEW p \in Procs, prog'[p] = UserScript
      PROVE  Empty' /\ \A q \in Procs : q # p => prog'[q] = <<>>
  <2>1. CASE prog'[p] = prog[p]
    <3>1. Empty /\ (\A q \in Procs : q # p => prog[q] = <<>>) /\ status # "NONE"
      BY <1>2, <2>1, ScriptFirst DEF Created
    <3>2. Empty'
      BY <1>2, <2>1, <3>1, EmptyStep
    <3>3. \A q \in Procs : q # p => prog'[q] = <<>>
      BY <3>1, EmptyPrograms DEF CreateProject
    <3>4. QED
      BY <3>2, <3>3
  <2>2. ASSUME p \in Clients, CreateProject(p) PROVE Empty' /\ \A q \in Procs : q # p => prog'[q] = <<>>
    <3>1. Empty /\ \A q \in Procs : prog[q] = <<>>
      BY <2>2 DEF CreateProject, Created
    <3>2. UNCHANGED <<rows, jobs>> /\ \A q \in Procs : q # p => prog'[q] = prog[q]
      BY <2>2 DEF CreateProject, Request, Sound, Ready, ProgramsReady
    <3>3. QED
      BY <3>1, <3>2 DEF Empty
  <2>3. ASSUME Advances(p), Perform(Head(prog[p])), prog'[p] = Rest(p) PROVE FALSE
    <3>1. Ready /\ prog[p] # <<>>
      BY <2>3 DEF Sound, Advances
    <3>2. Rest(p) \in Seq(ReadyCalls') /\ Len(jobs') \in Nat
      BY <2>3, <3>1, CallStep DEF Grows
    <3>3. SaveScript \in ReadyCalls'
      BY <1>2, <2>3, <3>2, ScriptFirst, SeqFacts
    <3>4. SaveScript.call = "script"
      BY DEF SaveScript
    <3>5. QED
      BY <3>2, <3>3, <3>4, CallFacts DEF ReadyCalls
  <2>4. ASSUME p \in Workers, Starts(p), prog'[p] = Callback(KindOf(p).type, SceneList'),
               KindOf(p).type \in {"SCRIPT", "SCENES", "SUBTITLE", "RENDER", "REVIEW"}
        PROVE  FALSE
    <3>1. SceneList' \in {Scenes, {}}
      BY DEF SceneList
    <3>2. Head(prog'[p]).call = "status"
      BY <2>4, <3>1, CallbackHead
    <3>3. QED
      BY <1>2, <3>2, ScriptFirst DEF SaveScript
  <2>5. ASSUME prog'[p] = OnAssetsComplete PROVE FALSE
    <3>1. \A a, b, c : Len(<<a>> \o <<b, c>>) = 3
      OBVIOUS
    <3>2. Len(OnAssetsComplete) = 3
      BY <3>1 DEF OnAssetsComplete, EnqueueThenStatus
    <3>3. Len(OnAssetsComplete) # Len(UserScript)
      BY <3>2, ScriptFirst
    <3>4. QED
      BY <1>2, <2>5, <3>3, Zenon
  <2>6. ASSUME EnqueuesOnce(prog'[p], {}) PROVE FALSE
    BY <1>2, <2>6, ScriptFirst DEF EnqueuesOnce, Names
  <2>7. QED
    BY <1>2, <2>1, <2>2, <2>3, <2>4, <2>5, <2>6, ProgramMoves
<1>3. QED
  BY <1>1, <1>2 DEF Created

-----------------------------------------------------------------------------
(* One artifact of each kind, as long as no two workers run a job of the    *)
(* same kind at the same time.                                              *)

SingleKinds == {OfProject("SCRIPT")} \cup Assets

Alone ==
    \A v, w \in Workers :
        cur[v] # 0 /\ cur[w] # 0 /\ KindOf(v) = KindOf(w) /\ KindOf(v) \in SingleKinds => v = w

\* Who is about to make an artifact found none.
NotYet == \A w \in Workers : pc[w] = "generate" /\ KindOf(w) \in SingleKinds => rows[KindOf(w)] = 0

\* Who counted enough audios, and whoever enqueues the subtitles, is right.
CountsOK ==
    /\ \A w \in Workers : pc[w] = "images" /\ audios[w] >= NumScenes =>
         \A s \in Scenes : Exists(Voice(s))
    /\ HasKind(OfProject("SUBTITLE")) \/ (\E p \in Procs : Names(prog[p], OfProject("SUBTITLE")))
         => AssetsExist

Once == Created /\ ProgramsOnce /\ NotYet /\ OneArtifact /\ CountsOK

LEMMA SingleFacts ==
    /\ SingleKinds \in SUBSET Kinds /\ Assets \in SUBSET Kinds
    /\ \A k \in SingleKinds : k.type = "SCRIPT" \/ k.type \in AssetTypes
    /\ OneArtifact <=> \A k \in SingleKinds : rows[k] <= 1
    /\ AssetsExist <=> \A k \in Assets : Exists(k)
<1>1. SingleKinds \in SUBSET Kinds /\ \A k \in SingleKinds : k.type = "SCRIPT" \/ k.type \in AssetTypes
  BY KindFacts DEF SingleKinds, Assets, VoiceKinds, ImageKinds, AssetTypes
<1>2. OneArtifact <=> \A k \in SingleKinds : rows[k] <= 1
  BY DEF OneArtifact, SingleKinds, Assets, VoiceKinds, ImageKinds
<1>3. AssetsExist <=> \A k \in Assets : Exists(k)
  BY DEF AssetsExist, Assets, VoiceKinds, ImageKinds
<1>4. QED
  BY <1>1, <1>2, <1>3 DEF SingleKinds

\* A worker has the same kind of job after a step that leaves it the job.
LEMMA KindKept ==
    ASSUME Sound, [Next]_vars, NEW w \in Workers, cur[w] # 0, cur'[w] = cur[w]
    PROVE  KindOf(w)' = KindOf(w) /\ KindOf(w) \in Kinds /\ cur[w] \in 1..Len(jobs)
<1>1. cur[w] \in 1..Len(jobs)
  BY DEF Sound, Delivery, HeldOK
<1>2. QED
  BY <1>1, JobChange, JobFacts DEF KindOf, Sound

\* The row that a step adds, if it is of a kind of which there is to be only one.
LEMMA SingleRow ==
    ASSUME Sound, Once, [Next]_vars, NEW k \in SingleKinds, rows'[k] # rows[k]
    PROVE  /\ rows[k] = 0 /\ rows'[k] = 1
           /\ \/ \E w \in Workers : Generate(w) /\ KindOf(w) = k
              \/ Empty
<1>1. k \in Kinds /\ rows \in [Kinds -> Nat]
  BY SingleFacts DEF Sound, Ready, TablesReady
<1>2. ASSUME NEW w \in Workers, Generate(w), KindOf(w) \in Kinds
      PROVE  KindOf(w) = k /\ rows[k] = 0 /\ rows'[k] = 1
  <2>1. KindOf(w) = k /\ rows'[k] = rows[k] + 1
    BY <1>1, <1>2 DEF Generate
  <2>2. rows[k] = 0
    BY <1>2, <2>1 DEF Generate, Once, NotYet
  <2>3. QED
    BY <2>1, <2>2
<1>3. ASSUME NEW p \in Procs, prog[p] = UserScript, DoSaveScript(Head(prog[p]))
      PROVE  Empty /\ rows[k] = 0 /\ rows'[k] = 1
  <2>1. Empty
    BY <1>3 DEF Once, Created
  <2>2. rows[k] = 0
    BY <1>1, <2>1 DEF Empty
  <2>3. rows'[k] = rows[k] + 1
    BY <1>1, <1>3 DEF DoSaveScript
  <2>4. QED
    BY <2>1, <2>2, <2>3
<1>4. QED
  BY <1>2, <1>3, RowsChange DEF Sound

LEMMA OneArtifactStep == Sound /\ Once /\ [Next]_vars => OneArtifact'
<1> SUFFICES ASSUME Sound, Once, [Next]_vars PROVE OneArtifact'
  OBVIOUS
<1>1. ASSUME NEW k \in SingleKinds PROVE rows'[k] <= 1
  BY SingleRow, SingleFacts DEF Once
<1>2. QED
  BY <1>1 DEF OneArtifact, SingleKinds, Assets, VoiceKinds, ImageKinds

LEMMA NotYetStep == Sound /\ Alone /\ Once /\ [Next]_vars => NotYet'
<1> SUFFICES ASSUME Sound, Alone, Once, [Next]_vars, NEW w \in Workers, pc'[w] = "generate",
                    KindOf(w)' \in SingleKinds
             PROVE  rows'[KindOf(w)'] = 0
  BY DEF NotYet, SingleKinds, Assets, VoiceKinds, ImageKinds
<1>1. rows \in [Kinds -> Nat] /\ DOMAIN pc = Workers
  BY DEF Sound, Ready, TablesReady, WorkersReady
<1>2. CASE pc'[w] = pc[w] /\ cur'[w] = cur[w]
  <2>1. cur[w] # 0
    BY <1>2 DEF Sound, Delivery, PlacesOK
  <2>2. KindOf(w)' = KindOf(w) /\ KindOf(w) \in SingleKinds /\ rows[KindOf(w)] = 0
        /\ cur[w] \in 1..Len(jobs)
    BY <1>2, <2>1, KindKept DEF Once, NotYet
  <2>3. ASSUME NEW v \in Workers, Generate(v), KindOf(v) = KindOf(w) PROVE FALSE
    <3>1. cur[v] # 0
      BY <2>3 DEF Generate, Sound, Delivery, PlacesOK
    <3>2. v = w
      BY <2>1, <2>2, <2>3, <3>1 DEF Alone
    <3>3. pc'[v] # "generate"
      BY <1>1, <2>3 DEF Generate, Proceed, Goto
    <3>4. QED
      BY <3>2, <3>3
  <2>4. ~Empty
    BY <2>2, EmptyFacts
  <2>5. rows'[KindOf(w)] = 0
    BY <2>2, <2>3, <2>4, SingleRow
  <2>6. QED
    BY <2>2, <2>5
<1>3. CASE WorkerStep(w) /\ ~Panic(w) /\ pc[w] # "generate"
  <2>1. CheckExisting(w) \/ MissSubtitle(w)
    BY <1>1, <1>3, StartFacts DEF WorkerStep, Take, ReadInputs, Generate, GenerateNoScenes, GenerateError,
       CountAudios, CountImages, WorkerCall, NextCall, WorkerError, Complete, FailAndRetry, FailForGood, FailProject,
       Goto, Release, ServiceFails
  <2>2. pc[w] = "check" /\ UNCHANGED <<cur, jobs, rows>>
    BY <2>1 DEF CheckExisting, MissSubtitle
  <2>3. KindOf(w)' = KindOf(w)
    BY <2>2 DEF KindOf
  <2>4. KindOf(w).type = "SCRIPT" \/ KindOf(w).type \in AssetTypes
    BY <2>3, SingleFacts
  <2>5. CheckExisting(w) /\ ~Reuses(KindOf(w))
    BY <1>1, <2>1, <2>4, StartFacts DEF MissSubtitle, AssetTypes, CheckExisting, Proceed, Goto
  <2>6. ~Exists(KindOf(w)) /\ KindOf(w) \in Kinds
    BY <2>3, <2>4, <2>5, SingleFacts DEF Reuses, AssetTypes
  <2>7. rows'[KindOf(w)] = 0
    BY <1>1, <2>2, <2>6 DEF Exists
  <2>8. QED
    BY <2>3, <2>7
<1>4. CASE WorkerStep(w) /\ ~Panic(w) /\ pc[w] = "generate"
  BY <1>1, <1>4 DEF WorkerStep, Take, ReadInputs, CheckExisting, MissSubtitle, Generate, GenerateNoScenes,
     GenerateError, CountAudios, CountImages, WorkerCall, NextCall, WorkerError, Complete, FailAndRetry, FailForGood,
     FailProject, Proceed, Goto, Release
<1>5. QED
  BY <1>2, <1>3, <1>4, WorkerMoves

LEMMA EnoughExist ==
    ASSUME Sound, OneArtifact, NEW A \in {VoiceKinds, ImageKinds}, CountRows(A) >= NumScenes
    PROVE  \A k \in A : Exists(k)
<1>1. A \in SUBSET Kinds /\ IsFiniteSet(A) /\ Cardinality(A) = NumScenes
  BY AssetKinds
<1>2. \A k \in A : rows[k] <= 1
  BY DEF OneArtifact, VoiceKinds, ImageKinds
<1>3. rows \in [Kinds -> Nat]
  BY DEF Sound, Ready, TablesReady
<1>4. QED
  BY <1>1, <1>2, <1>3, RowsEnough

\* A worker that finds the assets complete is right.
LEMMA CompleteExist ==
    ASSUME Sound, Once, NEW w \in Workers, CountImages(w), AllAssets(w)
    PROVE  AssetsExist
<1>1. cur[w] \in 1..Len(jobs) /\ jobs[cur[w]].kind.type \in AssetTypes /\ pc[w] = "images"
  BY DEF CountImages, Sound, Ready, WorkersReady
<1>2. jobs[cur[w]] \in ReadyJobs
  BY <1>1, QueueFacts DEF Sound, Ready, TablesReady
<1>3. Exists(OfProject("SCENES"))
  BY <1>1, <1>2 DEF ReadyJobs, ReadyKinds, Prerequisites, AssetTypes
<1>4. Cardinality(SceneList) = NumScenes
  BY <1>3, FS_Interval, WorkflowAssumption DEF SceneList, Scenes
<1>5. \A s \in Scenes : Exists(Voice(s))
  BY <1>1, <1>4 DEF AllAssets, Once, CountsOK
<1>6. CountRows(ImageKinds) >= NumScenes
  BY <1>4 DEF AllAssets, ImageKinds
<1>7. \A k \in ImageKinds : Exists(k)
  BY <1>6, EnoughExist DEF Once
<1>8. QED
  BY <1>5, <1>7 DEF AssetsExist, ImageKinds

LEMMA CountsStep == Sound /\ Once /\ [Next]_vars => CountsOK'
<1> SUFFICES ASSUME Sound, Once, [Next]_vars PROVE CountsOK'
  OBVIOUS
<1>1. \A s \in Scenes : Voice(s) \in Kinds /\ Image(s) \in Kinds
  BY KindFacts
<1>2. ASSUME NEW w \in Workers, pc'[w] = "images", audios'[w] >= NumScenes, NEW s \in Scenes
      PROVE  rows'[Voice(s)] > 0
  <2>1. CASE pc'[w] = pc[w] /\ audios'[w] = audios[w]
    <3>1. Exists(Voice(s))
      BY <1>2, <2>1 DEF Once, CountsOK
    <3>2. QED
      BY <1>1, <3>1, RowsKept
  <2>2. CASE WorkerStep(w) /\ ~Panic(w)
    <3>1. CountAudios(w) \/ (pc'[w] = pc[w] /\ audios'[w] = audios[w])
      BY <1>2, <2>2, PlacesAfter, StartFacts
    <3>2. CASE CountAudios(w)
      <4>1. audios'[w] = CountRows(VoiceKinds)
        BY <3>2 DEF CountAudios, VoiceKinds, Sound, BoundsOK
      <4>2. \A k \in VoiceKinds : Exists(k)
        BY <1>2, <4>1, EnoughExist DEF Once
      <4>3. QED
        BY <1>1, <4>2, RowsKept DEF VoiceKinds
    <3>3. QED
      BY <2>1, <3>1, <3>2
  <2>3. QED
    BY <1>2, <2>1, <2>2, WorkerMoves
<1>3. ASSUME HasKind(OfProject("SUBTITLE"))' \/ \E p \in Procs : Names(prog'[p], OfProject("SUBTITLE"))
      PROVE  AssetsExist
  <2>1. ASSUME NEW i \in 1..Len(jobs'), jobs'[i].kind = OfProject("SUBTITLE") PROVE AssetsExist
    <3>1. CASE i \in 1..Len(jobs)
      BY <2>1, <3>1, JobChange DEF HasKind, Once, CountsOK
    <3>2. CASE i \notin 1..Len(jobs)
      <4>1. \E p \in Procs : Names(prog[p], jobs'[i].kind)
        BY <3>2, NewJobs DEF Once
      <4>2. QED
        BY <2>1, <4>1 DEF Once, CountsOK
    <3>3. QED
      BY <3>1, <3>2
  <2>2. ASSUME NEW p \in Procs, Names(prog'[p], OfProject("SUBTITLE")) PROVE AssetsExist
    <3>1. CASE Names(prog[p], OfProject("SUBTITLE"))
      BY <3>1 DEF Once, CountsOK
    <3>2. CASE NamesNow(p, OfProject("SUBTITLE"))
      <4>1. \A t \in {"SCRIPT", "SCENES", "SUBTITLE", "RENDER", "REVIEW"} :
              OfProject("SUBTITLE") \notin Enqueued(t)
        BY KindFacts DEF Enqueued, FollowUps, Assets, VoiceKinds, ImageKinds
      <4>2. OfProject("SUBTITLE") \notin {OfProject("SCRIPT"), OfProject("SCENES")}
        BY KindFacts
      <4>3. QED
        BY <3>2, <4>1, <4>2, CompleteExist DEF NamesNow
    <3>3. QED
      BY <2>2, <3>1, <3>2, NamesStep DEF Once
  <2>3. QED
    BY <1>3, <2>1, <2>2 DEF HasKind
<1>4. AssetsExist => AssetsExist'
  BY <1>1, RowsKept DEF AssetsExist, Exists
<1>5. QED
  BY <1>2, <1>3, <1>4 DEF CountsOK, Exists

LEMMA OnceStep == Sound /\ Alone /\ Once /\ [Next]_vars => Once'
<1> SUFFICES ASSUME Sound, Alone, Once, [Next]_vars PROVE Once'
  OBVIOUS
<1>1. Created' /\ ProgramsOnce'
  BY CreatedStep, ProgramsOnceStep DEF Once
<1>2. NotYet' /\ OneArtifact' /\ CountsOK'
  BY NotYetStep, OneArtifactStep, CountsStep
<1>3. QED
  BY <1>1, <1>2 DEF Once

LEMMA OnceInit == Init => Once
<1> SUFFICES ASSUME Init PROVE Once
  OBVIOUS
<1>1. Empty /\ \A p \in Procs : prog[p] = <<>>
  BY DEF Init, Empty
<1>2. Created
  BY <1>1, ScriptFirst DEF Created
<1>3. ProgramsOnce
  BY <1>1, ShortEnqueues DEF ProgramsOnce
<1>4. NotYet /\ OneArtifact
  BY SingleFacts DEF Init, NotYet
<1>5. CountsOK
  <2>1. \A p \in Procs : ~Names(prog[p], OfProject("SUBTITLE"))
    BY <1>1 DEF Names
  <2>2. \A i \in 1..Len(jobs) : FALSE
    BY DEF Init
  <2>3. QED
    BY <2>1, <2>2 DEF Init, CountsOK, HasKind
<1>6. QED
  BY <1>2, <1>3, <1>4, <1>5 DEF Once

\* The prerequisites of each stage, from those that hold in any case and the assets.
LEMMA PrerequisitesMet == Sound /\ Once => StagePrerequisites
<1> SUFFICES ASSUME Sound, Once PROVE StagePrerequisites
  OBVIOUS
<1>1. StagesInOrder
  <2>1. ASSUME NEW i \in 1..Len(jobs) PROVE \A a \in Prerequisites(jobs[i].kind.type) : Exists(a)
    <3>1. jobs[i] \in ReadyJobs
      BY QueueFacts DEF Sound, Ready, TablesReady
    <3>2. QED
      BY <3>1 DEF ReadyJobs, ReadyKinds
  <2>2. QED
    BY <2>1 DEF StagesInOrder, HasJob, Prerequisites
<1>2. HasJob("SUBTITLE") => AssetsExist
  BY StageKinds DEF Once, CountsOK
<1>3. QED
  BY <1>1, <1>2 DEF StagePrerequisites

\* A worker process with a single goroutine makes each artifact once, and enqueues no
\* stage before what its handler reads is there, whatever fails.
OneWorker == \A v, w \in Workers : v = w

LEMMA OneWorkerOnce ==
    ASSUME OneWorker
    PROVE  Spec => [](Sound /\ Once)
<1>1. Init => Sound /\ Once
  BY SoundInit, OnceInit
<1>2. Alone
  BY DEF OneWorker, Alone
<1>3. (Sound /\ Once) /\ [Next]_vars => (Sound /\ Once)'
  BY <1>2, SoundStep, OnceStep
<1>4. QED
  BY <1>1, <1>3, PTL DEF Spec

-----------------------------------------------------------------------------
(* Without errors of the database no handler runs twice to its end, so the  *)
(* stages up to the assets have one job for each kind.                      *)

EarlyKinds == {OfProject("SCRIPT"), OfProject("SCENES")} \cup Assets
LaterKinds == EarlyKinds \ {OfProject("SCRIPT")}

\* The stage whose callback enqueues a job of kind k.
Parent(k) == IF k = OfProject("SCENES") THEN OfProject("SCRIPT") ELSE OfProject("SCENES")

\* Job i has come to its callback.
CalledBack(i) ==
    \/ jobs[i].status = "SUCCEEDED"
    \/ \E w \in Workers : cur[w] = i /\ pc[w] \in {"calls", "done"}

Seen(k) == HasKind(k) \/ \E p \in Procs : Names(prog[p], k)

UniqueJobs ==
    \A i, j \in 1..Len(jobs) : jobs[i].kind = jobs[j].kind /\ jobs[i].kind \in EarlyKinds => i = j

UniqueCalls ==
    \A p \in Procs, k \in EarlyKinds : Names(prog[p], k) =>
        ~HasKind(k) /\ \A q \in Procs : Names(prog[q], k) => q = p

ParentsDone ==
    \A k \in LaterKinds : Seen(k) =>
        /\ \A i \in 1..Len(jobs) : jobs[i].kind = Parent(k) => CalledBack(i)
        /\ \A p \in Procs : ~Names(prog[p], Parent(k))

MadeByJobs == \A k \in LaterKinds : Exists(k) => HasKind(k)

Unique == UniqueJobs /\ UniqueCalls /\ ParentsDone /\ MadeByJobs

LEMMA EarlyFacts ==
    /\ SingleKinds \subseteq EarlyKinds /\ EarlyKinds \subseteq Kinds /\ LaterKinds \subseteq EarlyKinds
    /\ LaterKinds = {OfProject("SCENES")} \cup Assets
    /\ OfProject("SCRIPT") # OfProject("SCENES")
    /\ \A k \in Assets : k.type \in AssetTypes /\ Parent(k) = OfProject("SCENES")
    /\ \A k \in LaterKinds : /\ Parent(k) \in EarlyKinds
                             /\ Parent(k).type \in {"SCRIPT", "SCENES"}
                             /\ Parent(k) # k
<1>1. /\ OfProject("SCRIPT") \in Kinds /\ OfProject("SCENES") \in Kinds
      /\ OfProject("SCRIPT").type = "SCRIPT" /\ OfProject("SCENES").type = "SCENES"
      /\ \A k \in Assets : k \in Kinds /\ k.type \in AssetTypes
  BY KindFacts DEF Assets, VoiceKinds, ImageKinds, AssetTypes
<1>2. \A k \in Assets : k # OfProject("SCENES") /\ k # OfProject("SCRIPT")
  BY <1>1 DEF AssetTypes
<1>3. QED
  BY <1>1, <1>2 DEF SingleKinds, EarlyKinds, LaterKinds, Parent

\* What of the early kinds comes to be named, and by whom.
LEMMA EarlyNames ==
    ASSUME Sound, ProgramsOnce, [Next]_vars, NEW p \in Procs, NEW k \in EarlyKinds,
           Names(prog'[p], k)
    PROVE  \/ Names(prog[p], k)
           \/ p \in Workers /\ Starts(p) /\ k \in LaterKinds /\ KindOf(p) = Parent(k)
           \/ p \in Clients /\ CreateProject(p)
<1>1. CASE /\ p \in Workers /\ Starts(p) /\ k \in Enqueued(KindOf(p).type)
           /\ KindOf(p).type \in {"SCRIPT", "SCENES", "SUBTITLE", "RENDER", "REVIEW"}
  <2>1. KindOf(p) = OfProject(KindOf(p).type)
    BY <1>1, StartFacts, KindFacts DEF AssetTypes
  <2>2. CASE KindOf(p).type \in {"SUBTITLE", "RENDER", "REVIEW"}
    <3>1. k \in {OfProject("RENDER"), OfProject("REVIEW")}
      BY <1>1, <2>2 DEF Enqueued, FollowUps
    <3>2. k.type \in {"SCRIPT", "SCENES"} \cup AssetTypes
      BY EarlyFacts, KindFacts DEF EarlyKinds
    <3>3. QED
      BY <3>1, <3>2, KindFacts DEF AssetTypes
  <2>3. CASE KindOf(p).type = "SCRIPT"
    <3>1. k = OfProject("SCENES") /\ KindOf(p) = OfProject("SCRIPT")
      BY <1>1, <2>1, <2>3 DEF Enqueued, FollowUps
    <3>2. QED
      BY <1>1, <3>1, EarlyFacts DEF Parent
  <2>4. CASE KindOf(p).type = "SCENES"
    <3>1. k \in Assets /\ KindOf(p) = OfProject("SCENES")
      BY <1>1, <2>1, <2>4 DEF Enqueued
    <3>2. QED
      BY <1>1, <3>1, EarlyFacts
  <2>5. QED
    BY <1>1, <2>2, <2>3, <2>4
<1>2. k # OfProject("SUBTITLE")
  BY EarlyFacts, KindFacts DEF EarlyKinds, AssetTypes
<1>3. QED
  BY <1>1, <1>2, NamesStep DEF NamesNow

\* The callback of a job is the first to name what it enqueues.
LEMMA StartsFresh ==
    ASSUME Sound, Unique, NEW w \in Workers, Starts(w), NEW k \in LaterKinds, KindOf(w) = Parent(k)
    PROVE  ~Seen(k)
<1>1. cur[w] \in 1..Len(jobs) /\ jobs[cur[w]].kind = Parent(k) /\ pc[w] \in {"check", "generate"}
  BY StartFacts DEF Starts
<1>2. jobs[cur[w]].status = "RUNNING" /\ \A v \in Workers : cur[v] = cur[w] => v = w
  BY <1>1 DEF Sound, Delivery, HeldOK, PlacesOK
<1>3. ~CalledBack(cur[w])
  BY <1>1, <1>2 DEF CalledBack
<1>4. QED
  BY <1>1, <1>3 DEF Unique, ParentsDone

\* Nothing is seen before the project is created.
LEMMA CreatesFresh ==
    ASSUME Sound, Created, NEW c \in Clients, CreateProject(c)
    PROVE  /\ UNCHANGED jobs /\ jobs = <<>> /\ \A k : ~Seen(k)
           /\ \A p \in Procs : p # c => prog'[p] = <<>>
           /\ \A k \in LaterKinds : Names(prog'[c], k) => ~Names(prog'[c], Parent(k))
<1>1. Empty /\ \A p \in Procs : prog[p] = <<>>
  BY DEF CreateProject, Created
<1>2. UNCHANGED jobs /\ (\A p \in Procs : p # c => prog'[p] = prog[p])
      /\ prog'[c] \in {EnqueueThenStatus("SCRIPT", "SCRIPT_GENERATING"), UserScript}
  BY DEF CreateProject, Request, Sound, Ready, ProgramsReady, UserScript, Procs
<1>3. jobs = <<>> /\ \A k : ~Seen(k)
  <2>1. jobs = <<>> /\ Len(jobs) = 0
    BY <1>1, EmptyFacts DEF Empty
  <2>2. QED
    BY <1>1, <2>1 DEF Seen, HasKind, Names
<1>4. ASSUME NEW k \in LaterKinds, Names(prog'[c], k) PROVE ~Names(prog'[c], Parent(k))
  <2>1. PICK j \in {OfProject("SCRIPT"), OfProject("SCENES")} : \A l : Names(prog'[c], l) => l = j
    <3>1. \A q, j : EnqueuesOnce(q, {j}) => \A l : Names(q, l) => l = j
      BY DEF EnqueuesOnce, Names
    <3>2. \/ EnqueuesOnce(prog'[c], {OfProject("SCRIPT")})
          \/ EnqueuesOnce(prog'[c], {OfProject("SCENES")})
      BY <1>2, ShortEnqueues
    <3>3. QED
      BY <3>1, <3>2
  <2>2. QED
    BY <1>4, <2>1, EarlyFacts
<1>5. QED
  BY <1>1, <1>2, <1>3, <1>4

\* What has come to its callback stays so, where no handler fails after its artifact.
LEMMA CalledBackStep ==
    ASSUME "database" \notin Faults, Sound, [Next]_vars, NEW i \in 1..Len(jobs), CalledBack(i)
    PROVE  CalledBack(i)'
<1>1. CASE jobs[i].status = "SUCCEEDED"
  BY <1>1, JobChange DEF JobAfter, CalledBack
<1>2. ASSUME NEW w \in Workers, cur[w] = i, pc[w] \in {"calls", "done"}
      PROVE  CalledBack(i)'
  <2>1. CASE pc'[w] = pc[w] /\ cur'[w] = cur[w]
    BY <1>2, <2>1 DEF CalledBack
  <2>2. CASE Settles(w)
    <3>1. jobs' = [jobs EXCEPT ![i].status = "SUCCEEDED"]
      BY <1>2, <2>2 DEF Settles
    <3>2. jobs'[i].status = "SUCCEEDED"
      BY <3>1, StatusSet DEF Sound
    <3>3. QED
      BY <3>2 DEF CalledBack
  <2>3. CASE WorkerCall(w) /\ pc'[w] \in {"calls", "done"} /\ cur'[w] = cur[w]
    BY <1>2, <2>3 DEF CalledBack
  <2>4. CASE WorkerStep(w) /\ ~Panic(w)
    BY <1>2, <2>2, <2>3, <2>4, PlacesAfter, NoPanic DEF Starts
  <2>5. ~ \E v \in Workers : Panic(v)
    BY NoPanic
  <2>6. QED
    BY <2>1, <2>4, <2>5, WorkerMoves
<1>3. QED
  BY <1>1, <1>2 DEF CalledBack

LEMMA UniqueJobsStep ==
    ASSUME Sound, ProgramsOnce, Unique, [Next]_vars
    PROVE  UniqueJobs'
<1> SUFFICES ASSUME NEW i \in 1..Len(jobs'), NEW j \in 1..Len(jobs'),
                    jobs'[i].kind = jobs'[j].kind, jobs'[i].kind \in EarlyKinds
             PROVE  i = j
  BY DEF UniqueJobs
<1>1. CASE i \in 1..Len(jobs) /\ j \in 1..Len(jobs)
  BY <1>1, JobChange DEF Unique, UniqueJobs
<1>2. CASE i \notin 1..Len(jobs) /\ j \notin 1..Len(jobs)
  BY <1>2, NewJobs
<1>3. ASSUME NEW m \in 1..Len(jobs), NEW n \in 1..Len(jobs'), n \notin 1..Len(jobs),
             jobs'[m].kind = jobs'[n].kind, jobs'[n].kind \in EarlyKinds
      PROVE  FALSE
  <2>1. \E p \in Procs : Names(prog[p], jobs'[n].kind)
    BY <1>3, NewJobs
  <2>2. ~HasKind(jobs'[n].kind)
    BY <1>3, <2>1 DEF Unique, UniqueCalls
  <2>3. QED
    BY <1>3, <2>2, JobChange DEF HasKind
<1>4. QED
  BY <1>1, <1>2, <1>3

LEMMA UniqueCallsStep ==
    ASSUME Sound, Created, ProgramsOnce, Unique, [Next]_vars
    PROVE  UniqueCalls'
<1> SUFFICES ASSUME NEW p \in Procs, NEW k \in EarlyKinds, Names(prog'[p], k)
             PROVE  ~HasKind(k)' /\ \A q \in Procs : Names(prog'[q], k) => q = p
  BY DEF UniqueCalls
<1>1. ASSUME NEW c \in Clients, CreateProject(c)
      PROVE  ~HasKind(k)' /\ \A q \in Procs : Names(prog'[q], k) => q = p
  <2>1. jobs' = <<>> /\ \A q \in Procs : q # c => prog'[q] = <<>>
    BY <1>1, CreatesFresh
  <2>2. \A q \in Procs : Names(prog'[q], k) => q = c
    BY <2>1 DEF Names
  <2>3. QED
    BY <2>1, <2>2 DEF HasKind
<1>2. CASE \A c \in Clients : ~CreateProject(c)
  <2>1. ASSUME NEW q \in Procs, Names(prog'[q], k)
        PROVE  \/ Names(prog[q], k) /\ ~HasKind(k) /\ \A r \in Procs : Names(prog[r], k) => r = q
               \/ /\ q \in Workers /\ Starts(q) /\ KindOf(q) = Parent(k) /\ ~Seen(k)
                  /\ Parent(k) \in EarlyKinds
    <3>1. CASE Names(prog[q], k)
      BY <3>1 DEF Unique, UniqueCalls
    <3>2. CASE q \in Workers /\ Starts(q) /\ k \in LaterKinds /\ KindOf(q) = Parent(k)
      BY <3>2, StartsFresh, EarlyFacts
    <3>3. QED
      BY <1>2, <2>1, <3>1, <3>2, EarlyNames
  <2>2. ~HasKind(k)'
    <3> SUFFICES ASSUME NEW i \in 1..Len(jobs'), jobs'[i].kind = k PROVE FALSE
      BY DEF HasKind
    <3>1. CASE i \in 1..Len(jobs)
      BY <2>1, <3>1, JobChange DEF HasKind, Seen
    <3>2. CASE i \notin 1..Len(jobs)
      <4>1. PICK q \in Procs : Names(prog[q], k) /\ ~Names(prog'[q], k)
        BY <3>2, NewJobs
      <4>2. QED
        BY <2>1, <4>1 DEF Seen
    <3>3. QED
      BY <3>1, <3>2
  <2>3. ASSUME NEW q \in Procs, Names(prog'[q], k) PROVE q = p
    <3>1. CASE Names(prog[p], k) \/ Names(prog[q], k)
      BY <2>1, <2>3, <3>1 DEF Seen
    <3>2. CASE /\ p \in Workers /\ Starts(p) /\ q \in Workers /\ Starts(q)
               /\ KindOf(p) = KindOf(q) /\ KindOf(p) \in EarlyKinds
      <4>1. /\ cur[p] \in 1..Len(jobs) /\ cur[q] \in 1..Len(jobs)
            /\ KindOf(p) = jobs[cur[p]].kind /\ KindOf(q) = jobs[cur[q]].kind
        BY <3>2, StartFacts
      <4>2. UniqueJobs
        BY DEF Unique
      <4>3. cur[p] = cur[q]
        BY <3>2, <4>1, <4>2 DEF UniqueJobs
      <4>4. cur[p] # 0
        BY <4>1
      <4>5. QED
        BY <3>2, <4>3, <4>4 DEF Sound, Delivery, HeldOK
    <3>3. QED
      BY <2>1, <2>3, <3>1, <3>2
  <2>4. QED
    BY <2>2, <2>3
<1>3. QED
  BY <1>1, <1>2

LEMMA MadeByJobsStep ==
    ASSUME Sound, Unique, [Next]_vars
    PROVE  MadeByJobs'
<1> SUFFICES ASSUME NEW k \in LaterKinds, rows'[k] > 0 PROVE HasKind(k)'
  BY DEF MadeByJobs, Exists
<1>1. k \in Kinds /\ k # OfProject("SCRIPT") /\ OfProject("SCRIPT") \in Kinds
  BY EarlyFacts, KindFacts DEF LaterKinds
<1>2. CASE Exists(k)
  BY <1>2, HasKindKept DEF Unique, MadeByJobs
<1>3. CASE ~Exists(k)
  <2>1. rows \in [Kinds -> Nat] /\ rows'[k] # rows[k]
    BY <1>1, <1>3 DEF Exists, Sound, Ready, TablesReady
  <2>2. PICK w \in Workers : Generate(w) /\ KindOf(w) \in Kinds
    BY <1>1, <2>1, RowsChange DEF DoSaveScript, Sound
  <2>3. KindOf(w) = k /\ pc[w] = "generate"
    BY <1>1, <2>1, <2>2 DEF Generate
  <2>4. cur[w] \in 1..Len(jobs)
    BY <2>3 DEF Sound, Ready, WorkersReady
  <2>5. HasKind(k)
    BY <2>3, <2>4 DEF HasKind, KindOf
  <2>6. QED
    BY <2>5, HasKindKept
<1>4. QED
  BY <1>2, <1>3

\* An asset is seen only when the job of the scenes is there.
LEMMA AssetsSeen ==
    ASSUME Sound, Unique, NEW k \in Assets, Seen(k)
    PROVE  HasKind(OfProject("SCENES"))
<1>1. k \in Kinds /\ k.type \in AssetTypes /\ k # OfProject("SCENES")
  BY EarlyFacts, KindFacts DEF EarlyKinds, AssetTypes
<1>2. k \in ReadyKinds
  <2>1. CASE HasKind(k)
    BY <2>1, JobFacts DEF HasKind, Sound
  <2>2. ASSUME NEW p \in Procs, Names(prog[p], k) PROVE k \in ReadyKinds
    <3>1. prog[p] # UserScript
      <4>1. \A j : Names(UserScript, j) => j = OfProject("SCENES")
        BY ShortEnqueues DEF EnqueuesOnce, Names
      <4>2. QED
        BY <1>1, <2>2, <4>1
    <3>2. prog[p] \in Seq(ReadyCalls) /\ Len(jobs) \in Nat
      BY <3>1 DEF Sound, Ready, ProgramsReady, TablesReady
    <3>3. Enqueue(k) \in ReadyCalls
      BY <2>2, <3>2 DEF Names
    <3>4. Enqueue(k).call = "enqueue" /\ Enqueue(k).kind = k
      BY DEF Enqueue
    <3>5. QED
      BY <3>2, <3>3, <3>4, CallFacts DEF ReadyCalls
  <2>3. QED
    BY <2>1, <2>2 DEF Seen
<1>3. Exists(OfProject("SCENES"))
  BY <1>1, <1>2 DEF ReadyKinds, Prerequisites, AssetTypes
<1>4. QED
  BY <1>3, EarlyFacts DEF Unique, MadeByJobs

LEMMA ParentsDoneStep ==
    ASSUME "database" \notin Faults, Sound, Created, ProgramsOnce, Unique, [Next]_vars
    PROVE  ParentsDone'
<1> SUFFICES ASSUME NEW k \in LaterKinds,
                    HasKind(k)' \/ \E p \in Procs : Names(prog'[p], k)
             PROVE  /\ \A i \in 1..Len(jobs') : jobs'[i].kind = Parent(k) => CalledBack(i)'
                    /\ \A p \in Procs : ~Names(prog'[p], Parent(k))
  BY DEF ParentsDone, Seen
<1>1. k \in EarlyKinds /\ Parent(k) \in EarlyKinds
  BY EarlyFacts
<1>2. ASSUME NEW c \in Clients, CreateProject(c)
      PROVE  /\ \A i \in 1..Len(jobs') : jobs'[i].kind = Parent(k) => CalledBack(i)'
             /\ \A p \in Procs : ~Names(prog'[p], Parent(k))
  <2>1. /\ jobs' = <<>> /\ \A p \in Procs : p # c => prog'[p] = <<>>
        /\ Names(prog'[c], k) => ~Names(prog'[c], Parent(k))
    BY <1>2, CreatesFresh
  <2>2. ~HasKind(k)' /\ \A j : \A p \in Procs : p # c => ~Names(prog'[p], j)
    BY <2>1 DEF HasKind, Names
  <2>3. Names(prog'[c], k)
    BY <2>2
  <2>4. QED
    BY <2>1, <2>2, <2>3
<1>3. CASE Seen(k) /\ \A c \in Clients : ~CreateProject(c)
  <2>1. /\ \A i \in 1..Len(jobs) : jobs[i].kind = Parent(k) => CalledBack(i)
        /\ \A p \in Procs : ~Names(prog[p], Parent(k))
    BY <1>3 DEF Unique, ParentsDone
  <2>2. ASSUME NEW i \in 1..Len(jobs'), jobs'[i].kind = Parent(k) PROVE CalledBack(i)'
    <3>1. i \in 1..Len(jobs)
      BY <2>1, <2>2, NewJobs
    <3>2. jobs[i].kind = Parent(k)
      BY <2>2, <3>1, JobChange
    <3>3. QED
      BY <2>1, <3>1, <3>2, CalledBackStep
  <2>3. ASSUME NEW p \in Procs, Names(prog'[p], Parent(k)) PROVE FALSE
    <3>1. /\ p \in Workers /\ Starts(p) /\ Parent(k) \in LaterKinds
          /\ KindOf(p) = Parent(Parent(k))
      BY <1>1, <1>3, <2>1, <2>3, EarlyNames
    <3>2. ~Seen(Parent(k))
      BY <3>1, StartsFresh
    <3>3. k \in Assets /\ Parent(k) = OfProject("SCENES")
      BY <3>1, EarlyFacts DEF Parent, LaterKinds
    <3>4. HasKind(OfProject("SCENES"))
      BY <1>3, <3>3, AssetsSeen
    <3>5. QED
      BY <3>2, <3>3, <3>4 DEF Seen
  <2>4. QED
    BY <2>2, <2>3
<1>4. CASE ~Seen(k) /\ \A c \in Clients : ~CreateProject(c)
  <2>1. PICK w \in Workers : Names(prog'[w], k) /\ Starts(w) /\ KindOf(w) = Parent(k)
    <3>1. ~HasKind(k)'
      <4> SUFFICES ASSUME NEW i \in 1..Len(jobs'), jobs'[i].kind = k PROVE FALSE
        BY DEF HasKind
      <4>1. CASE i \in 1..Len(jobs)
        BY <1>4, <4>1, JobChange DEF HasKind, Seen
      <4>2. CASE i \notin 1..Len(jobs)
        BY <1>4, <4>2, NewJobs DEF Seen
      <4>3. QED
        BY <4>1, <4>2
    <3>2. PICK p \in Procs : Names(prog'[p], k)
      BY <3>1
    <3>3. ~Names(prog[p], k)
      BY <1>4 DEF Seen
    <3>4. QED
      BY <1>1, <1>4, <3>2, <3>3, EarlyNames
  <2>2. /\ UNCHANGED jobs /\ cur'[w] = cur[w] /\ cur[w] \in 1..Len(jobs)
        /\ jobs[cur[w]].kind = Parent(k) /\ pc'[w] = "calls"
    <3>1. KindOf(w).type \notin AssetTypes
      BY <2>1, EarlyFacts DEF AssetTypes
    <3>2. QED
      BY <2>1, <3>1, StartFacts
  <2>3. ASSUME NEW i \in 1..Len(jobs'), jobs'[i].kind = Parent(k) PROVE CalledBack(i)'
    <3>1. UniqueJobs
      BY DEF Unique
    <3>2. i = cur[w]
      BY <1>1, <2>2, <2>3, <3>1 DEF UniqueJobs
    <3>3. QED
      BY <2>2, <3>2 DEF CalledBack
  <2>4. ASSUME NEW p \in Procs, Names(prog'[p], Parent(k)) PROVE FALSE
    <3>1. HasKind(Parent(k))
      BY <2>2 DEF HasKind
    <3>2. HasKind(Parent(k))'
      BY <3>1, HasKindKept
    <3>3. UniqueCalls'
      BY UniqueCallsStep
    <3>4. ~HasKind(Parent(k))'
      BY <1>1, <2>4, <3>3 DEF UniqueCalls
    <3>5. QED
      BY <3>2, <3>4
  <2>5. QED
    BY <2>3, <2>4
<1>5. QED
  BY <1>2, <1>3, <1>4

LEMMA UniqueStep ==
    ASSUME "database" \notin Faults, Sound, Once, Unique, [Next]_vars
    PROVE  Unique'
<1>1. Created /\ ProgramsOnce
  BY DEF Once
<1>2. UniqueJobs' /\ UniqueCalls'
  BY <1>1, UniqueJobsStep, UniqueCallsStep
<1>3. ParentsDone' /\ MadeByJobs'
  BY <1>1, ParentsDoneStep, MadeByJobsStep
<1>4. QED
  BY <1>2, <1>3 DEF Unique

LEMMA UniqueInit == Init => Unique
<1> SUFFICES ASSUME Init PROVE Unique
  OBVIOUS
<1>1. Len(jobs) = 0 /\ \A k : \A p \in Procs : ~Names(prog[p], k)
  BY DEF Init, Names
<1>2. UniqueJobs
  BY <1>1 DEF UniqueJobs
<1>3. UniqueCalls /\ \A k : ~Seen(k)
  BY <1>1 DEF UniqueCalls, Seen, HasKind
<1>4. MadeByJobs
  BY EarlyFacts DEF Init, MadeByJobs, Exists
<1>5. ParentsDone
  BY <1>3 DEF ParentsDone
<1>6. QED
  BY <1>2, <1>3, <1>4, <1>5 DEF Unique

\* No two workers have a job of the same kind, as each kind has one job.
LEMMA UniqueAlone == Sound /\ Unique => Alone
<1> SUFFICES ASSUME Sound, Unique, NEW v \in Workers, NEW w \in Workers,
                    cur[v] # 0, cur[w] # 0, KindOf(v) = KindOf(w), KindOf(v) \in SingleKinds
             PROVE  v = w
  BY DEF Alone
<1>1. cur[v] \in 1..Len(jobs) /\ cur[w] \in 1..Len(jobs)
  BY DEF Sound, Delivery, HeldOK
<1>2. UniqueJobs /\ KindOf(v) \in EarlyKinds
  BY EarlyFacts DEF Unique
<1>3. cur[v] = cur[w]
  BY <1>1, <1>2 DEF UniqueJobs, KindOf
<1>4. QED
  BY <1>3 DEF Sound, Delivery, HeldOK

LEMMA NoErrorOnce ==
    ASSUME "database" \notin Faults
    PROVE  Spec => [](Sound /\ Once /\ Unique)
<1>1. Init => Sound /\ Once /\ Unique
  BY SoundInit, OnceInit, UniqueInit
<1>2. (Sound /\ Once /\ Unique) /\ [Next]_vars => (Sound /\ Once /\ Unique)'
  BY UniqueAlone, UniqueStep, SoundStep, OnceStep
<1>3. QED
  BY <1>1, <1>2, PTL DEF Spec

\* As long as a single goroutine works or no call of a callback fails, each artifact of
\* which there is to be one is made at most once, however often its job runs.
THEOREM OneArtifactEach ==
    ASSUME OneWorker \/ "database" \notin Faults
    PROVE  Spec => []OneArtifact
<1>1. Sound /\ Once => OneArtifact
  BY DEF Once
<1>2. Spec => [](Sound /\ Once)
  <2>1. CASE OneWorker
    BY <2>1, OneWorkerOnce
  <2>2. CASE "database" \notin Faults
    <3>1. Spec => [](Sound /\ Once /\ Unique)
      BY <2>2, NoErrorOnce
    <3>2. QED
      BY <3>1, PTL
  <2>3. QED
    BY <2>1, <2>2
<1>3. QED
  BY <1>1, <1>2, PTL

\* Under the same condition no stage is enqueued before everything exists that the jobs of
\* the stages before it are to make; in particular not the subtitles before all assets.
THEOREM PrerequisitesExist ==
    ASSUME OneWorker \/ "database" \notin Faults
    PROVE  Spec => []StagePrerequisites
<1>1. Sound /\ Once => StagePrerequisites
  BY PrerequisitesMet
<1>2. Spec => [](Sound /\ Once)
  <2>1. CASE OneWorker
    BY <2>1, OneWorkerOnce
  <2>2. CASE "database" \notin Faults
    <3>1. Spec => [](Sound /\ Once /\ Unique)
      BY <2>2, NoErrorOnce
    <3>2. QED
      BY <3>1, PTL
  <2>3. QED
    BY <2>1, <2>2
<1>3. QED
  BY <1>1, <1>2, PTL

-----------------------------------------------------------------------------
(* How often the later stages are enqueued: only workers that count the     *)
(* last assets at the same time enqueue one more than once.                 *)

LEMMA OneMore ==
    ASSUME NEW S, NEW T, NEW e, IsFiniteSet(T), S \subseteq T \cup {e}
    PROVE  /\ IsFiniteSet(S) /\ Cardinality(S) \in Nat /\ Cardinality(T) \in Nat
           /\ Cardinality(S) <= Cardinality(T) + 1
<1>1. IsFiniteSet(T \cup {e}) /\ Cardinality(T) \in Nat
  BY FS_AddElement, FS_CardinalityType
<1>2. Cardinality(T \cup {e}) <= Cardinality(T) + 1
  BY <1>1, FS_AddElement
<1>3. IsFiniteSet(S) /\ Cardinality(S) <= Cardinality(T \cup {e})
  BY <1>1, FS_Subset
<1>4. Cardinality(S) \in Nat /\ Cardinality(T \cup {e}) \in Nat
  BY <1>1, <1>3, FS_CardinalityType
<1>5. QED
  BY <1>1, <1>2, <1>3, <1>4

LEMMA NoMore ==
    ASSUME NEW S, NEW T, IsFiniteSet(T), S \subseteq T
    PROVE  /\ IsFiniteSet(S) /\ Cardinality(S) \in Nat /\ Cardinality(T) \in Nat
           /\ Cardinality(S) <= Cardinality(T)
<1>1. IsFiniteSet(S) /\ Cardinality(S) <= Cardinality(T)
  BY FS_Subset
<1>2. QED
  BY <1>1, FS_CardinalityType

LEMMA OneLess ==
    ASSUME NEW S, NEW T, NEW e \in T, IsFiniteSet(T), S \subseteq T \ {e}
    PROVE  /\ IsFiniteSet(S) /\ Cardinality(S) \in Nat /\ Cardinality(T) \in Nat
           /\ Cardinality(S) + 1 <= Cardinality(T)
<1>1. IsFiniteSet(S)
  BY FS_Subset
<1>2. Cardinality(S \cup {e}) = Cardinality(S) + 1
  BY <1>1, FS_AddElement
<1>3. S \cup {e} \subseteq T
  OBVIOUS
<1>4. Cardinality(S \cup {e}) <= Cardinality(T)
  BY <1>3, FS_Subset
<1>5. QED
  BY <1>1, <1>2, <1>4, FS_CardinalityType

\* The workers that are to enqueue a job of kind k, and those that are to enqueue the
\* subtitles or to find out.
Naming(k) == {w \in Workers : Names(prog[w], k)}
Late == Naming(OfProject("SUBTITLE")) \cup {w \in Workers : pc[w] \in {"audios", "images"}}

Back(type) == {i \in JobsOf(type) : CalledBack(i)}

\* An asset exists only once the handler of its job is past it.
AssetsMade == \A i \in 1..Len(jobs) : jobs[i].kind \in Assets /\ Exists(jobs[i].kind) => Made(i)

\* Each late worker stands for one job of the subtitles that may still come, each job that
\* has called back for one of the next stage.
Bounded ==
    /\ ClientsOK /\ AssetsMade
    /\ AssetsExist => Cardinality(JobsOf("SUBTITLE")) + Cardinality(Late) <= Cardinality(Workers)
    /\ \A type \in {"SUBTITLE", "RENDER"} : \A k \in FollowUps(type) :
         Cardinality(JobsOf(k.type)) + Cardinality(Naming(k)) <= Cardinality(Back(type))

\* A step is one of a request, or of a single worker.
LEMMA OneMoves ==
    ASSUME "database" \notin Faults, Sound, [Next]_vars
    PROVE  \/ \A v \in Workers : pc'[v] = pc[v] /\ cur'[v] = cur[v] /\ prog'[v] = prog[v]
           \/ \E w \in Workers :
                /\ WorkerStep(w) /\ ~Panic(w)
                /\ \A v \in Workers : v # w =>
                     pc'[v] = pc[v] /\ cur'[v] = cur[v] /\ prog'[v] = prog[v]
<1>1. CASE \A w \in Workers : ~WorkerStep(w)
  BY <1>1, WorkerMoves, NoPanic
<1>2. ASSUME NEW w \in Workers, WorkerStep(w)
      PROVE  /\ ~Panic(w)
             /\ \A v \in Workers : v # w =>
                  pc'[v] = pc[v] /\ cur'[v] = cur[v] /\ prog'[v] = prog[v]
  BY <1>2, NoPanic, OthersKept DEF Procs
<1>3. QED
  BY <1>1, <1>2

\* Requests enqueue the first stages only.
LEMMA ClientNames ==
    ASSUME ClientsOK, NEW c \in Clients, NEW k, Names(prog[c], k)
    PROVE  k \in {OfProject("SCRIPT"), OfProject("SCENES")}
<1>1. Enqueue(k) \in ClientCalls
  BY DEF ClientsOK, Names
<1>2. Enqueue(k).call = "enqueue" /\ Enqueue(k).kind = k
  BY DEF Enqueue
<1>3. QED
  BY <1>1, <1>2 DEF ClientCalls, SaveScript

\* A stage gets a job from a worker that was to enqueue it.
LEMMA StageJobs ==
    ASSUME Sound, ProgramsOnce, ClientsOK, [Next]_vars, NEW t \in {"SUBTITLE", "RENDER", "REVIEW"}
    PROVE  \/ JobsOf(t)' \subseteq JobsOf(t)
           \/ \E w \in Workers : /\ Names(prog[w], OfProject(t)) /\ ~Names(prog'[w], OfProject(t))
                                 /\ \E i : JobsOf(t)' \subseteq JobsOf(t) \cup {i}
<1>1. CASE \A i \in 1..Len(jobs') : jobs'[i].kind.type = t => i \in 1..Len(jobs)
  BY <1>1, JobChange DEF JobsOf
<1>2. ASSUME NEW i \in 1..Len(jobs'), jobs'[i].kind.type = t, i \notin 1..Len(jobs)
      PROVE  \E w \in Workers : /\ Names(prog[w], OfProject(t)) /\ ~Names(prog'[w], OfProject(t))
                                /\ \E j : JobsOf(t)' \subseteq JobsOf(t) \cup {j}
  <2>1. JobsOf(t)' \subseteq JobsOf(t) \cup {i}
    <3>1. \A j \in 1..Len(jobs') : j \in 1..Len(jobs) \/ j = i
      BY <1>2, NewJobs
    <3>2. QED
      BY <3>1, JobChange DEF JobsOf
  <2>2. jobs'[i].kind = OfProject(t)
    <3>1. jobs' \in Seq(ReadyJobs')
      BY SoundStep DEF Sound, Ready, TablesReady
    <3>2. jobs'[i] \in ReadyJobs'
      BY <3>1
    <3>3. jobs'[i].kind \in Kinds
      BY <3>2 DEF ReadyJobs, ReadyKinds
    <3>4. QED
      BY <1>2, <3>3, KindFacts DEF AssetTypes
  <2>3. PICK p \in Procs : Names(prog[p], OfProject(t)) /\ ~Names(prog'[p], OfProject(t))
    BY <1>2, <2>2, NewJobs
  <2>4. p \notin Clients
    <3>1. OfProject(t) \notin {OfProject("SCRIPT"), OfProject("SCENES")}
      BY KindFacts
    <3>2. QED
      BY <2>3, <3>1, ClientNames
  <2>5. QED
    BY <2>1, <2>3, <2>4 DEF Procs
<1>3. QED
  BY <1>1, <1>2

\* A handler that is past its artifact stays so, where nothing fails after it.
LEMMA MadeStays ==
    ASSUME "database" \notin Faults, Sound, [Next]_vars, NEW i \in 1..Len(jobs), Made(i)
    PROVE  Made(i)'
<1>1. CASE jobs[i].status = "SUCCEEDED"
  BY <1>1, JobChange DEF JobAfter, Made
<1>2. ASSUME NEW w \in Workers, cur[w] = i, pc[w] \in {"audios", "images", "calls", "done"}
      PROVE  Made(i)'
  <2>1. CASE pc'[w] = pc[w] /\ cur'[w] = cur[w]
    BY <1>2, <2>1 DEF Made
  <2>2. CASE Settles(w)
    <3>1. jobs' = [jobs EXCEPT ![i].status = "SUCCEEDED"]
      BY <1>2, <2>2 DEF Settles
    <3>2. jobs'[i].status = "SUCCEEDED"
      BY <3>1, StatusSet DEF Sound
    <3>3. QED
      BY <3>2 DEF Made
  <2>3. CASE pc'[w] \in {"images", "calls", "done"} /\ cur'[w] = cur[w]
    BY <1>2, <2>3 DEF Made
  <2>4. CASE WorkerStep(w) /\ ~Panic(w)
    BY <1>2, <2>2, <2>3, <2>4, PlacesAfter, NoPanic DEF Starts
  <2>5. QED
    BY <2>1, <2>4, WorkerMoves, NoPanic
<1>3. QED
  BY <1>1, <1>2 DEF Made

LEMMA AssetsMadeStep ==
    ASSUME "database" \notin Faults, Sound, Once, Unique, AssetsMade, [Next]_vars
    PROVE  AssetsMade'
<1> SUFFICES ASSUME NEW i \in 1..Len(jobs'), jobs'[i].kind \in Assets, rows'[jobs'[i].kind] > 0
             PROVE  Made(i)'
  BY DEF AssetsMade, Exists
<1> DEFINE k == jobs'[i].kind
<1>1. k \in Kinds /\ k \in LaterKinds /\ k \in EarlyKinds /\ k # OfProject("SCRIPT")
      /\ rows \in [Kinds -> Nat] /\ OfProject("SCRIPT") \in Kinds
  BY EarlyFacts, SingleFacts, KindFacts DEF Sound, Ready, TablesReady, EarlyKinds, LaterKinds
<1>2. CASE i \in 1..Len(jobs) /\ Exists(k)
  <2>1. jobs[i].kind = k
    BY <1>2, JobChange
  <2>2. Made(i)
    BY <1>2, <2>1 DEF AssetsMade
  <2>3. QED
    BY <1>2, <2>2, MadeStays
<1>3. CASE i \notin 1..Len(jobs)
  <2>1. PICK p \in Procs : Names(prog[p], k) /\ Submits(p)
    BY <1>3, NewJobs DEF Once
  <2>2. ~HasKind(k)
    BY <1>1, <2>1 DEF Unique, UniqueCalls
  <2>3. ~Exists(k)
    BY <1>1, <2>2 DEF Unique, MadeByJobs
  <2>4. UNCHANGED rows
    BY <2>1 DEF Submits, DoCreateJob, DoResetJob
  <2>5. QED
    BY <2>3, <2>4 DEF Exists
<1>4. CASE i \in 1..Len(jobs) /\ ~Exists(k)
  <2>1. rows'[k] # rows[k] /\ jobs[i].kind = k
    BY <1>1, <1>4, JobChange DEF Exists
  <2>2. PICK w \in Workers : Generate(w) /\ KindOf(w) \in Kinds
    BY <1>1, <2>1, RowsChange DEF DoSaveScript, Sound
  <2>3. KindOf(w) = k
    BY <1>1, <2>1, <2>2 DEF Generate
  <2>4. Starts(w)
    <3>1. UNCHANGED <<cur, jobs>> /\ Proceed(w) /\ pc[w] \in {"check", "generate"}
      BY <2>2 DEF Generate
    <3>2. QED
      BY <2>2, <3>1 DEF Starts
  <2>5. /\ cur'[w] = cur[w] /\ cur[w] \in 1..Len(jobs) /\ jobs[cur[w]].kind = k
        /\ pc'[w] \in {"audios", "calls"}
    BY <2>3, <2>4, StartFacts
  <2>6. UniqueJobs
    BY DEF Unique
  <2>7. i = cur[w]
    BY <1>1, <1>4, <2>1, <2>5, <2>6 DEF UniqueJobs
  <2>8. QED
    BY <2>5, <2>7 DEF Made
<1>5. QED
  BY <1>2, <1>3, <1>4

\* Once all assets exist no worker becomes late, and the one that enqueues the subtitles is
\* late no more.
LEMMA LateStep ==
    ASSUME "database" \notin Faults, Sound, Once, AssetsMade, AssetsExist, [Next]_vars
    PROVE  /\ Late' \subseteq Late
           /\ \A w \in Workers :
                Names(prog[w], OfProject("SUBTITLE")) /\ ~Names(prog'[w], OfProject("SUBTITLE"))
                => w \in Late /\ w \notin Late'
<1> DEFINE k == OfProject("SUBTITLE")
<1>1. ASSUME NEW w \in Workers, Names(prog'[w], k) PROVE w \in Late
  <2>1. CASE Names(prog[w], k)
    BY <2>1 DEF Late, Naming
  <2>2. CASE NamesNow(w, k)
    <3>1. \A t \in {"SCRIPT", "SCENES", "SUBTITLE", "RENDER", "REVIEW"} : k \notin Enqueued(t)
      BY KindFacts DEF Enqueued, FollowUps, Assets, VoiceKinds, ImageKinds
    <3>2. k \notin {OfProject("SCRIPT"), OfProject("SCENES")}
      BY KindFacts
    <3>3. pc[w] = "images"
      BY <2>2, <3>1, <3>2 DEF NamesNow, CountImages
    <3>4. QED
      BY <3>3 DEF Late
  <2>3. w \in Procs
    BY DEF Procs
  <2>4. QED
    BY <1>1, <2>1, <2>2, <2>3, NamesStep DEF Once
<1>2. ASSUME NEW w \in Workers, pc'[w] \in {"audios", "images"} PROVE pc[w] \in {"audios", "images"}
  <2>1. ASSUME Starts(w) PROVE FALSE
    <3>1. /\ cur[w] \in 1..Len(jobs) /\ jobs[cur[w]].kind \in Kinds /\ cur[w] # 0
          /\ jobs[cur[w]].kind.type \in AssetTypes /\ pc[w] \in {"check", "generate"}
      BY <1>2, <2>1, StartFacts DEF Starts
    <3>2. jobs[cur[w]].kind \in Assets
      BY <3>1, KindFacts DEF Kinds, Assets, VoiceKinds, ImageKinds, AssetTypes
    <3>3. Exists(jobs[cur[w]].kind)
      BY <3>2, SingleFacts
    <3>4. Made(cur[w])
      BY <3>1, <3>2, <3>3 DEF AssetsMade
    <3>5. jobs[cur[w]].status = "RUNNING" /\ \A v \in Workers : cur[v] = cur[w] => v = w
      BY <3>1 DEF Sound, Delivery, HeldOK
    <3>6. QED
      BY <3>1, <3>4, <3>5 DEF Made
  <2>2. CASE pc'[w] = pc[w]
    BY <1>2, <2>2
  <2>3. CASE WorkerStep(w) /\ ~Panic(w)
    BY <1>2, <2>1, <2>3, PlacesAfter
  <2>4. QED
    BY <1>2, <2>2, <2>3, WorkerMoves
<1>3. Late' \subseteq Late
  <2> SUFFICES ASSUME NEW w \in Workers, Names(prog'[w], k) \/ pc'[w] \in {"audios", "images"}
               PROVE  w \in Late
    BY DEF Late, Naming
  <2>1. QED
    BY <1>1, <1>2 DEF Late
<1>4. ASSUME NEW w \in Workers, Names(prog[w], k), ~Names(prog'[w], k)
      PROVE  w \in Late /\ w \notin Late'
  <2>1. pc[w] = "calls"
    <3>1. \E n \in 1..Len(prog[w]) : TRUE
      BY <1>4 DEF Names
    <3>2. prog[w] # <<>>
      BY <3>1
    <3>3. QED
      BY <3>2 DEF Sound, Delivery, PlacesOK
  <2>2. pc'[w] \notin {"audios", "images"}
    BY <1>2, <2>1
  <2>3. QED
    BY <1>4, <2>2 DEF Late, Naming
<1>5. QED
  BY <1>3, <1>4

LEMMA StageJobsFinite ==
    ASSUME Sound, NEW t
    PROVE  IsFiniteSet(JobsOf(t)) /\ Back(t) \subseteq JobsOf(t) /\ IsFiniteSet(Back(t))
<1>1. IsFiniteSet(1..Len(jobs)) /\ JobsOf(t) \subseteq 1..Len(jobs) /\ Back(t) \subseteq JobsOf(t)
  BY FS_Interval DEF Sound, Ready, TablesReady, JobsOf, Back
<1>2. Back(t) \subseteq 1..Len(jobs)
  BY <1>1
<1>3. QED
  BY <1>1, <1>2, FS_Subset

LEMMA SubtitlesBounded ==
    ASSUME IsFiniteSet(Workers), "database" \notin Faults, Sound, Once, Bounded, [Next]_vars,
           AssetsExist'
    PROVE  Cardinality(JobsOf("SUBTITLE")') + Cardinality(Late') <= Cardinality(Workers)
<1>1. IsFiniteSet(JobsOf("SUBTITLE")) /\ Late \subseteq Workers /\ Late' \subseteq Workers
      /\ IsFiniteSet(Late)
  <2>1. Late \subseteq Workers /\ Late' \subseteq Workers
    BY DEF Late, Naming
  <2>2. QED
    BY <2>1, StageJobsFinite, FS_Subset
<1>2. CASE ~AssetsExist
  <2>1. JobsOf("SUBTITLE") = {}
    <3>1. ~HasJob("SUBTITLE")
      BY <1>2, StageKinds DEF Once, CountsOK
    <3>2. QED
      BY <3>1 DEF HasJob, JobsOf
  <2>2. JobsOf("SUBTITLE")' \subseteq {}
    <3>1. \A w \in Workers : ~Names(prog[w], OfProject("SUBTITLE"))
      BY <1>2 DEF Once, CountsOK, Procs
    <3>2. QED
      BY <2>1, <3>1, StageJobs DEF Once, Bounded
  <2>3. Cardinality(JobsOf("SUBTITLE")') = 0
    BY <2>2, FS_EmptySet
  <2>4. Cardinality(Late') \in Nat /\ Cardinality(Late') <= Cardinality(Workers)
    BY <1>1, NoMore
  <2>5. QED
    BY <2>3, <2>4
<1>3. CASE AssetsExist
  <2>1. Cardinality(JobsOf("SUBTITLE")) + Cardinality(Late) <= Cardinality(Workers)
        /\ Cardinality(Workers) \in Nat
    BY <1>3, FS_CardinalityType DEF Bounded
  <2>2. Late' \subseteq Late
    BY <1>3, LateStep DEF Bounded
  <2>3. CASE JobsOf("SUBTITLE")' \subseteq JobsOf("SUBTITLE")
    <3>1. /\ Cardinality(JobsOf("SUBTITLE")') <= Cardinality(JobsOf("SUBTITLE"))
          /\ Cardinality(JobsOf("SUBTITLE")') \in Nat /\ Cardinality(JobsOf("SUBTITLE")) \in Nat
      BY <1>1, <2>3, NoMore
    <3>2. Cardinality(Late') <= Cardinality(Late) /\ Cardinality(Late') \in Nat
          /\ Cardinality(Late) \in Nat
      BY <1>1, <2>2, NoMore
    <3>3. QED
      BY <2>1, <3>1, <3>2
  <2>4. ASSUME NEW w \in Workers, NEW i, Names(prog[w], OfProject("SUBTITLE")),
               ~Names(prog'[w], OfProject("SUBTITLE")),
               JobsOf("SUBTITLE")' \subseteq JobsOf("SUBTITLE") \cup {i}
        PROVE  Cardinality(JobsOf("SUBTITLE")') + Cardinality(Late') <= Cardinality(Workers)
    <3>1. w \in Late /\ Late' \subseteq Late \ {w}
      BY <1>3, <2>2, <2>4, LateStep DEF Bounded
    <3>2. /\ Cardinality(JobsOf("SUBTITLE")') <= Cardinality(JobsOf("SUBTITLE")) + 1
          /\ Cardinality(JobsOf("SUBTITLE")') \in Nat /\ Cardinality(JobsOf("SUBTITLE")) \in Nat
      BY <1>1, <2>4, OneMore
    <3>3. Cardinality(Late') + 1 <= Cardinality(Late) /\ Cardinality(Late') \in Nat
          /\ Cardinality(Late) \in Nat
      BY <1>1, <3>1, OneLess
    <3>4. QED
      BY <2>1, <3>2, <3>3
  <2>5. QED
    BY <2>3, <2>4, StageJobs DEF Once, Bounded
<1>4. QED
  BY <1>2, <1>3

\* The stages after the subtitles.
LEMMA NextStages ==
    ASSUME NEW type \in {"SUBTITLE", "RENDER"}, NEW k \in FollowUps(type)
    PROVE  /\ k \in Kinds /\ k.type \in {"RENDER", "REVIEW"} /\ k = OfProject(k.type)
           /\ k # OfProject("SUBTITLE") /\ k \notin {OfProject("SCRIPT"), OfProject("SCENES")}
           /\ \A t \in {"SCRIPT", "SCENES", "SUBTITLE", "RENDER", "REVIEW"} :
                k \in Enqueued(t) => t = type
<1>1. \/ type = "SUBTITLE" /\ k = OfProject("RENDER")
      \/ type = "RENDER" /\ k = OfProject("REVIEW")
  BY DEF FollowUps
<1>2. /\ OfProject("RENDER").type = "RENDER" /\ OfProject("REVIEW").type = "REVIEW"
      /\ OfProject("RENDER") \in Kinds /\ OfProject("REVIEW") \in Kinds
  BY KindFacts
<1>3. k \notin Assets
  BY <1>1, <1>2, EarlyFacts DEF AssetTypes
<1>4. /\ k \in Kinds /\ k.type \in {"RENDER", "REVIEW"} /\ k = OfProject(k.type)
      /\ k # OfProject("SUBTITLE") /\ k \notin {OfProject("SCRIPT"), OfProject("SCENES")}
  BY <1>1, <1>2, KindFacts
<1>5. ASSUME NEW t \in {"SCRIPT", "SCENES", "SUBTITLE", "RENDER", "REVIEW"}, k \in Enqueued(t)
      PROVE  t = type
  <2>1. k \in FollowUps(t)
    BY <1>3, <1>5 DEF Enqueued
  <2>2. /\ FollowUps("SCRIPT") = {OfProject("SCENES")} /\ FollowUps("SCENES") = {}
        /\ FollowUps("SUBTITLE") = {OfProject("RENDER")} /\ FollowUps("REVIEW") = {}
        /\ FollowUps("RENDER") = {OfProject("REVIEW")}
    BY DEF FollowUps
  <2>3. t \in {"SUBTITLE", "RENDER"}
    BY <1>4, <1>5, <2>1, <2>2
  <2>4. QED
    BY <1>1, <1>2, <2>1, <2>2, <2>3
<1>6. QED
  BY <1>4, <1>5

LEMMA FollowersBounded ==
    ASSUME "database" \notin Faults, Sound, Once, Bounded, [Next]_vars, IsFiniteSet(Workers),
           NEW type \in {"SUBTITLE", "RENDER"}, NEW k \in FollowUps(type)
    PROVE  Cardinality(JobsOf(k.type)') + Cardinality(Naming(k)') <= Cardinality(Back(type)')
<1>1. /\ IsFiniteSet(JobsOf(k.type)) /\ IsFiniteSet(Naming(k))
      /\ IsFiniteSet(Back(type)) /\ IsFiniteSet(Back(type)')
  <2>1. Naming(k) \subseteq Workers
    BY DEF Naming
  <2>2. IsFiniteSet(Back(type)')
    <3>1. Len(jobs') \in Nat
      BY JobChange
    <3>2. IsFiniteSet(1..Len(jobs'))
      BY <3>1, FS_Interval
    <3>3. Back(type)' \subseteq 1..Len(jobs')
      BY DEF Back, JobsOf
    <3>4. QED
      BY <3>2, <3>3, FS_Subset
  <2>3. QED
    BY <2>1, <2>2, StageJobsFinite, FS_Subset
<1>2. Back(type) \subseteq Back(type)'
  <2> SUFFICES ASSUME NEW i \in 1..Len(jobs), jobs[i].kind.type = type, CalledBack(i)
               PROVE  i \in 1..Len(jobs') /\ jobs'[i].kind.type = type /\ CalledBack(i)'
    BY DEF Back, JobsOf
  <2>1. QED
    BY JobChange, CalledBackStep
<1>3. /\ Cardinality(JobsOf(k.type)) + Cardinality(Naming(k)) <= Cardinality(Back(type))
      /\ Cardinality(JobsOf(k.type)) \in Nat /\ Cardinality(Naming(k)) \in Nat
      /\ Cardinality(Back(type)) \in Nat /\ Cardinality(Back(type)') \in Nat
      /\ Cardinality(Back(type)) <= Cardinality(Back(type)')
  BY <1>1, <1>2, NoMore DEF Bounded
<1>4. ASSUME NEW w \in Workers, Names(prog'[w], k), ~Names(prog[w], k)
      PROVE  /\ \A v \in Workers : v # w => prog'[v] = prog[v]
             /\ \E i : i \in Back(type)' /\ i \notin Back(type)
             /\ JobsOf(k.type)' \subseteq JobsOf(k.type)
  <2>1. Starts(w) /\ KindOf(w).type = type
    <3>1. w \in Procs
      BY DEF Procs
    <3>2. NamesNow(w, k)
      BY <1>4, <3>1, NamesStep DEF Once
    <3>3. QED
      BY <3>2, NextStages DEF NamesNow
  <2>2. prog'[w] # prog[w]
    BY <1>4
  <2>3. \A v \in Workers : v # w => prog'[v] = prog[v]
    BY <2>2, OneMoves
  <2>4. /\ cur'[w] = cur[w] /\ cur[w] \in 1..Len(jobs) /\ jobs[cur[w]].kind.type = type
        /\ pc'[w] = "calls" /\ UNCHANGED jobs /\ pc[w] \in {"check", "generate"}
    BY <2>1, StartFacts DEF Starts, AssetTypes
  <2>5. cur[w] \notin Back(type)
    <3>1. jobs[cur[w]].status = "RUNNING" /\ \A v \in Workers : cur[v] = cur[w] => v = w
      BY <2>4 DEF Sound, Delivery, HeldOK
    <3>2. QED
      BY <2>4, <3>1 DEF Back, CalledBack
  <2>6. cur[w] \in Back(type)'
    <3>1. PICK i \in 1..Len(jobs') : i = cur[w]
      BY <2>4
    <3>2. CalledBack(i)' /\ jobs'[i].kind.type = type
      BY <2>4, <3>1 DEF CalledBack
    <3>3. QED
      BY <3>1, <3>2 DEF Back, JobsOf
  <2>7. QED
    BY <2>3, <2>4, <2>5, <2>6 DEF JobsOf
<1>5. CASE \E w \in Workers : Names(prog'[w], k) /\ ~Names(prog[w], k)
  <2>1. PICK w \in Workers : Names(prog'[w], k) /\ ~Names(prog[w], k)
    BY <1>5
  <2>2. PICK i : i \in Back(type)' /\ i \notin Back(type)
    BY <1>4, <2>1
  <2>3. Cardinality(Back(type)) + 1 <= Cardinality(Back(type)')
    BY <1>1, <1>2, <2>2, OneLess
  <2>4. Naming(k)' \subseteq Naming(k) \cup {w} /\ JobsOf(k.type)' \subseteq JobsOf(k.type)
    BY <1>4, <2>1 DEF Naming
  <2>5. /\ Cardinality(Naming(k)') <= Cardinality(Naming(k)) + 1 /\ Cardinality(Naming(k)') \in Nat
    BY <1>1, <2>4, OneMore
  <2>6. /\ Cardinality(JobsOf(k.type)') <= Cardinality(JobsOf(k.type))
        /\ Cardinality(JobsOf(k.type)') \in Nat
    BY <1>1, <2>4, NoMore
  <2>7. QED
    BY <1>3, <2>3, <2>5, <2>6
<1>6. CASE \A w \in Workers : Names(prog'[w], k) => Names(prog[w], k)
  <2>1. Naming(k)' \subseteq Naming(k)
    BY <1>6 DEF Naming
  <2>2. CASE JobsOf(k.type)' \subseteq JobsOf(k.type)
    <3>1. /\ Cardinality(JobsOf(k.type)') <= Cardinality(JobsOf(k.type))
          /\ Cardinality(JobsOf(k.type)') \in Nat
      BY <1>1, <2>2, NoMore
    <3>2. Cardinality(Naming(k)') <= Cardinality(Naming(k)) /\ Cardinality(Naming(k)') \in Nat
      BY <1>1, <2>1, NoMore
    <3>3. QED
      BY <1>3, <3>1, <3>2
  <2>3. ASSUME NEW w \in Workers, NEW i, Names(prog[w], k), ~Names(prog'[w], k),
               JobsOf(k.type)' \subseteq JobsOf(k.type) \cup {i}
        PROVE  Cardinality(JobsOf(k.type)') + Cardinality(Naming(k)') <= Cardinality(Back(type)')
    <3>1. w \in Naming(k) /\ Naming(k)' \subseteq Naming(k) \ {w}
      BY <2>1, <2>3 DEF Naming
    <3>2. Cardinality(Naming(k)') + 1 <= Cardinality(Naming(k)) /\ Cardinality(Naming(k)') \in Nat
      BY <1>1, <3>1, OneLess
    <3>3. /\ Cardinality(JobsOf(k.type)') <= Cardinality(JobsOf(k.type)) + 1
          /\ Cardinality(JobsOf(k.type)') \in Nat
      BY <1>1, <2>3, OneMore
    <3>4. QED
      BY <1>3, <3>2, <3>3
  <2>4. k.type \in {"SUBTITLE", "RENDER", "REVIEW"} /\ k = OfProject(k.type)
    BY NextStages
  <2>5. QED
    BY <2>2, <2>3, <2>4, StageJobs DEF Once, Bounded
<1>7. QED
  BY <1>5, <1>6

LEMMA BoundedStep ==
    ASSUME IsFiniteSet(Workers), "database" \notin Faults, Sound, Once, Unique, Bounded, [Next]_vars
    PROVE  Bounded'
<1>1. ClientsOK' /\ AssetsMade'
  BY ClientsOKStep, AssetsMadeStep DEF Bounded
<1>2. AssetsExist' =>
         Cardinality(JobsOf("SUBTITLE")') + Cardinality(Late') <= Cardinality(Workers)
  BY SubtitlesBounded
<1>3. \A type \in {"SUBTITLE", "RENDER"} : \A k \in FollowUps(type) :
         Cardinality(JobsOf(k.type)') + Cardinality(Naming(k)') <= Cardinality(Back(type)')
  BY FollowersBounded
<1>4. QED
  BY <1>1, <1>2, <1>3 DEF Bounded

LEMMA BoundedInit ==
    ASSUME IsFiniteSet(Workers), Init
    PROVE  Bounded
<1>1. Len(jobs) = 0 /\ \A k : Naming(k) = {}
  BY DEF Init, Naming, Names, Procs
<1>2. /\ \A t : JobsOf(t) = {} /\ Back(t) = {}
      /\ Late = {}
  BY <1>1 DEF Init, JobsOf, Back, Late
<1>3. Cardinality({}) = 0 /\ Cardinality(Workers) \in Nat
  BY FS_EmptySet, FS_CardinalityType
<1>4. ClientsOK /\ AssetsMade
  BY <1>1, SeqFacts DEF Init, ClientsOK, Procs, AssetsMade
<1>5. Cardinality(JobsOf("SUBTITLE")) + Cardinality(Late) <= Cardinality(Workers)
  BY <1>2, <1>3
<1>6. ASSUME NEW type, NEW k
      PROVE  Cardinality(JobsOf(k.type)) + Cardinality(Naming(k)) <= Cardinality(Back(type))
  <2>1. JobsOf(k.type) = {} /\ Naming(k) = {} /\ Back(type) = {}
    BY <1>1, <1>2
  <2>2. QED
    BY <1>3, <2>1
<1>7. QED
  BY <1>4, <1>5, <1>6 DEF Bounded

\* While no call of a callback fails, each later stage is enqueued at most once for each
\* worker: only as many workers as count the last assets at the same time find them complete,
\* and a job of a stage calls back, and so enqueues the next one, once.
THEOREM StagesBounded ==
    ASSUME IsFiniteSet(Workers), "database" \notin Faults
    PROVE  Spec => []StageJobsBounded
<1>1. Init => Bounded
  BY BoundedInit
<1>2. Sound /\ Once /\ Unique /\ Bounded /\ [Next]_vars => Bounded'
  BY BoundedStep
<1>3. Sound /\ Once /\ Bounded => StageJobsBounded
  <2> SUFFICES ASSUME Sound, Once, Bounded PROVE StageJobsBounded
    OBVIOUS
  <2>1. Cardinality(JobsOf("SUBTITLE")) <= Cardinality(Workers)
        /\ Cardinality(JobsOf("SUBTITLE")) \in Nat /\ Cardinality(Workers) \in Nat
    <3>1. Cardinality(JobsOf("SUBTITLE")) \in Nat /\ Cardinality(Workers) \in Nat
      BY StageJobsFinite, FS_CardinalityType
    <3>2. CASE AssetsExist
      <4>1. Late \subseteq Workers
        BY DEF Late, Naming
      <4>2. Cardinality(Late) \in Nat
        BY <4>1, NoMore
      <4>3. QED
        BY <3>1, <3>2, <4>2 DEF Bounded
    <3>3. CASE ~AssetsExist
      <4>1. ~HasJob("SUBTITLE")
        BY <3>3, StageKinds DEF Once, CountsOK
      <4>2. JobsOf("SUBTITLE") = {}
        BY <4>1 DEF HasJob, JobsOf
      <4>3. QED
        BY <3>1, <4>2, FS_EmptySet
    <3>4. QED
      BY <3>1, <3>2, <3>3
  <2>2. ASSUME NEW type \in {"SUBTITLE", "RENDER"}, NEW k \in FollowUps(type)
        PROVE  /\ Cardinality(JobsOf(k.type)) <= Cardinality(JobsOf(type))
               /\ Cardinality(JobsOf(k.type)) \in Nat /\ Cardinality(JobsOf(type)) \in Nat
    <3>1. Naming(k) \subseteq Workers
      BY DEF Naming
    <3>2. Cardinality(Naming(k)) \in Nat
      BY <3>1, NoMore
    <3>3. Cardinality(Back(type)) <= Cardinality(JobsOf(type)) /\ Cardinality(Back(type)) \in Nat
          /\ Cardinality(JobsOf(type)) \in Nat /\ Cardinality(JobsOf(k.type)) \in Nat
      BY StageJobsFinite, NoMore, FS_CardinalityType
    <3>4. QED
      BY <3>2, <3>3 DEF Bounded
  <2>3. /\ OfProject("RENDER") \in FollowUps("SUBTITLE") /\ OfProject("RENDER").type = "RENDER"
        /\ OfProject("REVIEW") \in FollowUps("RENDER") /\ OfProject("REVIEW").type = "REVIEW"
    BY KindFacts DEF FollowUps
  <2>4. /\ Cardinality(JobsOf("RENDER")) <= Cardinality(JobsOf("SUBTITLE"))
        /\ Cardinality(JobsOf("REVIEW")) <= Cardinality(JobsOf("RENDER"))
        /\ Cardinality(JobsOf("RENDER")) \in Nat /\ Cardinality(JobsOf("REVIEW")) \in Nat
    BY <2>2, <2>3
  <2>5. QED
    BY <2>1, <2>4 DEF StageJobsBounded
<1>4. QED
  BY <1>1, <1>2, <1>3, NoErrorOnce, PTL DEF Spec
=============================================================================
