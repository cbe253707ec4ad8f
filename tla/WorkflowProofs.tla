----------------------------- MODULE WorkflowProofs -----------------------------
(***************************************************************************)
(* Proofs about Workflow, for any number of workers, requests and scenes,  *)
(* and every choice of what may fail.                                      *)
(***************************************************************************)
EXTENDS Workflow, FiniteSetTheorems, TLAPS

-----------------------------------------------------------------------------
(* Calls that are in order: what is enqueued has its prerequisites, and a  *)
(* status of the review comes after the render.                            *)

ReviewStatuses == {"IN_REVIEW"} \cup Decided
OtherStatuses == {"NONE", "FAILED"}   \* written by no call of a program
PlainStatuses == Statuses \ (ReviewStatuses \cup OtherStatuses)

\* The artifacts that a job of some type presupposes.
Prerequisites(type) ==
    CASE type = "SCENES"                         -> {OfProject("SCRIPT")}
      [] type \in {"VOICE", "IMAGE", "SUBTITLE"} -> {OfProject("SCENES")}
      [] type = "RENDER"                         -> {OfProject("SUBTITLE")}
      [] type = "REVIEW"                         -> {OfProject("RENDER")}
      [] OTHER                                   -> {}

ReadyKinds == {k \in Kinds : \A a \in Prerequisites(k.type) : Exists(a)}
ReadyStatuses == PlainStatuses \cup IF Exists(OfProject("RENDER")) THEN ReviewStatuses ELSE {}

\* The calls of a program that enqueues kinds K, writes statuses S and resets and
\* pushes the jobs 1..n.
Calls(K, S, n) ==
    [call : {"status"}, status : S] \cup [call : {"enqueue"}, kind : K]
        \cup [call : {"requeue", "push"}, id : 1..n]
        \cup [call : {"restore"}, type : {k.type : k \in Kinds}]

ReadyCalls == Calls(ReadyKinds, ReadyStatuses, Len(jobs))

\* CreateProject of a project with a script: the script is saved first.
UserScript == <<SaveScript>> \o OnScriptGenerated

ReadyJobs ==
    [kind : ReadyKinds, status : {"QUEUED", "RUNNING", "SUCCEEDED", "FAILED"}, attempts : Nat]

\* The inductive invariant.
TablesReady ==
    /\ rows \in [Kinds -> Nat]
    /\ status \in ReadyStatuses \cup OtherStatuses
    /\ jobs \in Seq(ReadyJobs)
    /\ pending \in Seq(1..Len(jobs))
WorkersReady ==
    /\ pc \in [Workers -> WorkerPc]
    /\ cur \in [Workers -> Nat]
    /\ \A w \in Workers :
         /\ pc[w] \notin {"idle", "failed"} => cur[w] \in 1..Len(jobs)
         /\ pc[w] \in {"audios", "images"} => jobs[cur[w]].kind.type \in AssetTypes
         /\ pc[w] = "calls" => prog[w] # <<>>
ProgramsReady == prog \in [Procs -> Seq(ReadyCalls) \cup {UserScript}]

Ready == TablesReady /\ WorkersReady /\ ProgramsReady

-----------------------------------------------------------------------------
(* Data.                                                                   *)

\* Kinds by their type, as the handlers tell them apart.
LEMMA KindFacts ==
    /\ \A t \in {"SCRIPT", "SCENES", "SUBTITLE", "RENDER", "REVIEW"} :
         OfProject(t) \in Kinds /\ OfProject(t).type = t
    /\ \A s \in Scenes : /\ Voice(s) \in Kinds /\ Voice(s).type = "VOICE"
                         /\ Image(s) \in Kinds /\ Image(s).type = "IMAGE"
    /\ \A k \in Kinds : \/ k.type \in AssetTypes
                        \/ /\ k.type \in {"SCRIPT", "SCENES", "SUBTITLE", "RENDER", "REVIEW"}
                           /\ k = OfProject(k.type)
<1>1. ASSUME NEW t \in {"SCRIPT", "SCENES", "SUBTITLE", "RENDER", "REVIEW"}
      PROVE  OfProject(t) \in Kinds /\ OfProject(t).type = t
  BY DEF Kinds, OfProject
<1>2. ASSUME NEW s \in Scenes
      PROVE  /\ Voice(s) \in Kinds /\ Voice(s).type = "VOICE"
             /\ Image(s) \in Kinds /\ Image(s).type = "IMAGE"
  BY DEF Kinds, Voice, Image
<1>3. ASSUME NEW k \in Kinds
      PROVE  \/ k.type \in AssetTypes
             \/ /\ k.type \in {"SCRIPT", "SCENES", "SUBTITLE", "RENDER", "REVIEW"}
                /\ k = OfProject(k.type)
  <2>1. CASE \E s \in Scenes : k = Voice(s) \/ k = Image(s)
    BY <1>2, <2>1 DEF AssetTypes
  <2>2. CASE \E t \in {"SCRIPT", "SCENES", "SUBTITLE", "RENDER", "REVIEW"} : k = OfProject(t)
    BY <1>1, <2>2
  <2>3. QED
    BY <2>1, <2>2 DEF Kinds
<1>4. QED
  BY <1>1, <1>2, <1>3

LEMMA StatusFacts ==
    /\ PlainStatuses = {"CREATED", "SCRIPT_GENERATING", "SCRIPT_READY", "SCENES_GENERATING",
          "SCENES_READY", "VOICE_GENERATING", "ASSETS_READY", "SUBTITLES_GENERATING",
          "SUBTITLES_READY", "RENDERING", "RENDER_READY"}
    /\ ReviewStatuses = {"IN_REVIEW", "APPROVED", "REJECTED"}
BY DEF PlainStatuses, ReviewStatuses, OtherStatuses, Statuses, Decided

\* What a call of a program may be.
LEMMA CallFacts ==
    ASSUME NEW K, NEW S, NEW n \in Nat, NEW op \in Calls(K, S, n)
    PROVE  /\ op.call \in {"status", "enqueue", "requeue", "push", "restore"}
           /\ op.call = "status" => op.status \in S
           /\ op.call = "enqueue" => op.kind \in K
           /\ op.call \in {"requeue", "push"} => op.id \in 1..n
           /\ op.call = "restore" => \E k \in Kinds : op.type = k.type
BY DEF Calls

LEMMA CallIn ==
    ASSUME NEW K, NEW S, NEW n \in Nat
    PROVE  /\ \A s \in S : SetStatus(s) \in Calls(K, S, n)
           /\ \A k \in K : Enqueue(k) \in Calls(K, S, n)
           /\ \A i \in 1..n : Requeue(i) \in Calls(K, S, n) /\ Push(i) \in Calls(K, S, n)
           /\ \A k \in Kinds : Restore(k.type) \in Calls(K, S, n)
BY DEF Calls, SetStatus, Enqueue, Requeue, Push, Restore

LEMMA SeqFacts ==
    ASSUME NEW S
    PROVE  /\ <<>> \in Seq(S)
           /\ \A a \in S : <<a>> \in Seq(S)
           /\ \A a, b \in S : <<a, b>> \in Seq(S)
           /\ \A s, t \in Seq(S) : s \o t \in Seq(S)
           /\ \A s \in Seq(S), a \in S : Append(s, a) \in Seq(S)
           /\ \A s \in Seq(S) : s # <<>> => Head(s) \in S /\ Tail(s) \in Seq(S)
OBVIOUS

-----------------------------------------------------------------------------
(* Programs are in order.                                                  *)

\* The calls of each program are in order if its first ones are.
LEMMA ProjectPrograms ==
    ASSUME NEW K, NEW S, NEW n \in Nat, PlainStatuses \subseteq S
    PROVE  /\ OfProject("SCRIPT") \in K =>
                EnqueueThenStatus("SCRIPT", "SCRIPT_GENERATING") \in Seq(Calls(K, S, n))
           /\ OfProject("SCENES") \in K => OnScriptGenerated \in Seq(Calls(K, S, n))
           /\ OfProject("SUBTITLE") \in K => OnAssetsComplete \in Seq(Calls(K, S, n))
           /\ OfProject("RENDER") \in K => OnSubtitlesGenerated \in Seq(Calls(K, S, n))
           /\ OfProject("REVIEW") \in K => OnRenderComplete \in Seq(Calls(K, S, n))
           /\ "IN_REVIEW" \in S => OnReviewPackageReady \in Seq(Calls(K, S, n))
<1> DEFINE C == Calls(K, S, n)
<1> HIDE DEF C
<1>1. ASSUME NEW type, OfProject(type) \in K, NEW s \in PlainStatuses
      PROVE  EnqueueThenStatus(type, s) \in Seq(C)
  <2>1. Enqueue(OfProject(type)) \in C /\ SetStatus(s) \in C
    BY <1>1, CallIn DEF C
  <2>2. QED
    BY <2>1, SeqFacts DEF EnqueueThenStatus
<1>2. \A s \in PlainStatuses : <<SetStatus(s)>> \in Seq(C)
  BY CallIn, SeqFacts DEF C
<1>3. OfProject("SCRIPT") \in K => EnqueueThenStatus("SCRIPT", "SCRIPT_GENERATING") \in Seq(C)
  BY <1>1, StatusFacts
<1>4. OfProject("SCENES") \in K => OnScriptGenerated \in Seq(C)
  BY <1>1, <1>2, StatusFacts, SeqFacts DEF OnScriptGenerated
<1>5. OfProject("SUBTITLE") \in K => OnAssetsComplete \in Seq(C)
  BY <1>1, <1>2, StatusFacts, SeqFacts DEF OnAssetsComplete
<1>6. OfProject("RENDER") \in K => OnSubtitlesGenerated \in Seq(C)
  BY <1>1, <1>2, StatusFacts, SeqFacts DEF OnSubtitlesGenerated
<1>7. OfProject("REVIEW") \in K => OnRenderComplete \in Seq(C)
  <2>1. OfProject("REVIEW") \in K => Enqueue(OfProject("REVIEW")) \in C
    BY CallIn DEF C
  <2>2. SetStatus("RENDER_READY") \in C
    BY CallIn, StatusFacts DEF C
  <2>3. QED
    BY <2>1, <2>2, SeqFacts DEF OnRenderComplete
<1>8. "IN_REVIEW" \in S => OnReviewPackageReady \in Seq(C)
  BY CallIn, SeqFacts DEF C, OnReviewPackageReady
<1>9. QED
  BY <1>3, <1>4, <1>5, <1>6, <1>7, <1>8 DEF C

\* The scenes are numbered, also when there are none.
LEMMA ListLength ==
    ASSUME NEW list \in {Scenes, {}}
    PROVE  Cardinality(list) \in Nat /\ list = 1..Cardinality(list)
<1>1. CASE list = {}
  BY <1>1, FS_EmptySet
<1>2. CASE list = Scenes
  <2>1. Cardinality(1..NumScenes) = NumScenes /\ NumScenes \in Nat
    BY FS_Interval, WorkflowAssumption
  <2>2. QED
    BY <1>2, <2>1 DEF Scenes
<1>3. QED
  BY <1>1, <1>2

\* OnScenesGenerated, for the scenes of the project and for none.
LEMMA ScenesProgram ==
    ASSUME NEW K, NEW S, NEW n \in Nat, PlainStatuses \subseteq S,
           NEW list \in {Scenes, {}}, \A s \in list : Voice(s) \in K /\ Image(s) \in K
    PROVE  OnScenesGenerated(list) \in Seq(Calls(K, S, n))
<1> DEFINE C == Calls(K, S, n)
<1> HIDE DEF C
<1>1. Cardinality(list) \in Nat /\ list = 1..Cardinality(list)
  BY ListLength
<1>2. ASSUME NEW i \in 1..(2 * Cardinality(list))
      PROVE  Enqueue(IF i % 2 = 1 THEN Voice((i + 1) \div 2) ELSE Image(i \div 2)) \in C
  <2>1. CASE i % 2 = 1
    <3>1. (i + 1) \div 2 \in 1..Cardinality(list)
      BY <1>1, <2>1
    <3>2. QED
      BY <1>1, <2>1, <3>1, CallIn DEF C
  <2>2. CASE i % 2 # 1
    <3>1. i \div 2 \in 1..Cardinality(list)
      BY <1>1, <2>2
    <3>2. QED
      BY <1>1, <2>2, <3>1, CallIn DEF C
  <2>3. QED
    BY <2>1, <2>2
<1>3. AssetJobs(list) \in Seq(C)
  BY <1>1, <1>2 DEF AssetJobs
<1>4. <<SetStatus("SCENES_READY")>> \in Seq(C) /\ <<SetStatus("VOICE_GENERATING")>> \in Seq(C)
  BY CallIn, StatusFacts, SeqFacts DEF C
<1>5. QED
  BY <1>3, <1>4, SeqFacts DEF OnScenesGenerated, C

-----------------------------------------------------------------------------
(* Artifacts and jobs are added and never removed, so what is in order      *)
(* stays in order.                                                          *)

Grows ==
    /\ rows' \in [Kinds -> Nat]
    /\ \A k \in Kinds : rows[k] <= rows'[k]
    /\ Len(jobs') \in Nat /\ Len(jobs) <= Len(jobs')
    /\ \A i \in 1..Len(jobs) : jobs'[i].kind = jobs[i].kind

LEMMA PrerequisiteKinds == \A k \in Kinds : Prerequisites(k.type) \subseteq Kinds
BY KindFacts DEF Prerequisites

LEMMA GrowthKeeps ==
    ASSUME TablesReady, Grows
    PROVE  /\ \A k \in Kinds : Exists(k) => Exists(k)'
           /\ ReadyKinds \subseteq ReadyKinds' /\ ReadyStatuses \subseteq ReadyStatuses'
           /\ ReadyJobs \subseteq ReadyJobs' /\ ReadyCalls \subseteq ReadyCalls'
           /\ Seq(ReadyJobs) \subseteq Seq(ReadyJobs') /\ Seq(ReadyCalls) \subseteq Seq(ReadyCalls')
           /\ Seq(1..Len(jobs)) \subseteq Seq(1..Len(jobs'))
<1>1. \A k \in Kinds : Exists(k) => Exists(k)'
  BY DEF TablesReady, Grows, Exists
<1>2. ReadyKinds \subseteq ReadyKinds'
  BY <1>1, PrerequisiteKinds DEF ReadyKinds
<1>3. ReadyStatuses \subseteq ReadyStatuses'
  BY <1>1, KindFacts DEF ReadyStatuses
<1>4. Len(jobs) \in Nat /\ 1..Len(jobs) \subseteq 1..Len(jobs')
  BY DEF TablesReady, Grows
<1>5. ReadyJobs \subseteq ReadyJobs'
  BY <1>2 DEF ReadyJobs
<1>6. ReadyCalls \subseteq ReadyCalls'
  BY <1>2, <1>3, <1>4 DEF ReadyCalls, Calls
<1>7. \A S, T : S \subseteq T => Seq(S) \subseteq Seq(T)
  OBVIOUS
<1>8. QED
  BY <1>1, <1>2, <1>3, <1>4, <1>5, <1>6, <1>7, Zenon

\* A step that changes at most the program of one process.
LEMMA ProgramKept ==
    ASSUME TablesReady, Grows, ProgramsReady, NEW p \in Procs,
           NEW q \in Seq(ReadyCalls') \cup {UserScript}, prog' = [prog EXCEPT ![p] = q]
    PROVE  ProgramsReady'
BY GrowthKeeps DEF ProgramsReady

\* A step that changes at most the place, the job and the program of worker w.
LEMMA WorkerKept ==
    ASSUME TablesReady, Grows, WorkersReady, NEW w \in Workers,
           NEW s \in WorkerPc, pc' = [pc EXCEPT ![w] = s],
           NEW c \in Nat, cur' = [cur EXCEPT ![w] = c],
           \A v \in Workers \ {w} : prog'[v] = prog[v],
           s \notin {"idle", "failed"} => c \in 1..Len(jobs'),
           s \in {"audios", "images"} => jobs'[c].kind.type \in AssetTypes,
           s = "calls" => prog'[w] # <<>>
    PROVE  WorkersReady'
<1>1. pc' \in [Workers -> WorkerPc] /\ cur' \in [Workers -> Nat]
  BY DEF WorkersReady
<1>2. ASSUME NEW v \in Workers
      PROVE  /\ pc'[v] \notin {"idle", "failed"} => cur'[v] \in 1..Len(jobs')
             /\ pc'[v] \in {"audios", "images"} => jobs'[cur'[v]].kind.type \in AssetTypes
             /\ pc'[v] = "calls" => prog'[v] # <<>>
  <2>1. CASE v = w
    BY <2>1 DEF WorkersReady
  <2>2. CASE v # w
    <3>1. pc'[v] = pc[v] /\ cur'[v] = cur[v] /\ prog'[v] = prog[v]
      BY <2>2 DEF WorkersReady
    <3>2. cur[v] \in 1..Len(jobs) => /\ cur[v] \in 1..Len(jobs')
                                     /\ jobs'[cur[v]].kind = jobs[cur[v]].kind
      BY DEF Grows, TablesReady
    <3>3. QED
      BY <3>1, <3>2 DEF WorkersReady
  <2>3. QED
    BY <2>1, <2>2
<1>3. QED
  BY <1>1, <1>2 DEF WorkersReady

\* Nothing is added.
LEMMA SameTables ==
    ASSUME TablesReady, UNCHANGED <<rows, jobs>>
    PROVE  Grows
BY DEF TablesReady, Grows

\* What one call does to the tables.
LEMMA PerformStep ==
    ASSUME TablesReady, NEW op \in ReadyCalls \cup {SaveScript}, Perform(op)
    PROVE  /\ TablesReady' /\ Grows
           /\ op = SaveScript => Exists(OfProject("SCRIPT"))'
<1>1. /\ Len(jobs) \in Nat /\ jobs \in Seq(ReadyJobs) /\ rows \in [Kinds -> Nat]
      /\ pending \in Seq(1..Len(jobs)) /\ status \in ReadyStatuses \cup OtherStatuses
  BY DEF TablesReady
<1>2. \/ /\ op \in Calls(ReadyKinds, ReadyStatuses, Len(jobs)) /\ op # SaveScript
      \/ op = SaveScript /\ op.call = "script"
  BY CallFacts, <1>1 DEF ReadyCalls, SaveScript
<1>3. CASE DoSetStatus(op) \/ DoReadProject(op) \/ DoPush(op)
  <2>1. op \in Calls(ReadyKinds, ReadyStatuses, Len(jobs)) /\ op # SaveScript
    BY <1>2, <1>3 DEF DoSetStatus, DoReadProject, DoPush
  <2>2. Grows /\ UNCHANGED <<rows, jobs>>
    BY <1>3, SameTables DEF DoSetStatus, DoReadProject, DoPush
  <2>3. status' \in ReadyStatuses \cup OtherStatuses
    BY <1>1, <1>3, <2>1, CallFacts DEF DoSetStatus, DoReadProject, DoPush
  <2>4. pending' \in Seq(1..Len(jobs))
    <3>1. CASE DoPush(op)
      <4>1. op.id \in 1..Len(jobs)
        BY <1>1, <2>1, <3>1, CallFacts DEF DoPush
      <4>2. QED
        BY <1>1, <3>1, <4>1, SeqFacts DEF DoPush
    <3>2. CASE ~DoPush(op)
      BY <1>1, <1>3, <3>2 DEF DoSetStatus, DoReadProject
    <3>3. QED
      BY <3>1, <3>2
  <2>5. QED
    BY <1>1, <2>1, <2>2, <2>3, <2>4, GrowthKeeps DEF TablesReady
<1>4. CASE DoCreateJob(op)
  <2> DEFINE new == NewJob(op.kind)
  <2>1. op \in Calls(ReadyKinds, ReadyStatuses, Len(jobs)) /\ op # SaveScript
    BY <1>2, <1>4 DEF DoCreateJob
  <2>2. new \in ReadyJobs
    BY <1>1, <1>4, <2>1, CallFacts DEF DoCreateJob, NewJob, ReadyJobs
  <2>3. jobs' = Append(jobs, new) /\ UNCHANGED <<rows, status, pending>>
    BY <1>4 DEF DoCreateJob
  <2> HIDE DEF new
  <2>4. /\ jobs' \in Seq(ReadyJobs) /\ Len(jobs') = Len(jobs) + 1
        /\ \A i \in 1..Len(jobs) : jobs'[i] = jobs[i]
    BY <1>1, <2>2, <2>3
  <2>5. Grows
    BY <1>1, <2>3, <2>4 DEF Grows
  <2>6. pending' \in Seq(1..Len(jobs'))
    BY <1>1, <2>3, <2>5, GrowthKeeps
  <2>7. jobs' \in Seq(ReadyJobs') /\ status' \in ReadyStatuses' \cup OtherStatuses
        /\ rows' \in [Kinds -> Nat]
    BY <1>1, <2>3, <2>4, <2>5, GrowthKeeps
  <2>8. QED
    BY <2>1, <2>5, <2>6, <2>7 DEF TablesReady
<1>5. CASE DoSaveScript(op)
  <2>1. OfProject("SCRIPT") \in Kinds
    BY KindFacts
  <2>2. /\ rows' \in [Kinds -> Nat] /\ rows'[OfProject("SCRIPT")] = rows[OfProject("SCRIPT")] + 1
        /\ \A k \in Kinds : rows[k] <= rows'[k]
        /\ UNCHANGED <<status, jobs, pending>>
    BY <1>1, <1>5, <2>1 DEF DoSaveScript
  <2>3. Grows
    BY <1>1, <2>2 DEF Grows
  <2>4. Exists(OfProject("SCRIPT"))'
    BY <1>1, <2>1, <2>2 DEF Exists
  <2>5. QED
    BY <1>1, <2>2, <2>3, <2>4, GrowthKeeps DEF TablesReady
<1>6. CASE DoResetJob(op)
  <2>1. op \in Calls(ReadyKinds, ReadyStatuses, Len(jobs)) /\ op # SaveScript
    BY <1>2, <1>6 DEF DoResetJob
  <2>2. op.id \in 1..Len(jobs)
    BY <1>1, <1>6, <2>1, CallFacts DEF DoResetJob
  <2>3. jobs[op.id] \in ReadyJobs /\ NewJob(jobs[op.id].kind) \in ReadyJobs
        /\ NewJob(jobs[op.id].kind).kind = jobs[op.id].kind
    <3>1. jobs[op.id] \in ReadyJobs
      BY <1>1, <2>2
    <3>2. jobs[op.id].kind \in ReadyKinds
      BY <3>1 DEF ReadyJobs
    <3>3. QED
      BY <3>1, <3>2 DEF ReadyJobs, NewJob
  <2>4. /\ jobs' = [jobs EXCEPT ![op.id] = NewJob(jobs[op.id].kind)]
        /\ UNCHANGED <<rows, status, pending>>
    BY <1>6 DEF DoResetJob
  <2>5. /\ jobs' \in Seq(ReadyJobs) /\ Len(jobs') = Len(jobs)
        /\ \A i \in 1..Len(jobs) : jobs'[i].kind = jobs[i].kind
    BY <1>1, <2>2, <2>3, <2>4
  <2>6. Grows
    BY <1>1, <2>4, <2>5 DEF Grows
  <2>7. pending' \in Seq(1..Len(jobs'))
    BY <1>1, <2>4, <2>5
  <2>8. jobs' \in Seq(ReadyJobs') /\ status' \in ReadyStatuses' \cup OtherStatuses
        /\ rows' \in [Kinds -> Nat]
    BY <1>1, <2>4, <2>5, <2>6, GrowthKeeps
  <2>9. QED
    BY <2>1, <2>6, <2>7, <2>8 DEF TablesReady
<1>7. QED
  BY <1>3, <1>4, <1>5, <1>6 DEF Perform

-----------------------------------------------------------------------------
(* Steps of a worker.                                                      *)

\* The callback of a handler is in order once its artifact is there.
LEMMA CallbackReady ==
    ASSUME NEW K, NEW S, NEW n \in Nat, PlainStatuses \subseteq S, NEW list \in {Scenes, {}},
           NEW type \in {"SCRIPT", "SCENES", "SUBTITLE", "RENDER", "REVIEW"},
           type = "SCRIPT" => OfProject("SCENES") \in K,
           type = "SCENES" => \A s \in list : Voice(s) \in K /\ Image(s) \in K,
           type = "SUBTITLE" => OfProject("RENDER") \in K,
           type = "RENDER" => OfProject("REVIEW") \in K,
           type = "REVIEW" => "IN_REVIEW" \in S
    PROVE  Callback(type, list) \in Seq(Calls(K, S, n)) /\ Callback(type, list) # <<>>
<1> DEFINE C == Calls(K, S, n)
<1>1. Callback(type, list) \in Seq(C)
  <2>1. CASE type = "SCRIPT"
    BY <2>1, ProjectPrograms DEF Callback
  <2>2. CASE type = "SCENES"
    BY <2>2, ScenesProgram DEF Callback
  <2>3. CASE type = "SUBTITLE"
    BY <2>3, ProjectPrograms DEF Callback
  <2>4. CASE type = "RENDER"
    BY <2>4, ProjectPrograms DEF Callback
  <2>5. CASE type = "REVIEW"
    BY <2>5, ProjectPrograms DEF Callback
  <2>6. QED
    BY <2>1, <2>2, <2>3, <2>4, <2>5
<1>2. Callback(type, list) # <<>>
  <2>1. \A a, T : \A s \in Seq(T) : <<a>> \o s # <<>>
    OBVIOUS
  <2>2. \A a, b, T : \A s \in Seq(T) : (<<a>> \o s) \o <<b>> # <<>>
    OBVIOUS
  <2>3. /\ EnqueueThenStatus("SCENES", "SCENES_GENERATING") \in Seq({Enqueue(OfProject("SCENES")), SetStatus("SCENES_GENERATING")})
        /\ EnqueueThenStatus("RENDER", "RENDERING") \in Seq({Enqueue(OfProject("RENDER")), SetStatus("RENDERING")})
    BY SeqFacts DEF EnqueueThenStatus
  <2>4. CASE type = "SCRIPT" \/ type = "SUBTITLE"
    BY <2>1, <2>3, <2>4 DEF Callback, OnScriptGenerated, OnSubtitlesGenerated
  <2>5. CASE type = "RENDER" \/ type = "REVIEW"
    BY <2>5 DEF Callback, OnRenderComplete, OnReviewPackageReady
  <2>6. CASE type = "SCENES"
    <3>1. Cardinality(list) \in Nat
      BY ListLength
    <3>2. PICK T : AssetJobs(list) \in Seq(T)
      <4> DEFINE e(j) == Enqueue(IF j % 2 = 1 THEN Voice((j + 1) \div 2) ELSE Image(j \div 2))
                 T == {e(j) : j \in 1..(2 * Cardinality(list))}
      <4>1. \A j \in 1..(2 * Cardinality(list)) : e(j) \in T
        OBVIOUS
      <4>2. AssetJobs(list) = [j \in 1..(2 * Cardinality(list)) |-> e(j)]
        BY DEF AssetJobs
      <4> HIDE DEF e, T
      <4>3. AssetJobs(list) \in Seq(T)
        BY <3>1, <4>1, <4>2
      <4>4. QED
        BY <4>3
    <3>3. QED
      BY <2>2, <2>6, <3>2 DEF Callback, OnScenesGenerated
  <2>7. QED
    BY <2>4, <2>5, <2>6
<1>3. QED
  BY <1>1, <1>2

\* A handler that has its artifact goes on in order.
LEMMA ProceedStep ==
    ASSUME Ready, Grows, NEW w \in Workers, cur[w] \in 1..Len(jobs), Proceed(w),
           UNCHANGED <<status, jobs, pending, cur>>,
           Exists(KindOf(w))' \/ KindOf(w).type \in {"REVIEW", "SCENES"}
    PROVE  Ready'
<1> USE DEF Ready
<1>1. PICK k \in Kinds : /\ k \in ReadyKinds /\ k = jobs[cur[w]].kind
                         /\ KindOf(w) = k /\ KindOf(w)' = k
  <2>1. jobs[cur[w]] \in ReadyJobs
    BY DEF TablesReady
  <2>2. jobs[cur[w]].kind \in ReadyKinds
    BY <2>1 DEF ReadyJobs
  <2>3. KindOf(w) = jobs[cur[w]].kind /\ KindOf(w)' = jobs[cur[w]].kind
    BY DEF KindOf
  <2>4. QED
    BY <2>2, <2>3 DEF ReadyKinds
<1>2. TablesReady'
  BY GrowthKeeps DEF TablesReady, Grows
<1>3. cur' = [cur EXCEPT ![w] = cur[w]] /\ cur[w] \in Nat /\ cur[w] \in 1..Len(jobs')
      /\ w \in Procs /\ pc \in [Workers -> WorkerPc]
  BY DEF WorkersReady, Procs
<1>4. CASE k.type \in AssetTypes
  <2>1. pc' = [pc EXCEPT ![w] = "audios"] /\ UNCHANGED prog
    BY <1>1, <1>4 DEF Proceed, Goto
  <2>2. jobs'[cur[w]].kind.type \in AssetTypes
    BY <1>1, <1>4
  <2>3. WorkersReady'
    BY <1>3, <2>1, <2>2, WorkerKept DEF WorkerPc
  <2>4. ProgramsReady'
    BY <2>1, GrowthKeeps DEF ProgramsReady
  <2>5. QED
    BY <1>2, <2>3, <2>4
<1>5. CASE k.type \notin AssetTypes
  <2> DEFINE q == Callback(k.type, SceneList')
  <2>1. pc' = [pc EXCEPT ![w] = "calls"] /\ prog' = [prog EXCEPT ![w] = q]
    BY <1>1, <1>5 DEF Proceed, Goto
  <2>2. k.type \in {"SCRIPT", "SCENES", "SUBTITLE", "RENDER", "REVIEW"} /\ k = OfProject(k.type)
    BY <1>1, <1>5, KindFacts
  <2>3. SceneList' \in {Scenes, {}} /\ (SceneList' # {} => Exists(OfProject("SCENES"))')
    BY DEF SceneList
  <2>4. /\ k.type = "SCRIPT" => OfProject("SCENES") \in ReadyKinds'
        /\ k.type = "SUBTITLE" => OfProject("RENDER") \in ReadyKinds'
        /\ k.type = "RENDER" => OfProject("REVIEW") \in ReadyKinds'
    <3>1. k.type \in {"SCRIPT", "SUBTITLE", "RENDER"} => Exists(OfProject(k.type))'
      <4>1. Exists(k)' \/ k.type \in {"REVIEW", "SCENES"}
        BY <1>1 DEF Exists
      <4>2. QED
        BY <2>2, <4>1
    <3>2. k.type = "SCRIPT" => OfProject("SCENES") \in ReadyKinds'
      BY <3>1, KindFacts DEF ReadyKinds, Prerequisites
    <3>3. k.type = "SUBTITLE" => OfProject("RENDER") \in ReadyKinds'
      BY <3>1, KindFacts DEF ReadyKinds, Prerequisites
    <3>4. k.type = "RENDER" => OfProject("REVIEW") \in ReadyKinds'
      BY <3>1, KindFacts DEF ReadyKinds, Prerequisites
    <3>5. QED
      BY <3>2, <3>3, <3>4
  <2>5. \A s \in SceneList' : Voice(s) \in ReadyKinds' /\ Image(s) \in ReadyKinds'
    BY <2>3, KindFacts DEF ReadyKinds, Prerequisites
  <2>6. k.type = "REVIEW" => "IN_REVIEW" \in ReadyStatuses'
    <3>1. k.type = "REVIEW" => Exists(OfProject("RENDER"))
      BY <1>1 DEF ReadyKinds, Prerequisites
    <3>2. k.type = "REVIEW" => Exists(OfProject("RENDER"))'
      BY <3>1, GrowthKeeps, KindFacts
    <3>3. QED
      BY <3>2 DEF ReadyStatuses, ReviewStatuses
  <2>7. PlainStatuses \subseteq ReadyStatuses' /\ Len(jobs') \in Nat
    BY DEF ReadyStatuses, Grows
  <2>8. q \in Seq(ReadyCalls') /\ q # <<>>
    BY <2>2, <2>3, <2>4, <2>5, <2>6, <2>7, CallbackReady DEF ReadyCalls
  <2> HIDE DEF q
  <2>9. prog'[w] = q /\ \A v \in Workers \ {w} : prog'[v] = prog[v]
    BY <1>3, <2>1 DEF ProgramsReady, Procs
  <2>10. WorkersReady'
    BY <1>3, <2>1, <2>8, <2>9, WorkerKept DEF WorkerPc
  <2>11. ProgramsReady'
    BY <1>3, <2>1, <2>8, ProgramKept
  <2>12. QED
    BY <1>2, <2>10, <2>11
<1>6. QED
  BY <1>4, <1>5

\* Steps that change only the place of a worker, and the status.
LEMMA MoveStep ==
    ASSUME Ready, NEW w \in Workers, NEW s \in WorkerPc \ {"audios", "calls"}, Goto(w, s),
           UNCHANGED <<rows, jobs, pending, cur, prog>>, status' \in ReadyStatuses \cup OtherStatuses,
           s \notin {"idle", "failed"} => pc[w] \notin {"idle", "failed"},
           s = "images" => pc[w] = "audios"
    PROVE  Ready'
<1> USE DEF Ready
<1>1. Grows
  BY SameTables
<1>2. TablesReady'
  BY <1>1, GrowthKeeps DEF TablesReady
<1>3. ProgramsReady'
  BY <1>1, GrowthKeeps DEF ProgramsReady
<1>4. /\ cur' = [cur EXCEPT ![w] = cur[w]] /\ cur[w] \in Nat /\ pc' = [pc EXCEPT ![w] = s]
      /\ s \notin {"idle", "failed"} => cur[w] \in 1..Len(jobs')
      /\ s = "images" => jobs'[cur[w]].kind.type \in AssetTypes
  BY DEF WorkersReady, Goto
<1>5. WorkersReady'
  BY <1>1, <1>4, WorkerKept
<1>6. QED
  BY <1>2, <1>3, <1>5

\* Steps that change the state of one job.
LEMMA JobStep ==
    ASSUME TablesReady, NEW i \in 1..Len(jobs), NEW j \in ReadyJobs, j.kind = jobs[i].kind,
           jobs' = [jobs EXCEPT ![i] = j], UNCHANGED <<rows, status>>,
           pending' \in Seq(1..Len(jobs))
    PROVE  TablesReady' /\ Grows
<1>1. /\ Len(jobs) \in Nat /\ jobs' \in Seq(ReadyJobs) /\ Len(jobs') = Len(jobs)
      /\ \A k \in 1..Len(jobs) : jobs'[k].kind = jobs[k].kind
  BY DEF TablesReady
<1>2. Grows
  BY <1>1 DEF Grows, TablesReady
<1>3. QED
  BY <1>1, <1>2, GrowthKeeps DEF TablesReady

LEMMA StartedJob ==
    ASSUME NEW r \in ReadyJobs
    PROVE  /\ [r EXCEPT !.status = "RUNNING", !.attempts = @ + 1] \in ReadyJobs
           /\ [r EXCEPT !.status = "RUNNING", !.attempts = @ + 1].kind = r.kind
<1> DEFINE q == [r EXCEPT !.status = "RUNNING"]
<1>1. q \in ReadyJobs /\ q.kind = r.kind
  BY DEF ReadyJobs
<1>2. [r EXCEPT !.status = "RUNNING", !.attempts = @ + 1] = [q EXCEPT !.attempts = @ + 1]
  OBVIOUS
<1> HIDE DEF q
<1>3. [q EXCEPT !.attempts = @ + 1] \in ReadyJobs /\ [q EXCEPT !.attempts = @ + 1].kind = q.kind
  BY <1>1 DEF ReadyJobs
<1>4. QED
  BY <1>1, <1>2, <1>3

\* A worker takes a job, or lets go of it.
LEMMA TakeStep ==
    ASSUME Ready, NEW w \in Workers, Take(w)
    PROVE  Ready'
<1> USE DEF Ready
<1> DEFINE i == Head(pending)
           j == [jobs[i] EXCEPT !.status = "RUNNING", !.attempts = @ + 1]
<1>1. i \in 1..Len(jobs) /\ Tail(pending) \in Seq(1..Len(jobs)) /\ jobs[i] \in ReadyJobs
  BY SeqFacts DEF Take, TablesReady
<1>2. j \in ReadyJobs /\ j.kind = jobs[i].kind
  BY <1>1, StartedJob
<1>3. jobs' = [jobs EXCEPT ![i] = j]
  <2>1. jobs' = [jobs EXCEPT ![i].status = "RUNNING", ![i].attempts = @ + 1]
    BY DEF Take
  <2>2. DOMAIN jobs = 1..Len(jobs)
    BY DEF TablesReady
  <2>3. QED
    BY <1>1, <2>1, <2>2 DEF ReadyJobs
<1> HIDE DEF j
<1>4. TablesReady' /\ Grows
  <2>1. pending' \in Seq(1..Len(jobs)) /\ UNCHANGED <<rows, status>>
    BY <1>1 DEF Take
  <2>2. QED
    BY <1>1, <1>2, <1>3, <2>1, JobStep
<1>5. /\ cur' = [cur EXCEPT ![w] = i] /\ pc' = [pc EXCEPT ![w] = "inputs"] /\ UNCHANGED prog
      /\ i \in Nat /\ i \in 1..Len(jobs')
  BY <1>1, <1>4 DEF Take, Goto, Grows, TablesReady
<1>6. WorkersReady'
  BY <1>4, <1>5, WorkerKept DEF WorkerPc
<1>7. ProgramsReady'
  BY <1>4, <1>5, GrowthKeeps DEF ProgramsReady
<1>8. QED
  BY <1>4, <1>6, <1>7

LEMMA ReleaseStep ==
    ASSUME Ready, NEW w \in Workers, Complete(w) \/ FailAndRetry(w) \/ FailForGood(w)
    PROVE  Ready'
<1> USE DEF Ready
<1>1. cur[w] \in 1..Len(jobs) /\ jobs[cur[w]] \in ReadyJobs
  <2>1. pc[w] \in {"done", "error"}
    BY DEF Complete, FailAndRetry, FailForGood
  <2>2. cur[w] \in 1..Len(jobs)
    BY <2>1 DEF WorkersReady
  <2>3. QED
    BY <2>2 DEF TablesReady
<1>2. PICK s \in {"SUCCEEDED", "QUEUED", "FAILED"} : jobs' = [jobs EXCEPT ![cur[w]].status = s]
  BY DEF Complete, FailAndRetry, FailForGood
<1> DEFINE j == [jobs[cur[w]] EXCEPT !.status = s]
<1>3. j \in ReadyJobs /\ j.kind = jobs[cur[w]].kind /\ jobs' = [jobs EXCEPT ![cur[w]] = j]
  BY <1>1, <1>2 DEF ReadyJobs
<1> HIDE DEF j
<1>4. pending' \in Seq(1..Len(jobs)) /\ UNCHANGED <<rows, status, prog>>
  <2>1. pending \in Seq(1..Len(jobs))
    BY DEF TablesReady
  <2>2. Append(pending, cur[w]) \in Seq(1..Len(jobs))
    BY <1>1, <2>1, SeqFacts
  <2>3. pending' \in {pending, Append(pending, cur[w])} /\ UNCHANGED <<rows, status, prog>>
    BY DEF Complete, FailAndRetry, FailForGood
  <2>4. QED
    BY <2>1, <2>2, <2>3
<1>5. TablesReady' /\ Grows
  BY <1>1, <1>3, <1>4, JobStep
<1>6. PICK n \in {"idle", "failed"} : pc' = [pc EXCEPT ![w] = n] /\ cur' = [cur EXCEPT ![w] = 0]
  BY DEF Complete, FailAndRetry, FailForGood, Release, Goto
<1>7. WorkersReady'
  BY <1>4, <1>5, <1>6, WorkerKept DEF WorkerPc
<1>8. ProgramsReady'
  BY <1>4, <1>5, GrowthKeeps DEF ProgramsReady
<1>9. QED
  BY <1>5, <1>7, <1>8

\* The handler of a job: reading, generating and counting.
LEMMA HandlerStep ==
    ASSUME Ready, NEW w \in Workers,
           \/ ReadInputs(w) \/ CheckExisting(w) \/ MissSubtitle(w) \/ Generate(w)
           \/ GenerateNoScenes(w) \/ GenerateError(w) \/ CountAudios(w) \/ FailProject(w)
    PROVE  Ready'
<1>1. /\ status \in ReadyStatuses \cup OtherStatuses /\ "FAILED" \in OtherStatuses
      /\ rows \in [Kinds -> Nat] /\ jobs \in Seq(ReadyJobs)
      /\ pc[w] \notin {"idle", "failed"} => cur[w] \in 1..Len(jobs)
  BY StatusFacts DEF Ready, TablesReady, WorkersReady, ReadyStatuses, OtherStatuses
<1>2. ASSUME pc[w] \in {"check", "generate"} PROVE KindOf(w) \in Kinds
  <2>1. jobs[cur[w]] \in ReadyJobs
    BY <1>1, <1>2
  <2>2. QED
    BY <2>1 DEF KindOf, ReadyJobs, ReadyKinds
<1>3. CASE ReadInputs(w) \/ MissSubtitle(w) \/ CountAudios(w)
  <2>1. PICK s \in {"error", "check", "generate", "images"} :
             Goto(w, s) /\ (s = "images" => pc[w] = "audios")
    BY <1>3 DEF ReadInputs, MissSubtitle, CountAudios
  <2>2. /\ UNCHANGED <<rows, jobs, pending, cur, prog, status>>
        /\ pc[w] \notin {"idle", "failed"}
    BY <1>3 DEF ReadInputs, MissSubtitle, CountAudios
  <2>3. QED
    BY <1>1, <2>1, <2>2, MoveStep DEF WorkerPc
<1>4. CASE GenerateError(w)
  <2>1. /\ Goto(w, "error") /\ UNCHANGED <<rows, jobs, pending, cur, prog>>
        /\ pc[w] \notin {"idle", "failed"} /\ status' \in {status, "FAILED"}
    BY <1>4 DEF GenerateError, ServiceFails
  <2>2. QED
    BY <1>1, <2>1, MoveStep DEF WorkerPc
<1>5. CASE FailProject(w)
  <2>1. /\ Goto(w, "idle") /\ UNCHANGED <<rows, jobs, pending, cur, prog>>
        /\ status' \in {status, "FAILED"}
    BY <1>5 DEF FailProject
  <2>2. QED
    BY <1>1, <2>1, MoveStep DEF WorkerPc
<1>6. CASE CheckExisting(w)
  <2>1. UNCHANGED <<status, rows, jobs, pending, cur>> /\ cur[w] \in 1..Len(jobs) /\ Grows
    BY <1>1, <1>6, SameTables DEF CheckExisting, Ready
  <2>2. CASE Reuses(KindOf(w))
    <3>1. Proceed(w)
      BY <1>6, <2>2 DEF CheckExisting
    <3>2. Exists(KindOf(w)) \/ KindOf(w).type \in {"REVIEW", "SCENES"}
      BY <2>2 DEF Reuses
    <3>3. Exists(KindOf(w))' \/ KindOf(w).type \in {"REVIEW", "SCENES"}
      BY <2>1, <3>2 DEF Exists, KindOf
    <3>4. QED
      BY <2>1, <3>1, <3>3, ProceedStep
  <2>3. CASE ~Reuses(KindOf(w))
    <3>1. Goto(w, "generate") /\ UNCHANGED prog /\ pc[w] = "check"
      BY <1>6, <2>3 DEF CheckExisting
    <3>2. QED
      BY <1>1, <2>1, <3>1, MoveStep DEF WorkerPc
  <2>4. QED
    BY <2>2, <2>3
<1>7. CASE Generate(w)
  <2>1. /\ UNCHANGED <<status, jobs, pending, cur>> /\ Proceed(w) /\ KindOf(w) \in Kinds
        /\ rows' = [rows EXCEPT ![KindOf(w)] = @ + 1] /\ cur[w] \in 1..Len(jobs)
    BY <1>1, <1>2, <1>7 DEF Generate
  <2>2. rows' \in [Kinds -> Nat] /\ rows'[KindOf(w)] > 0 /\ \A k \in Kinds : rows[k] <= rows'[k]
    BY <1>1, <2>1
  <2>3. Grows
    BY <1>1, <2>1, <2>2 DEF Grows
  <2>4. Exists(KindOf(w))'
    BY <2>1, <2>2 DEF Exists, KindOf
  <2>5. QED
    BY <2>1, <2>3, <2>4, ProceedStep
<1>8. CASE GenerateNoScenes(w)
  <2>1. /\ UNCHANGED <<status, rows, jobs, pending, cur>> /\ Proceed(w) /\ KindOf(w).type = "SCENES"
        /\ cur[w] \in 1..Len(jobs)
    BY <1>1, <1>8 DEF GenerateNoScenes
  <2>2. Grows
    BY <2>1, SameTables DEF Ready
  <2>3. QED
    BY <2>1, <2>2, ProceedStep
<1>9. QED
  BY <1>3, <1>4, <1>5, <1>6, <1>7, <1>8

\* CheckAssetCompletion goes on to the subtitles of scenes that exist.
LEMMA CountImagesStep ==
    ASSUME Ready, NEW w \in Workers, CountImages(w)
    PROVE  Ready'
<1>1. UNCHANGED <<status, rows, jobs, pending, cur>> /\ pc[w] = "images" /\ w \in Procs
  BY DEF CountImages, Procs
<1>2. CASE ~AllAssets(w)
  <2>1. Goto(w, "done") /\ UNCHANGED prog
    BY <1>2 DEF CountImages
  <2>2. QED
    BY <1>1, <2>1, MoveStep DEF WorkerPc, Ready, TablesReady
<1>3. CASE AllAssets(w)
  <2>1. pc' = [pc EXCEPT ![w] = "calls"] /\ prog' = [prog EXCEPT ![w] = OnAssetsComplete]
    BY <1>3 DEF CountImages, Goto
  <2>2. Grows /\ TablesReady /\ WorkersReady /\ ProgramsReady
    BY <1>1, SameTables DEF Ready
  <2>3. cur[w] \in 1..Len(jobs) /\ jobs[cur[w]].kind.type \in AssetTypes
    BY <1>1, <2>2 DEF WorkersReady
  <2>4. Exists(OfProject("SCENES"))
    <3>1. jobs[cur[w]] \in ReadyJobs
      BY <2>2, <2>3 DEF TablesReady
    <3>2. jobs[cur[w]].kind \in ReadyKinds
      BY <3>1 DEF ReadyJobs
    <3>3. QED
      BY <2>3, <3>2 DEF ReadyKinds, Prerequisites, AssetTypes
  <2>5. Exists(OfProject("SCENES"))'
    BY <2>2, <2>4, GrowthKeeps, KindFacts
  <2>6. OfProject("SUBTITLE") \in ReadyKinds'
    BY <2>5, KindFacts DEF ReadyKinds, Prerequisites
  <2>7. OnAssetsComplete \in Seq(ReadyCalls')
    BY <2>2, <2>6, ProjectPrograms DEF ReadyCalls, ReadyStatuses, Grows
  <2>8. OnAssetsComplete # <<>>
    BY DEF OnAssetsComplete, EnqueueThenStatus
  <2>9. prog'[w] = OnAssetsComplete /\ \A v \in Workers \ {w} : prog'[v] = prog[v]
    BY <1>1, <2>1, <2>2 DEF ProgramsReady, Procs
  <2>10. cur' = [cur EXCEPT ![w] = cur[w]] /\ cur[w] \in Nat /\ cur[w] \in 1..Len(jobs')
    BY <1>1, <2>2, <2>3 DEF WorkersReady
  <2>11. WorkersReady'
    BY <2>1, <2>2, <2>8, <2>9, <2>10, WorkerKept DEF WorkerPc
  <2>12. ProgramsReady'
    BY <1>1, <2>1, <2>2, <2>7, ProgramKept
  <2>13. TablesReady'
    BY <1>1, <2>2, GrowthKeeps DEF TablesReady
  <2>14. QED
    BY <2>11, <2>12, <2>13 DEF Ready
<1>4. QED
  BY <1>2, <1>3

-----------------------------------------------------------------------------
(* Calls of workers and requests.                                          *)

LEMMA UserScriptFacts ==
    UserScript # <<>> /\ Head(UserScript) = SaveScript /\ Tail(UserScript) = OnScriptGenerated
<1> DEFINE T == Calls(Kinds, Statuses, 0) \cup {SaveScript}
<1>1. OnScriptGenerated \in Seq(Calls(Kinds, Statuses, 0))
  BY KindFacts, ProjectPrograms DEF PlainStatuses
<1>2. \A S, a : \A s \in Seq(S) :
         <<a>> \o s # <<>> /\ Head(<<a>> \o s) = a /\ Tail(<<a>> \o s) = s
  OBVIOUS
<1>3. QED
  BY <1>1, <1>2 DEF UserScript

LEMMA UserScriptRest ==
    ASSUME NEW p \in Procs, prog[p] = UserScript
    PROVE  Head(prog[p]) = SaveScript /\ Rest(p) = OnScriptGenerated
<1>1. Head(prog[p]) = SaveScript /\ Tail(prog[p]) = OnScriptGenerated
  BY UserScriptFacts
<1>2. FollowedBy(SaveScript) = <<>>
  BY DEF FollowedBy, SaveScript
<1>3. OnScriptGenerated \in Seq(Calls(Kinds, Statuses, 0))
  BY KindFacts, ProjectPrograms DEF PlainStatuses
<1>4. \A S : \A s \in Seq(S) : <<>> \o s = s
  OBVIOUS
<1>5. QED
  BY <1>1, <1>2, <1>3, <1>4 DEF Rest

\* The call that follows on one is in order.
LEMMA FollowUpReady ==
    ASSUME TablesReady, NEW op \in ReadyCalls, Perform(op), Grows
    PROVE  FollowedBy(op) \in Seq(ReadyCalls')
<1>1. Len(jobs) \in Nat /\ Len(jobs') \in Nat /\ Len(jobs) <= Len(jobs') /\ jobs \in Seq(ReadyJobs)
  BY DEF TablesReady, Grows
<1>2. CASE op.call = "enqueue"
  <2>1. jobs' = Append(jobs, NewJob(op.kind))
    BY <1>2 DEF Perform, DoSetStatus, DoCreateJob, DoResetJob, DoPush, DoSaveScript, DoReadProject
  <2>2. Len(jobs) + 1 \in 1..Len(jobs')
    BY <1>1, <2>1
  <2>3. Push(Len(jobs) + 1) \in ReadyCalls'
    BY <1>1, <2>2, CallIn DEF ReadyCalls
  <2>4. QED
    BY <1>2, <2>3, SeqFacts DEF FollowedBy
<1>3. CASE op.call = "requeue"
  <2>1. op.id \in 1..Len(jobs')
    BY <1>1, <1>3, CallFacts DEF ReadyCalls
  <2>2. Push(op.id) \in ReadyCalls'
    BY <1>1, <2>1, CallIn DEF ReadyCalls
  <2>3. QED
    BY <1>3, <2>2, SeqFacts DEF FollowedBy
<1>4. CASE op.call = "restore" /\ status = "FAILED"
  <2>1. StatusForRetry(op.type) \in ReadyStatuses'
    BY StatusFacts DEF StatusForRetry, ReadyStatuses
  <2>2. SetStatus(StatusForRetry(op.type)) \in ReadyCalls'
    BY <1>1, <2>1, CallIn DEF ReadyCalls
  <2>3. QED
    BY <1>4, <2>2, SeqFacts DEF FollowedBy
<1>5. CASE op.call \notin {"enqueue", "requeue"} /\ ~(op.call = "restore" /\ status = "FAILED")
  BY <1>5, SeqFacts DEF FollowedBy
<1>6. QED
  BY <1>2, <1>3, <1>4, <1>5

\* One call of a program; what is left of it stays in order.
LEMMA CallStep ==
    ASSUME Ready, NEW p \in Procs, prog[p] # <<>>, Perform(Head(prog[p]))
    PROVE  TablesReady' /\ Grows /\ Rest(p) \in Seq(ReadyCalls')
<1>1. TablesReady /\ (prog[p] \in Seq(ReadyCalls) \/ prog[p] = UserScript)
  BY DEF Ready, ProgramsReady
<1>2. CASE prog[p] \in Seq(ReadyCalls)
  <2>1. Head(prog[p]) \in ReadyCalls /\ Tail(prog[p]) \in Seq(ReadyCalls)
    BY <1>2, SeqFacts
  <2>2. TablesReady' /\ Grows
    BY <1>1, <2>1, PerformStep
  <2>3. FollowedBy(Head(prog[p])) \in Seq(ReadyCalls')
    BY <1>1, <2>1, <2>2, FollowUpReady
  <2>4. Tail(prog[p]) \in Seq(ReadyCalls')
    BY <1>1, <2>1, <2>2, GrowthKeeps
  <2>5. QED
    BY <2>2, <2>3, <2>4, SeqFacts DEF Rest
<1>3. CASE prog[p] = UserScript
  <2>1. Head(prog[p]) = SaveScript /\ Rest(p) = OnScriptGenerated
    BY <1>3, UserScriptRest
  <2>2. TablesReady' /\ Grows /\ Exists(OfProject("SCRIPT"))'
    BY <1>1, <2>1, PerformStep
  <2>3. OfProject("SCENES") \in ReadyKinds'
    BY <2>2, KindFacts DEF ReadyKinds, Prerequisites
  <2>4. OnScriptGenerated \in Seq(ReadyCalls')
    BY <2>2, <2>3, ProjectPrograms DEF ReadyCalls, ReadyStatuses, Grows
  <2>5. QED
    BY <2>1, <2>2, <2>4
<1>4. QED
  BY <1>1, <1>2, <1>3

LEMMA WorkerCallStep ==
    ASSUME Ready, NEW w \in Workers, WorkerCall(w)
    PROVE  Ready'
<1>1. TablesReady /\ WorkersReady /\ ProgramsReady /\ w \in Procs
  BY DEF Ready, Procs
<1>2. pc[w] = "calls" /\ prog[w] # <<>> /\ cur[w] \in 1..Len(jobs) /\ Perform(Head(prog[w]))
  BY <1>1 DEF WorkerCall, NextCall, WorkersReady
<1>3. TablesReady' /\ Grows /\ Rest(w) \in Seq(ReadyCalls')
  BY <1>1, <1>2, CallStep
<1>4. PICK s \in {"done", "calls"} : /\ pc' = [pc EXCEPT ![w] = s]
                                     /\ s = "calls" => Rest(w) # <<>>
  BY DEF WorkerCall, Goto
<1>5. prog' = [prog EXCEPT ![w] = Rest(w)] /\ UNCHANGED cur
  BY DEF WorkerCall, NextCall
<1>6. ProgramsReady'
  BY <1>1, <1>3, <1>5, ProgramKept
<1>7. /\ cur' = [cur EXCEPT ![w] = cur[w]] /\ cur[w] \in Nat /\ cur[w] \in 1..Len(jobs')
      /\ prog'[w] = Rest(w) /\ \A v \in Workers \ {w} : prog'[v] = prog[v]
  BY <1>1, <1>2, <1>3, <1>5 DEF WorkersReady, ProgramsReady, Grows, TablesReady, Procs
<1>8. WorkersReady'
  BY <1>1, <1>3, <1>4, <1>7, WorkerKept DEF WorkerPc
<1>9. QED
  BY <1>3, <1>6, <1>8 DEF Ready

LEMMA WorkerErrorStep ==
    ASSUME Ready, NEW w \in Workers, WorkerError(w)
    PROVE  Ready'
<1>1. UNCHANGED <<status, rows, jobs, pending, cur>> /\ TablesReady /\ WorkersReady
      /\ ProgramsReady /\ w \in Procs /\ pc[w] \notin {"idle", "failed"}
  BY DEF WorkerError, Ready, Procs
<1>2. Grows
  BY <1>1, SameTables
<1>3. prog' = [prog EXCEPT ![w] = <<>>] /\ pc' = [pc EXCEPT ![w] = "error"]
  BY DEF WorkerError, Goto
<1>4. TablesReady'
  BY <1>1, <1>2, GrowthKeeps DEF TablesReady
<1>5. ProgramsReady'
  BY <1>1, <1>2, <1>3, SeqFacts, ProgramKept
<1>6. /\ cur' = [cur EXCEPT ![w] = cur[w]] /\ cur[w] \in Nat /\ cur[w] \in 1..Len(jobs')
      /\ \A v \in Workers \ {w} : prog'[v] = prog[v]
  BY <1>1, <1>3 DEF WorkersReady, ProgramsReady, Procs
<1>7. WorkersReady'
  BY <1>1, <1>2, <1>3, <1>6, WorkerKept DEF WorkerPc
<1>8. QED
  BY <1>4, <1>5, <1>7 DEF Ready

LEMMA PanicStep ==
    ASSUME Ready, NEW w \in Workers, Panic(w)
    PROVE  Ready'
<1>1. UNCHANGED <<status, rows, jobs, pending>> /\ TablesReady /\ ProgramsReady
  BY DEF Panic, Ready
<1>2. Grows
  BY <1>1, SameTables
<1>3. TablesReady'
  BY <1>1, <1>2, GrowthKeeps DEF TablesReady
<1>4. WorkersReady'
  BY DEF Panic, WorkersReady, WorkerPc
<1>5. ProgramsReady'
  <2>1. /\ Seq(ReadyCalls) \subseteq Seq(ReadyCalls') /\ <<>> \in Seq(ReadyCalls')
    BY <1>1, <1>2, GrowthKeeps, SeqFacts
  <2>2. prog' = [p \in Procs |-> IF p \in Workers THEN <<>> ELSE prog[p]]
    BY DEF Panic
  <2>3. QED
    BY <1>1, <2>1, <2>2 DEF ProgramsReady
<1>6. QED
  BY <1>3, <1>4, <1>5 DEF Ready

\* A request starts a program, or goes on with it.
LEMMA RequestStep ==
    ASSUME Ready, NEW c \in Clients,
           NEW q \in Seq(ReadyCalls') \cup {UserScript}, prog' = [prog EXCEPT ![c] = q],
           TablesReady', Grows, UNCHANGED <<pc, cur>>
    PROVE  Ready'
<1>1. TablesReady /\ WorkersReady /\ ProgramsReady /\ c \in Procs /\ c \notin Workers
  BY WorkflowAssumption DEF Ready, Procs
<1>2. ProgramsReady'
  BY <1>1, ProgramKept
<1>3. ASSUME NEW w \in Workers
      PROVE  /\ pc'[w] \notin {"idle", "failed"} => cur'[w] \in 1..Len(jobs')
             /\ pc'[w] \in {"audios", "images"} => jobs'[cur'[w]].kind.type \in AssetTypes
             /\ pc'[w] = "calls" => prog'[w] # <<>>
  <2>1. prog'[w] = prog[w]
    BY <1>1 DEF ProgramsReady, Procs
  <2>2. cur[w] \in 1..Len(jobs) => /\ cur[w] \in 1..Len(jobs')
                                   /\ jobs'[cur[w]].kind = jobs[cur[w]].kind
    BY <1>1 DEF Grows, TablesReady
  <2>3. QED
    BY <1>1, <2>1, <2>2 DEF WorkersReady
<1>4. WorkersReady'
  BY <1>1, <1>3 DEF WorkersReady
<1>5. QED
  BY <1>2, <1>4 DEF Ready

LEMMA ClientsStep ==
    ASSUME Ready, NEW c \in Clients,
           CreateProject(c) \/ Approve(c) \/ Reject(c) \/ RetryProject(c) \/ ClientStep(c)
    PROVE  Ready'
<1>1. TablesReady /\ ProgramsReady /\ c \in Procs /\ Len(jobs) \in Nat
      /\ status \in ReadyStatuses \cup OtherStatuses
      /\ PlainStatuses \subseteq ReadyStatuses
  BY DEF Ready, Procs, TablesReady, ReadyStatuses
<1>2. ASSUME NEW q, Request(c, q), q \in Seq(ReadyCalls) \cup {UserScript},
             status' \in ReadyStatuses \cup OtherStatuses
      PROVE  Ready'
  <2>1. /\ UNCHANGED <<rows, jobs, pending, pc, cur>> /\ prog' = [prog EXCEPT ![c] = q]
    BY <1>2 DEF Request
  <2>2. Grows
    BY <1>1, <2>1, SameTables
  <2>3. TablesReady' /\ q \in Seq(ReadyCalls') \cup {UserScript}
    BY <1>1, <1>2, <2>1, <2>2, GrowthKeeps DEF TablesReady
  <2>4. QED
    BY <2>1, <2>2, <2>3, RequestStep
<1>3. CASE CreateProject(c)
  <2>1. status' \in ReadyStatuses \cup OtherStatuses
    BY <1>1, <1>3, StatusFacts DEF CreateProject
  <2>2. OfProject("SCRIPT") \in ReadyKinds
    BY KindFacts DEF ReadyKinds, Prerequisites
  <2>3. EnqueueThenStatus("SCRIPT", "SCRIPT_GENERATING") \in Seq(ReadyCalls)
    BY <1>1, <2>2, ProjectPrograms DEF ReadyCalls
  <2>4. QED
    BY <1>2, <1>3, <2>1, <2>3 DEF CreateProject, UserScript
<1>4. CASE Approve(c) \/ Reject(c)
  <2>1. PICK s \in {"APPROVED", "REJECTED"} : Request(c, <<SetStatus(s)>>)
    BY <1>4 DEF Approve, Reject
  <2>2. status \in {"IN_REVIEW", "REVIEW_PACKAGED"} /\ UNCHANGED status
    BY <1>4 DEF Approve, Reject, Reviewable
  <2>3. s \in ReadyStatuses
    <3>1. status \in ReadyStatuses \cup OtherStatuses /\ status \notin PlainStatuses \cup OtherStatuses
      BY <1>1, <2>2, StatusFacts DEF OtherStatuses, TablesReady
    <3>2. QED
      BY <3>1, StatusFacts DEF ReadyStatuses
  <2>4. <<SetStatus(s)>> \in Seq(ReadyCalls)
    BY <1>1, <2>3, CallIn, SeqFacts DEF ReadyCalls
  <2>5. QED
    BY <1>1, <1>2, <2>1, <2>2, <2>4
<1>5. CASE RetryProject(c)
  <2> DEFINE n == Cardinality(FailedJobs)
  <2>1. n \in Nat /\ n # 0
    <3>1. IsFiniteSet(FailedJobs)
      <4>1. FailedJobs \subseteq 1..Len(jobs) /\ IsFiniteSet(1..Len(jobs))
        BY <1>1, FS_Interval DEF FailedJobs
      <4>2. QED
        BY <4>1, FS_Subset
    <3>2. FailedJobs # {}
      BY <1>5 DEF RetryProject
    <3>3. QED
      BY <3>1, <3>2, FS_CardinalityType, FS_EmptySet
  <2>2. PICK failed \in InCreationOrder(FailedJobs) :
           Request(c, [i \in 1..n |-> Requeue(failed[i])] \o <<Restore(jobs[failed[1]].kind.type)>>)
    BY <1>5 DEF RetryProject
  <2>3. UNCHANGED status
    BY <1>5 DEF RetryProject
  <2>4. \A i \in 1..n : failed[i] \in 1..Len(jobs)
    BY DEF InCreationOrder, FailedJobs
  <2> HIDE DEF n
  <2>5. [i \in 1..n |-> Requeue(failed[i])] \in Seq(ReadyCalls)
    <3>1. \A i \in 1..n : Requeue(failed[i]) \in ReadyCalls
      BY <1>1, <2>4, CallIn DEF ReadyCalls
    <3>2. QED
      BY <2>1, <3>1
  <2>6. <<Restore(jobs[failed[1]].kind.type)>> \in Seq(ReadyCalls)
    <3>1. jobs[failed[1]] \in ReadyJobs
      BY <1>1, <2>1, <2>4 DEF TablesReady
    <3>2. jobs[failed[1]].kind \in Kinds
      BY <3>1 DEF ReadyJobs, ReadyKinds
    <3>3. QED
      BY <1>1, <3>2, CallIn, SeqFacts DEF ReadyCalls
  <2>7. QED
    BY <1>1, <1>2, <2>2, <2>3, <2>5, <2>6, SeqFacts
<1>6. CASE ClientCall(c)
  <2>1. prog[c] # <<>> /\ Perform(Head(prog[c])) /\ UNCHANGED <<pc, cur>>
        /\ prog' = [prog EXCEPT ![c] = Rest(c)]
    BY <1>6 DEF ClientCall, NextCall
  <2>2. TablesReady' /\ Grows /\ Rest(c) \in Seq(ReadyCalls')
    BY <1>1, <2>1, CallStep
  <2>3. QED
    BY <2>1, <2>2, RequestStep
<1>7. CASE ClientError(c)
  <2>1. UNCHANGED <<status, rows, jobs, pending, pc, cur>> /\ prog' = [prog EXCEPT ![c] = <<>>]
    BY <1>7 DEF ClientError
  <2>2. Grows
    BY <1>1, <2>1, SameTables
  <2>3. TablesReady'
    BY <1>1, <2>1, <2>2, GrowthKeeps DEF TablesReady
  <2>4. QED
    BY <2>1, <2>2, <2>3, SeqFacts, RequestStep
<1>8. QED
  BY <1>3, <1>4, <1>5, <1>6, <1>7 DEF ClientStep

-----------------------------------------------------------------------------
(* Theorems.                                                               *)

LEMMA ReadyInit == Init => Ready
<1> SUFFICES ASSUME Init PROVE Ready
  OBVIOUS
<1>1. TablesReady
  <2>1. "NONE" \in OtherStatuses
    BY DEF OtherStatuses
  <2>2. QED
    BY <2>1, SeqFacts DEF Init, TablesReady
<1>2. WorkersReady
  BY DEF Init, WorkersReady, WorkerPc
<1>3. ProgramsReady
  BY SeqFacts DEF Init, ProgramsReady
<1>4. QED
  BY <1>1, <1>2, <1>3 DEF Ready

LEMMA ReadyStep == Ready /\ [Next]_vars => Ready'
<1> SUFFICES ASSUME Ready, [Next]_vars PROVE Ready'
  OBVIOUS
<1>1. ASSUME NEW w \in Workers, WorkerStep(w) PROVE Ready'
  BY <1>1, TakeStep, ReleaseStep, HandlerStep, CountImagesStep, WorkerCallStep, WorkerErrorStep,
     PanicStep DEF WorkerStep
<1>2. CASE UNCHANGED vars
  BY <1>2 DEF vars, Ready, TablesReady, WorkersReady, ProgramsReady, ReadyStatuses, ReadyJobs,
     ReadyKinds, ReadyCalls, Exists
<1>3. QED
  BY <1>1, <1>2, ClientsStep DEF Next

LEMMA ReadyHolds == Spec => []Ready
<1>1. QED
  BY ReadyInit, ReadyStep, PTL DEF Spec

\* What a reviewer approves or rejects has been rendered, whichever jobs were
\* enqueued twice, repeated or retried and whatever call failed.
THEOREM DecisionsAreOnRenders == Spec => []OnlyRenderedIsDecided
<1>1. Ready => OnlyRenderedIsDecided
  BY StatusFacts DEF Ready, TablesReady, ReadyStatuses, OtherStatuses, OnlyRenderedIsDecided, Decided
<1>2. QED
  BY <1>1, ReadyHolds, PTL

\* A stage has a job only when what the stage before it makes exists: the part of
\* StagePrerequisites that does not rest on the counts of CheckAssetCompletion.
THEOREM StagesInOrderAlways == Spec => []StagesInOrder
<1>1. ASSUME Ready, NEW i \in 1..Len(jobs)
      PROVE  \A a \in Prerequisites(jobs[i].kind.type) : Exists(a)
  <2>1. jobs[i] \in ReadyJobs
    BY <1>1 DEF Ready, TablesReady
  <2>2. QED
    BY <2>1 DEF ReadyJobs, ReadyKinds
<1>2. Ready => StagesInOrder
  BY <1>1 DEF StagesInOrder, HasJob, Prerequisites
<1>3. QED
  BY <1>2, ReadyHolds, PTL
=============================================================================
