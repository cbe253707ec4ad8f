----------------------------- MODULE FrontendProofs -----------------------------
(***************************************************************************)
(* Proof that the tab forgets no project, for any projects, statuses and   *)
(* numbers of overlapping requests and refreshes.                          *)
(***************************************************************************)
EXTENDS Frontend, FiniteSetTheorems, TLAPS

(***************************************************************************)
(* The invariant needs a fact of another variable: a project without a     *)
(* status stays so until Submit, which has it wait for its creation.       *)
(***************************************************************************)
StatusOK == status \in [Projects -> Statuses \cup {"NONE"}]
Kept == StatusOK /\ NoProjectForgotten

\* The status of a project that exists is not "NONE".
LEMMA NoneIsNoStatus == "NONE" \notin Statuses
<1>1. \A i \in 1..Len(Pipeline) : Pipeline[i] # "NONE"
  BY FrontendAssumption DEF STATUS_PIPELINE
<1> QED
  BY <1>1 DEF Statuses

\* A status the server passes through is a status.
LEMMA PipelineStatus == \A i \in 1..Len(Pipeline) : Pipeline[i] \in Statuses
  BY DEF Statuses

\* While no project comes to exist, an id is dropped only with its request.
LEMMA Unforgotten ==
    ASSUME Kept, StatusOK',
           \A q \in Projects : status'[q] # "NONE" => status[q] # "NONE",
           creating' = creating, refused \subseteq refused', ids \ refused' \subseteq ids'
    PROVE  Kept'
  BY DEF Kept, NoProjectForgotten

\* One step per action: only Submit, Created, CreateFails and GetFails touch
\* what the invariant is about.
LEMMA KeptStep == Kept /\ [Next]_vars => Kept'
<1> SUFFICES ASSUME Kept, [Next]_vars PROVE Kept'
  OBVIOUS
<1> USE DEF Kept, StatusOK, serverVars, formVars
<1>1. ASSUME NEW p \in Projects, Server(p) PROVE Kept'
  <2>1. /\ \A q \in Projects : status'[q] # "NONE" => status[q] # "NONE"
        /\ StatusOK'
    <3>1. CASE Proceed(p)
      <4>1. PICK i \in 1..(Len(Pipeline) - 1) :
              /\ status[p] = Pipeline[i]
              /\ status' = [status EXCEPT ![p] = Pipeline[i + 1]]
        BY <3>1 DEF Proceed
      <4>2. Len(Pipeline) \in Nat /\ i \in 1..Len(Pipeline) /\ i + 1 \in 1..Len(Pipeline)
        BY <4>1, FrontendAssumption
      <4> QED
        BY <4>1, <4>2, PipelineStatus, NoneIsNoStatus
    <3>2. CASE Fails(p)
      <4>1. PICK i \in 1..(Len(Pipeline) - 1) : status[p] = Pipeline[i]
        BY <3>2 DEF Fails
      <4>2. Len(Pipeline) \in Nat /\ i \in 1..Len(Pipeline)
        BY <4>1, FrontendAssumption
      <4>3. "FAILED" \in Statuses /\ status' = [status EXCEPT ![p] = "FAILED"]
        BY <3>2 DEF Fails, Statuses
      <4> QED
        BY <4>1, <4>2, <4>3, PipelineStatus, NoneIsNoStatus
    <3>3. CASE Resumes(p)
      BY <3>3, PipelineStatus, NoneIsNoStatus DEF Resumes
    <3> QED
      BY <1>1, <3>1, <3>2, <3>3 DEF Server
  <2> QED
    BY <1>1, <2>1, Unforgotten DEF Server
<1>2. ASSUME NEW p \in Projects, OpenDetail(p) PROVE Kept'
  BY <1>2, Unforgotten DEF OpenDetail
<1>3. ASSUME NEW p \in Projects, Submit(p) PROVE Kept'
  <2>1. "CREATED" \in Statuses
    BY FrontendAssumption DEF Statuses
  <2>2. status' = [status EXCEPT ![p] = "CREATED"] /\ creating' = creating \cup {p}
        /\ ids' = ids /\ refused' = refused
    BY <1>3 DEF Submit
  <2> QED
    BY <2>1, <2>2 DEF NoProjectForgotten
<1>4. ASSUME NEW p \in Projects, Created(p) PROVE Kept'
  <2>1. creating' = creating \ {p} /\ ids' = ids \cup {p} /\ refused' = refused /\ status' = status
    BY <1>4 DEF Created
  <2> QED
    BY <2>1 DEF NoProjectForgotten
<1>5. ASSUME NEW p \in Projects, CreateFails(p) PROVE Kept'
  BY <1>5 DEF CreateFails, NoProjectForgotten
<1>6. ASSUME NEW p \in Projects, Answer(p) PROVE Kept'
  BY <1>6, Unforgotten DEF Answer
<1>7. ASSUME NEW p \in Projects, Act(p) PROVE Kept'
  <2>1. /\ \A q \in Projects : status'[q] # "NONE" => status[q] # "NONE"
        /\ StatusOK'
    <3>1. CASE \E st \in Statuses \cap PROCESSING_STATUSES :
                 status' = [status EXCEPT ![p] = IF @ = "FAILED" THEN st ELSE @]
      BY <3>1, NoneIsNoStatus
    <3>2. CASE status[p] = "IN_REVIEW" /\ status' = [status EXCEPT ![p] = "DECIDED"]
      BY <3>2 DEF Statuses
    <3> QED
      BY <1>7, <3>1, <3>2 DEF Act
  <2> QED
    BY <1>7, <2>1, Unforgotten DEF Act
<1>8. CASE OpenForm
  BY <1>8, Unforgotten DEF OpenForm
<1>9. CASE OpenDashboard
  BY <1>9, Unforgotten DEF OpenDashboard
<1>10. CASE Poll
  BY <1>10, Unforgotten DEF Poll
<1>11. CASE Receive
  BY <1>11, Unforgotten DEF Receive
<1>12. CASE Refresh
  BY <1>12, Unforgotten DEF Refresh
<1>13. ASSUME NEW c \in Calls, CallStep(c) PROVE Kept'
  <2>1. CASE Get(c)
    BY <2>1, Unforgotten DEF Get
  <2>2. CASE GetFails(c)
    BY <2>2, Unforgotten DEF GetFails, StorageWithout
  <2>3. CASE EndCall(c)
    BY <2>3, Unforgotten DEF EndCall
  <2> QED
    BY <1>13, <2>1, <2>2, <2>3 DEF CallStep
<1>14. CASE UNCHANGED vars
  BY <1>14, Unforgotten DEF vars
<1> QED
  BY <1>1, <1>2, <1>3, <1>4, <1>5, <1>6, <1>7, <1>8, <1>9, <1>10, <1>11, <1>12,
     <1>13, <1>14 DEF Next

\* No project is forgotten (storage.ts, hooks.ts): the id of a project that was
\* created stays in local storage while no request about it fails, whichever
\* calls of fetchAll overlap each other and the form.
THEOREM NothingIsForgotten == Spec => []NoProjectForgotten
<1>1. Init => Kept
  BY DEF Init, Kept, StatusOK, NoProjectForgotten
<1>2. Kept => NoProjectForgotten
  BY DEF Kept
<1> QED
  BY <1>1, <1>2, KeptStep, PTL DEF Spec

-----------------------------------------------------------------------------
(* Types.  The lists of the tab hold projects that exist, so that no        *)
(* request is answered with a status a project does not have; and projects  *)
(* never cease to exist.                                                    *)

Existing == {p \in Projects : status[p] # "NONE"}
Pages(E) == {Dashboard, CreateForm} \cup {Detail(p) : p \in E}
CallsFor(E) == [todo : SUBSET E, got : SUBSET (E \X Statuses), mounted : BOOLEAN, active : BOOLEAN]

ServerOK == StatusOK /\ fails \in 0..MaxFailures
FormOK ==
    /\ creating \in SUBSET Existing /\ ids \in SUBSET Existing
    /\ errors \in 0..MaxErrors /\ refused \in SUBSET Projects
    /\ loading \in SUBSET creating /\ (view # CreateForm => loading = {})
DetailOK ==
    /\ view \in Pages(Existing)
    /\ shown \in Statuses \cup {"NONE"} /\ error \in BOOLEAN /\ sent \in 0..MaxRequests
    /\ answers \in SUBSET (Statuses \cup {"error"}) /\ IsFiniteSet(answers)
DashboardOK ==
    /\ list \in SUBSET (Existing \X Statuses) /\ runs \in [Calls -> CallsFor(Existing)]
    /\ view # Dashboard => list = {} /\ \A c \in Calls : ~runs[c].mounted

\* The inductive invariant.
TabOK == ServerOK /\ FormOK /\ DetailOK /\ DashboardOK

LEMMA PagesApart ==
    /\ Dashboard # CreateForm
    /\ \A p : Detail(p) # Dashboard /\ Detail(p) # CreateForm
    /\ \A p, q : Detail(p) = Detail(q) => p = q
  BY DEF Dashboard, CreateForm, Detail

LEMMA PipelineFacts ==
    /\ Len(Pipeline) \in Nat /\ Len(Pipeline) >= 1
    /\ \A i \in 1..Len(Pipeline) : Pipeline[i] \in Statuses
    /\ {"CREATED", "FAILED", "DECIDED"} \subseteq Statuses /\ "NONE" \notin Statuses
<1>1. Len(Pipeline) \in Nat /\ Len(Pipeline) >= 1
  BY FrontendAssumption
<1> QED
  BY <1>1, NoneIsNoStatus, PipelineStatus, FrontendAssumption DEF Statuses

\* Every step leaves the projects that exist in existence.
LEMMA ServerOKStep ==
    ASSUME TabOK, [Next]_vars
    PROVE  ServerOK' /\ Existing \subseteq Existing'
<1> USE DEF TabOK, ServerOK, StatusOK, Existing
<1>1. CASE UNCHANGED serverVars
  BY <1>1 DEF serverVars
<1>2. ASSUME NEW p \in Projects, NEW s \in Statuses, status' = [status EXCEPT ![p] = s],
             fails' \in 0..MaxFailures
      PROVE  ServerOK' /\ Existing \subseteq Existing'
  BY <1>2, NoneIsNoStatus
<1>3. ASSUME NEW p \in Projects, Server(p) PROVE ServerOK' /\ Existing \subseteq Existing'
  <2>1. ASSUME NEW i \in 1..(Len(Pipeline) - 1) PROVE Pipeline[i + 1] \in Statuses
    BY PipelineFacts
  <2>2. CASE Proceed(p) /\ UNCHANGED fails
    BY <1>2, <2>1, <2>2 DEF Proceed
  <2>3. CASE Fails(p)
    <3>1. fails' \in 0..MaxFailures
      BY <2>3, FrontendAssumption DEF Fails
    <3> QED
      BY <1>2, <2>3, <3>1, PipelineFacts DEF Fails
  <2>4. CASE Resumes(p) /\ UNCHANGED fails
    BY <1>2, <2>4, PipelineFacts DEF Resumes
  <2> QED
    BY <1>3, <2>2, <2>3, <2>4 DEF Server
<1>4. ASSUME NEW p \in Projects, Submit(p) PROVE ServerOK' /\ Existing \subseteq Existing'
  BY <1>2, <1>4, PipelineFacts DEF Submit
<1>5. ASSUME NEW p \in Projects, Act(p) PROVE ServerOK' /\ Existing \subseteq Existing'
  <2>1. UNCHANGED fails
    BY <1>5 DEF Act
  <2>2. CASE \E s \in Statuses \cap PROCESSING_STATUSES :
               status' = [status EXCEPT ![p] = IF @ = "FAILED" THEN s ELSE @]
    BY <2>1, <2>2, NoneIsNoStatus
  <2>3. CASE status' = [status EXCEPT ![p] = "DECIDED"]
    BY <1>2, <2>1, <2>3, PipelineFacts
  <2> QED
    BY <1>5, <2>2, <2>3 DEF Act
<1>6. CASE UNCHANGED vars
  BY <1>1, <1>6 DEF vars, serverVars
<1> QED
  BY <1>1, <1>3, <1>4, <1>5, <1>6 DEF Next, OpenDetail, Created, CreateFails, Answer, OpenForm,
     OpenDashboard, Poll, Receive, Refresh, CallStep, Get, GetFails, EndCall

\* What is about projects that exist stays so.
LEMMA StillExist ==
    ASSUME Existing \subseteq Existing'
    PROVE  /\ SUBSET Existing \subseteq SUBSET Existing' /\ Pages(Existing) \subseteq Pages(Existing')
           /\ SUBSET (Existing \X Statuses) \subseteq SUBSET (Existing' \X Statuses)
           /\ CallsFor(Existing) \subseteq CallsFor(Existing')
<1>1. Existing \X Statuses \subseteq Existing' \X Statuses
  OBVIOUS
<1> QED
  BY <1>1 DEF Pages, CallsFor

LEMMA FormOKStep ==
    ASSUME TabOK, [Next]_vars
    PROVE  FormOK'
<1>1. SUBSET Existing \subseteq SUBSET Existing' /\ FormOK /\ ServerOK
  BY ServerOKStep, StillExist DEF TabOK
<1>2. ASSUME UNCHANGED <<creating, ids, errors, refused>>,
             loading' = {} \/ (UNCHANGED <<loading, view>>) PROVE FormOK'
  BY <1>1, <1>2 DEF FormOK
<1>3. ASSUME NEW p \in Projects, Submit(p) PROVE FormOK'
  <2>1. p \in Existing'
    BY <1>1, <1>3 DEF Submit, ServerOK, StatusOK, Existing
  <2>2. creating' \in SUBSET Existing' /\ ids' \in SUBSET Existing'
    BY <1>1, <1>3, <2>1 DEF Submit, FormOK
  <2>3. loading' \in SUBSET creating' /\ view' = CreateForm
    BY <1>3 DEF Submit
  <2> QED
    BY <1>1, <1>3, <2>2, <2>3 DEF Submit, FormOK
<1>4. ASSUME NEW p \in Projects, Created(p) PROVE FormOK'
  BY <1>1, <1>4 DEF Created, FormOK
<1>5. ASSUME NEW p \in Projects, CreateFails(p) PROVE FormOK'
  BY <1>1, <1>5, FrontendAssumption DEF CreateFails, FormOK
<1>6. ASSUME NEW p \in Projects, Answer(p) PROVE FormOK'
  BY <1>1, <1>6, FrontendAssumption DEF Answer, FormOK, formVars
<1>7. ASSUME NEW c \in Calls, GetFails(c) PROVE FormOK'
  <2>1. \A p \in runs[c].todo : p \in Projects
    BY DEF TabOK, DashboardOK, CallsFor, Existing
  <2> QED
    BY <1>1, <1>7, <2>1, FrontendAssumption DEF GetFails, StorageWithout, FormOK, formVars
<1>8. CASE UNCHANGED vars
  BY <1>2, <1>8 DEF vars
<1>9. ASSUME NEW p \in Projects, OpenDetail(p) PROVE FormOK'
  <2>1. loading = {}
    BY <1>1, <1>9, PagesApart DEF OpenDetail, FormOK
  <2> QED
    BY <1>2, <1>9, <2>1 DEF OpenDetail, formVars
<1>10. CASE OpenForm
  <2>1. loading = {}
    BY <1>1, <1>10 DEF OpenForm, FormOK
  <2> QED
    BY <1>2, <1>10, <2>1 DEF OpenForm, formVars
<1>11. CASE OpenDashboard
  BY <1>2, <1>11 DEF OpenDashboard
<1>12. ASSUME NEW p \in Projects, Server(p) \/ Act(p) PROVE FormOK'
  BY <1>2, <1>12 DEF Server, Act, formVars
<1>13. CASE Poll \/ Receive \/ Refresh
  BY <1>2, <1>13 DEF Poll, Receive, Refresh, formVars
<1>14. ASSUME NEW c \in Calls, Get(c) \/ EndCall(c) PROVE FormOK'
  BY <1>2, <1>14 DEF Get, EndCall, formVars
<1> QED
  BY <1>3, <1>4, <1>5, <1>6, <1>7, <1>8, <1>9, <1>10, <1>11, <1>12, <1>13, <1>14 DEF Next, CallStep

\* A page that was just mounted, or that is gone, has the state it must have.
LEMMA Mounted ==
    /\ \A p \in Existing' : MountDetail(p) => DetailOK'
    /\ NoDetail /\ view' \in {Dashboard, CreateForm} => DetailOK'
<1>1. IsFiniteSet({}) /\ 1 \in 0..MaxRequests /\ 0 \in 0..MaxRequests
  BY FS_EmptySet, FrontendAssumption
<1> QED
  BY <1>1 DEF MountDetail, NoDetail, DetailOK, Pages

\* A page asks only while few of its requests are under way.
LEMMA Asking ==
    ASSUME DetailOK, Ask
    PROVE  sent' \in 0..MaxRequests
<1>1. Cardinality(answers) \in Nat
  BY FS_CardinalityType DEF DetailOK
<1> QED
  BY <1>1, FrontendAssumption DEF DetailOK, Ask

LEMMA DetailOKStep ==
    ASSUME TabOK, [Next]_vars
    PROVE  DetailOK'
<1>1. Pages(Existing) \subseteq Pages(Existing') /\ Existing \subseteq Existing' /\ ServerOK
      /\ FormOK /\ DetailOK /\ DashboardOK
  BY ServerOKStep, StillExist DEF TabOK
<1>2. CASE UNCHANGED <<view, detailVars>>
  BY <1>1, <1>2 DEF DetailOK, detailVars
<1>3. ASSUME NEW p \in Projects, OpenDetail(p) PROVE DetailOK'
  <2>1. p \in Existing
    BY <1>1, <1>3 DEF OpenDetail, DashboardOK
  <2> QED
    BY <1>1, <1>3, <2>1, Mounted DEF OpenDetail
<1>4. ASSUME NEW p \in Projects, Created(p) PROVE DetailOK'
  <2>1. p \in Existing
    BY <1>1, <1>4 DEF Created, FormOK
  <2> QED
    BY <1>1, <1>4, <2>1, Mounted DEF Created
<1>5. CASE OpenForm \/ OpenDashboard
  BY <1>5, Mounted DEF OpenForm, OpenDashboard
<1>6. CASE Poll
  BY <1>1, <1>6, Asking DEF Poll, DetailOK
<1>7. ASSUME NEW p \in Projects, Act(p) PROVE DetailOK'
  BY <1>1, <1>7, Asking DEF Act, DetailOK
<1>8. ASSUME NEW p \in Projects, Answer(p) PROVE DetailOK'
  <2>1. p \in Existing
    BY <1>1, <1>8, PagesApart DEF Answer, OnDetail, DetailOK, Pages
  <2>2. status[p] \in Statuses
    BY <1>1, <2>1 DEF ServerOK, StatusOK, Existing
  <2>3. \A a : IsFiniteSet(answers \cup {a})
    BY <1>1, FS_AddElement DEF DetailOK
  <2>4. sent' \in 0..MaxRequests
    BY <1>1, <1>8, FrontendAssumption DEF Answer, DetailOK
  <2> QED
    BY <1>1, <1>8, <2>2, <2>3, <2>4 DEF Answer, DetailOK
<1>9. CASE Receive
  <2>1. \A a : IsFiniteSet(answers \ {a})
    BY <1>1, FS_Subset DEF DetailOK
  <2>2. PICK a \in answers : /\ answers' = answers \ {a}
                             /\ IF a = "error" THEN OnError ELSE shown' = a /\ error' = FALSE
                             /\ UNCHANGED <<serverVars, view, sent>>
    BY <1>9 DEF Receive
  <2>3. shown' \in Statuses \cup {"NONE"} /\ error' \in BOOLEAN
    BY <1>1, <2>2 DEF OnError, DetailOK
  <2> QED
    BY <1>1, <2>1, <2>2, <2>3 DEF DetailOK
<1>10. CASE UNCHANGED vars
  BY <1>2, <1>10 DEF vars, detailVars
<1> QED
  BY <1>2, <1>3, <1>4, <1>5, <1>6, <1>7, <1>8, <1>9, <1>10 DEF Next, Server, Submit, CreateFails,
     Refresh, CallStep, Get, GetFails, EndCall

LEMMA DashboardOKStep ==
    ASSUME TabOK, [Next]_vars
    PROVE  DashboardOK'
<1>1. /\ ServerOK /\ FormOK /\ DetailOK /\ DashboardOK
      /\ Existing \subseteq Existing' /\ CallsFor(Existing) \subseteq CallsFor(Existing')
      /\ SUBSET (Existing \X Statuses) \subseteq SUBSET (Existing' \X Statuses)
  BY ServerOKStep, StillExist DEF TabOK
<1>2. CASE UNCHANGED <<view, dashboardVars>>
  BY <1>1, <1>2 DEF DashboardOK, dashboardVars
<1>3. ASSUME list' = {}, runs' = Unmount PROVE DashboardOK'
  <2>1. \A c \in Calls : runs'[c] \in CallsFor(Existing) /\ ~runs'[c].mounted
    BY <1>1, <1>3 DEF Unmount, DashboardOK, CallsFor
  <2>2. runs' \in [Calls -> CallsFor(Existing')]
    BY <1>1, <1>3, <2>1 DEF Unmount
  <2> QED
    BY <1>3, <2>1, <2>2 DEF DashboardOK
<1>4. NewCall \in CallsFor(Existing) /\ NoCall \in CallsFor(Existing)
  BY <1>1 DEF NewCall, NoCall, CallsFor, FormOK
<1>5. ASSUME view' = Dashboard, UNCHANGED list, NEW c \in Calls, runs' = [runs EXCEPT ![c] = NewCall]
      PROVE  DashboardOK'
  BY <1>1, <1>4, <1>5 DEF DashboardOK
<1>6. CASE OpenDashboard \/ Refresh
  BY <1>5, <1>6 DEF OpenDashboard, Refresh
<1>7. ASSUME NEW c \in Calls, Get(c) PROVE DashboardOK'
  <2>1. PICK p \in runs[c].todo :
          runs' = [runs EXCEPT ![c].todo = @ \ {p},
                               ![c].got = IF runs[c].mounted THEN @ \cup {<<p, status[p]>>} ELSE @]
    BY <1>7 DEF Get
  <2>2. p \in Existing /\ status[p] \in Statuses
    BY <1>1 DEF DashboardOK, CallsFor, ServerOK, StatusOK, Existing
  <2>3. runs \in [Calls -> CallsFor(Existing)]
    BY <1>1 DEF DashboardOK
  <2>4. <<p, status[p]>> \in Existing \X Statuses
    BY <2>2
  <2> DEFINE got == IF runs[c].mounted THEN runs[c].got \cup {<<p, status[p]>>} ELSE runs[c].got
             call == [runs[c] EXCEPT !.todo = runs[c].todo \ {p}, !.got = got]
  <2>5. runs[c] \in CallsFor(Existing)
    BY <2>3
  <2>6. got \in SUBSET (Existing \X Statuses) /\ runs[c].todo \ {p} \in SUBSET Existing
    BY <2>4, <2>5 DEF CallsFor
  <2> HIDE DEF got
  <2>7. call \in CallsFor(Existing) /\ call.mounted = runs[c].mounted
    BY <2>5, <2>6 DEF CallsFor
  <2>8. runs' = [runs EXCEPT ![c] = call]
    BY <2>1, <2>3, <2>5 DEF got, CallsFor
  <2> HIDE DEF call
  <2>9. runs' \in [Calls -> CallsFor(Existing)] /\ \A d \in Calls : runs'[d].mounted = runs[d].mounted
    BY <2>3, <2>7, <2>8
  <2> QED
    BY <1>1, <1>7, <2>9 DEF Get, DashboardOK
<1>8. ASSUME NEW c \in Calls, GetFails(c) PROVE DashboardOK'
  <2>1. PICK p \in runs[c].todo : runs' = [runs EXCEPT ![c].todo = @ \ {p}]
    BY <1>8 DEF GetFails
  <2>2. runs' \in [Calls -> CallsFor(Existing)] /\ \A d \in Calls : runs'[d].mounted = runs[d].mounted
    BY <1>1, <2>1 DEF DashboardOK, CallsFor
  <2> QED
    BY <1>1, <1>8, <2>2 DEF GetFails, DashboardOK
<1>9. ASSUME NEW c \in Calls, EndCall(c) PROVE DashboardOK'
  <2>1. list' \in SUBSET (Existing \X Statuses)
    BY <1>1, <1>9 DEF EndCall, DashboardOK, CallsFor
  <2>2. runs' \in [Calls -> CallsFor(Existing)]
    BY <1>1, <1>4, <1>9 DEF EndCall, DashboardOK
  <2>3. view # Dashboard => list' = {} /\ \A d \in Calls : ~runs'[d].mounted
    BY <1>1, <1>9 DEF EndCall, DashboardOK, NoCall
  <2> QED
    BY <1>1, <1>9, <2>1, <2>2, <2>3 DEF EndCall, DashboardOK
<1>10. CASE UNCHANGED vars
  BY <1>2, <1>10 DEF vars, dashboardVars
<1>11. ASSUME NEW p \in Projects, OpenDetail(p) \/ Created(p) PROVE DashboardOK'
  BY <1>3, <1>11 DEF OpenDetail, Created
<1>12. CASE OpenForm
  BY <1>3, <1>12 DEF OpenForm
<1> QED
  BY <1>2, <1>6, <1>7, <1>8, <1>9, <1>10, <1>11, <1>12 DEF Next, Server, Submit, CreateFails, Answer,
     Act, Poll, Receive, CallStep

\* Every variable of the tab holds what its comment says; in particular no
\* answer and no list carries the status "NONE": the tab asks only for projects
\* that exist, although ids outlive the calls that read them.
THEOREM FrontendTypes == Spec => []TypeOK
<1>1. Init => TabOK
  <2> SUFFICES ASSUME Init PROVE TabOK
    OBVIOUS
  <2>1. ServerOK /\ FormOK
    BY FrontendAssumption DEF Init, ServerOK, StatusOK, FormOK
  <2>2. DetailOK
    <3>1. IsFiniteSet({}) /\ 0 \in 0..MaxRequests
      BY FS_EmptySet, FrontendAssumption
    <3> QED
      BY <3>1 DEF Init, DetailOK, Pages
  <2>3. DashboardOK
    BY PagesApart DEF Init, DashboardOK, CallsFor, NoCall
  <2> QED
    BY <2>1, <2>2, <2>3 DEF TabOK
<1>2. TabOK /\ [Next]_vars => TabOK'
  BY ServerOKStep, FormOKStep, DetailOKStep, DashboardOKStep DEF TabOK
<1>3. TabOK => TypeOK
  BY DEF TabOK, ServerOK, StatusOK, FormOK, DetailOK, DashboardOK, TypeOK, Existing, Pages, CallsFor
<1> QED
  BY <1>1, <1>2, <1>3, PTL DEF Spec
=============================================================================
