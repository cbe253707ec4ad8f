-------------------------------- MODULE Frontend --------------------------------
(***************************************************************************)
(* One tab of the browser (frontend/src): the list of project ids in local *)
(* storage (storage.ts), the detail page with useProject, the dashboard    *)
(* with useProjects (both hooks.ts) and the form that creates projects,    *)
(* against projects whose status the server changes on its own.            *)
(*                                                                         *)
(* One page is mounted at a time.  Timers fire whether or not the last     *)
(* request was answered, so requests overlap and their answers come in any *)
(* order; the answer to a request of a page that is gone is dropped.       *)
(***************************************************************************)
EXTENDS Naturals, Sequences, FiniteSets

CONSTANTS Projects,      \* project ids
          Pipeline,      \* the statuses a project passes (STATUS_PIPELINE)
          MaxRequests,   \* bound: requests, and refreshes of the list, at a time
          MaxErrors,     \* bound: requests that fail
          MaxFailures    \* bound: times a project becomes FAILED

STATUS_PIPELINE ==
    <<"CREATED", "SCRIPT_GENERATING", "SCRIPT_READY", "SCENES_GENERATING",
      "SCENES_READY", "VOICE_GENERATING", "ASSETS_READY", "SUBTITLES_GENERATING",
      "SUBTITLES_READY", "RENDERING", "RENDER_READY", "IN_REVIEW">>

ASSUME FrontendAssumption ==
    /\ Pipeline \in Seq({STATUS_PIPELINE[i] : i \in 1..Len(STATUS_PIPELINE)})
    /\ Pipeline # <<>> /\ Pipeline[1] = "CREATED"
    /\ MaxRequests \in Nat \ {0}
    /\ MaxErrors \in Nat /\ MaxFailures \in Nat

VARIABLES status,     \* the server: status[p], "NONE" before the project exists
          fails,      \* the server: how often projects became FAILED
          creating,   \* projects whose creation was not answered yet
          loading,    \* CreateProjectForm: loading is set for this project
          ids,        \* local storage: STORAGE_KEY
          view,       \* the page that is mounted
          shown,      \* useProject: project.status, "NONE" for no project
          error,      \* useProject: error is set
          sent,       \* useProject: requests the server has not answered
          answers,    \* useProject: answers under way
          list,       \* useProjects: the ids and statuses of projects
          runs,       \* useProjects: the calls of fetchAll that have not ended
          errors,     \* requests that failed
          refused     \* history: projects with a request that failed

vars == <<status, fails, creating, loading, ids, view, shown, error, sent, answers,
          list, runs, errors, refused>>
serverVars == <<status, fails>>
formVars == <<creating, loading>>
detailVars == <<shown, error, sent, answers>>
dashboardVars == <<list, runs>>

-----------------------------------------------------------------------------
\* DECIDED stands for APPROVED and REJECTED, which no step tells apart.
Statuses == {Pipeline[i] : i \in 1..Len(Pipeline)} \cup {"FAILED", "DECIDED"}

Dashboard == <<"dashboard">>
CreateForm == <<"create">>
Detail(p) == <<"detail", p>>

\* Definitions named Wrong... are mutants of the one that follows them.
WrongProcessing ==
    {"CREATED", "SCRIPT_GENERATING", "SCENES_GENERATING", "VOICE_GENERATING",
     "SUBTITLES_GENERATING"}
PROCESSING_STATUSES ==
    {"CREATED", "SCRIPT_GENERATING", "SCENES_GENERATING", "VOICE_GENERATING",
     "SUBTITLES_GENERATING", "RENDERING"}
IsProcessing(st) == st \in PROCESSING_STATUSES

Calls == 1..MaxRequests
NoCall == [todo |-> {}, got |-> {}, mounted |-> FALSE, active |-> FALSE]

\* fetchAll: it reads the ids once and asks for one after the other.
NewCall == [todo |-> ids, got |-> {}, mounted |-> TRUE, active |-> TRUE]

-----------------------------------------------------------------------------
Init ==
    /\ status = [p \in Projects |-> "NONE"]
    /\ fails = 0
    /\ creating = {} /\ loading = {}
    /\ ids = {}
    /\ view = CreateForm
    /\ shown = "NONE" /\ error = FALSE /\ sent = 0 /\ answers = {}
    /\ list = {}
    /\ runs = [c \in Calls |-> NoCall]
    /\ errors = 0
    /\ refused = {}

-----------------------------------------------------------------------------
(* The server: the workflow moves a project on, or it fails; the queue may *)
(* repeat the job that failed, and then the project goes on.               *)

Proceed(p) ==
    \E i \in 1..(Len(Pipeline) - 1) :
        /\ status[p] = Pipeline[i]
        /\ status' = [status EXCEPT ![p] = Pipeline[i + 1]]

Fails(p) ==
    /\ fails < MaxFailures
    /\ \E i \in 1..(Len(Pipeline) - 1) : status[p] = Pipeline[i]
    /\ fails' = fails + 1
    /\ status' = [status EXCEPT ![p] = "FAILED"]

Resumes(p) ==
    /\ status[p] = "FAILED"
    /\ \E i \in 2..Len(Pipeline) : status' = [status EXCEPT ![p] = Pipeline[i]]

Server(p) ==
    /\ \/ Proceed(p) /\ UNCHANGED fails
       \/ Fails(p)
       \/ Resumes(p) /\ UNCHANGED fails
    /\ UNCHANGED <<formVars, ids, view, detailVars, dashboardVars, errors, refused>>

-----------------------------------------------------------------------------
(* Pages.                                                                  *)

\* useProject of a page that was just mounted asks at once.
MountDetail(p) ==
    /\ view' = Detail(p)
    /\ shown' = "NONE" /\ error' = FALSE /\ sent' = 1 /\ answers' = {}

NoDetail == shown' = "NONE" /\ error' = FALSE /\ sent' = 0 /\ answers' = {}

WrongUnmount == runs

\* The calls of the dashboard that goes away go on without it, for nothing but
\* the ids they remove.
Unmount == [c \in Calls |-> [runs[c] EXCEPT !.mounted = FALSE, !.got = {}]]

OpenDetail(p) ==
    /\ view = Dashboard
    /\ \E st \in Statuses : <<p, st>> \in list
    /\ MountDetail(p)
    /\ list' = {} /\ runs' = Unmount
    /\ UNCHANGED <<serverVars, formVars, ids, errors, refused>>

OpenForm ==
    /\ view # CreateForm
    /\ view' = CreateForm
    /\ NoDetail
    /\ list' = {} /\ runs' = Unmount
    /\ UNCHANGED <<serverVars, formVars, ids, errors, refused>>

OpenDashboard ==
    /\ view # Dashboard
    /\ \E c \in Calls :
         /\ ~runs[c].active
         /\ runs' = [runs EXCEPT ![c] = NewCall]
    /\ view' = Dashboard
    /\ NoDetail
    /\ loading' = {}
    /\ UNCHANGED <<serverVars, creating, ids, list, errors, refused>>

-----------------------------------------------------------------------------
(* The form: createProject, then saveProjectId, then the page of the       *)
(* project.  The form goes on when its page is gone; a form that is mounted *)
(* later does not know of it, and may create another project meanwhile.    *)

Submit(p) ==
    /\ view = CreateForm
    /\ loading = {}
    /\ status[p] = "NONE"
    /\ status' = [status EXCEPT ![p] = "CREATED"]
    /\ creating' = creating \cup {p} /\ loading' = {p}
    /\ UNCHANGED <<fails, ids, view, detailVars, dashboardVars, errors, refused>>

Created(p) ==
    /\ p \in creating
    /\ creating' = creating \ {p} /\ loading' = {}
    /\ ids' = ids \cup {p}
    /\ MountDetail(p)
    /\ list' = {} /\ runs' = Unmount
    /\ UNCHANGED <<serverVars, errors, refused>>

CreateFails(p) ==
    /\ p \in creating
    /\ errors < MaxErrors
    /\ errors' = errors + 1
    /\ refused' = refused \cup {p}
    /\ creating' = creating \ {p} /\ loading' = loading \ {p}
    /\ UNCHANGED <<serverVars, ids, view, detailVars, dashboardVars>>

-----------------------------------------------------------------------------
(* useProject.                                                             *)

OnDetail(p) == view = Detail(p)
Ask == sent + Cardinality(answers) < MaxRequests /\ sent' = sent + 1

\* The timer of the page that shows a project at work.
Poll ==
    /\ \E p \in Projects : OnDetail(p)
    /\ IsProcessing(shown)
    /\ Ask
    /\ UNCHANGED <<serverVars, formVars, ids, view, shown, error, answers,
                   dashboardVars, errors, refused>>

Answer(p) ==
    /\ OnDetail(p)
    /\ sent > 0
    /\ sent' = sent - 1
    /\ \/ /\ answers' = answers \cup {status[p]}
          /\ UNCHANGED <<errors, refused>>
       \/ /\ errors < MaxErrors
          /\ errors' = errors + 1
          /\ refused' = refused \cup {p}
          /\ answers' = answers \cup {"error"}
    /\ UNCHANGED <<serverVars, formVars, ids, view, shown, error, dashboardVars>>

\* An error keeps the project, and with it the timer.
OnError == error' = TRUE /\ UNCHANGED shown

Receive ==
    \E a \in answers :
        /\ answers' = answers \ {a}
        /\ IF a = "error" THEN OnError ELSE shown' = a /\ error' = FALSE
        /\ UNCHANGED <<serverVars, formVars, ids, view, sent, dashboardVars,
                       errors, refused>>

\* Retry, approve and reject: done by the server, then the page asks again.
Act(p) ==
    /\ OnDetail(p) /\ ~error
    /\ \/ /\ shown = "FAILED"
          /\ \E st \in Statuses \cap PROCESSING_STATUSES :
               status' = [status EXCEPT ![p] = IF @ = "FAILED" THEN st ELSE @]
       \/ /\ shown = "IN_REVIEW" /\ status[p] = "IN_REVIEW"
          /\ status' = [status EXCEPT ![p] = "DECIDED"]
    /\ Ask
    /\ UNCHANGED <<fails, formVars, ids, view, shown, error, answers, dashboardVars,
                   errors, refused>>

-----------------------------------------------------------------------------
(* useProjects.                                                            *)

WrongHasProcessing == list # {} /\ \A project \in list : IsProcessing(project[2])
HasProcessing == \E project \in list : IsProcessing(project[2])

\* The timer of the dashboard, while a project of its list is at work.
Refresh ==
    /\ view = Dashboard
    /\ HasProcessing
    /\ \E c \in Calls :
         /\ ~runs[c].active
         /\ runs' = [runs EXCEPT ![c] = NewCall]
    /\ UNCHANGED <<serverVars, formVars, ids, view, detailVars, list, errors, refused>>

\* getProject for the next id.
Get(c) ==
    /\ runs[c].active
    /\ \E p \in runs[c].todo :
         runs' = [runs EXCEPT ![c].todo = @ \ {p},
                              ![c].got = IF runs[c].mounted THEN @ \cup {<<p, status[p]>>} ELSE @]
    /\ UNCHANGED <<serverVars, formVars, ids, view, detailVars, list, errors, refused>>

WrongStorageWithout(c, p) ==
    (runs[c].todo \cup {project[1] : project \in runs[c].got}) \ {p}

\* removeProjectId reads the ids again before it writes them without p.
StorageWithout(c, p) == ids \ {p}

\* Any error, not only a 404, removes the id from local storage.
GetFails(c) ==
    /\ runs[c].active
    /\ errors < MaxErrors
    /\ \E p \in runs[c].todo :
         /\ runs' = [runs EXCEPT ![c].todo = @ \ {p}]
         /\ ids' = StorageWithout(c, p)
         /\ refused' = refused \cup {p}
    /\ errors' = errors + 1
    /\ UNCHANGED <<serverVars, formVars, view, detailVars, list>>

\* The list becomes what this call got, also when a later call was faster.
EndCall(c) ==
    /\ runs[c].active /\ runs[c].todo = {}
    /\ runs' = [runs EXCEPT ![c] = NoCall]
    /\ list' = IF runs[c].mounted THEN runs[c].got ELSE list
    /\ UNCHANGED <<serverVars, formVars, ids, view, detailVars, errors, refused>>

-----------------------------------------------------------------------------
CallStep(c) == Get(c) \/ GetFails(c) \/ EndCall(c)

Next ==
    \/ \E p \in Projects :
         Server(p) \/ OpenDetail(p) \/ Submit(p) \/ Created(p) \/ CreateFails(p)
         \/ Answer(p) \/ Act(p)
    \/ OpenForm \/ OpenDashboard \/ Poll \/ Receive \/ Refresh
    \/ \E c \in Calls : CallStep(c)

Spec == Init /\ [][Next]_vars

\* Timers fire and requests are answered; neither the server nor the user has
\* to do anything.
FairSpec ==
    /\ Spec
    /\ WF_vars(Poll) /\ WF_vars(Receive) /\ WF_vars(Refresh)
    /\ WF_vars(\E p \in Projects : Answer(p))
    /\ \A c \in Calls : WF_vars(CallStep(c))

-----------------------------------------------------------------------------
(* Properties.                                                             *)

\* Every variable holds what its comment says; a page that is not mounted has
\* no state.
TypeOK ==
    /\ status \in [Projects -> Statuses \cup {"NONE"}]
    /\ fails \in 0..MaxFailures
    /\ creating \in SUBSET Projects
    /\ loading \in SUBSET creating
    /\ ids \in SUBSET Projects
    /\ view \in {Dashboard, CreateForm} \cup {Detail(p) : p \in Projects}
    /\ shown \in Statuses \cup {"NONE"}
    /\ error \in BOOLEAN
    /\ sent \in 0..MaxRequests
    /\ answers \in SUBSET (Statuses \cup {"error"})
    /\ list \in SUBSET (Projects \X Statuses)
    /\ runs \in [Calls -> [todo : SUBSET Projects, got : SUBSET (Projects \X Statuses),
                           mounted : BOOLEAN, active : BOOLEAN]]
    /\ errors \in 0..MaxErrors
    /\ refused \in SUBSET Projects
    /\ view # Dashboard => list = {} /\ \A c \in Calls : ~runs[c].mounted
    /\ view # CreateForm => loading = {}

\* No project is forgotten: the id of a project that was created stays in local
\* storage while no request about it fails, although calls of fetchAll that
\* overlap each other and the form rewrite the list.
NoProjectForgotten ==
    \A p \in Projects :
        status[p] # "NONE" /\ p \notin creating \cup refused => p \in ids

\* The statuses in which the server works and SPECIFICATIONS.md:824 has a page
\* ask for news.  It leaves out the ..._READY statuses, which a page that saw one
\* shows until it is reloaded.
Work == {"CREATED", "SCRIPT_GENERATING", "SCENES_GENERATING", "VOICE_GENERATING",
         "SUBTITLES_GENERATING", "RENDERING"}

\* A page that shows a project at work does not freeze: it comes to show its
\* present status or one at which nothing is at work, and an error that hides
\* the project behind "Project not found" goes away.
PageBehind ==
    \E p \in Projects : OnDetail(p) /\ shown \in Work /\ (error \/ shown # status[p])
PageFollowsWork == PageBehind ~> ~PageBehind

\* A project the dashboard lists at work does not freeze either, whichever of
\* the calls that overlap ends last.  docs/frontend-specs.md:279 has the dashboard
\* ask for news every five seconds whatever it shows; its timer asks only while
\* some project it lists is at work, so a list without one freezes.
ListBehind ==
    \E p \in Projects, st \in Statuses \cap Work :
        view = Dashboard /\ <<p, st>> \in list /\ status[p] # st
ListFollowsWork == ListBehind ~> ~ListBehind
=============================================================================
