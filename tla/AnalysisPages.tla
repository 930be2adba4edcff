---------------------------- MODULE AnalysisPages ----------------------------
(***************************************************************************)
(* The pages that start analyses and live on their signals, composed with  *)
(* the runner and the engine: ProjectsPage (rows, automatic reports),      *)
(* WorkflowPage (Run button, LAST RUN card), ReportEngine.generate and     *)
(* ReportsPage.                                                            *)
(*                                                                         *)
(* Slots run to their end on the GUI thread, so a slot is one step.  A     *)
(* poll of the runner is several, and what it calls between two returns to *)
(* the event loop sees widgets that deleteLater() has not destroyed yet.   *)
(* Left out: queries that fail while a page only redraws itself, and the   *)
(* Plugin Center's toggle, which AnalysisRunner's runs cover.              *)
(***************************************************************************)
EXTENDS AnalysisRunner

CONSTANTS
    Project,
    Page,            \* the WorkflowPage instances
    ProjectsWorkflow,\* what "Run Static Analysis" of a project row runs
    PageWorkflow,    \* page -> its workflow_name
    MaxRebuilds,     \* bound: list generations the user may ask for
    MaxSecond,       \* bound: the wall clock, in seconds
    MaxMishaps       \* bound: failing writes and reads of the slots

ASSUME PagesAssumption ==
    /\ ProjectsWorkflow \in Workflow /\ PageWorkflow \in [Page -> Workflow]
    /\ MaxRebuilds \in Nat /\ MaxSecond \in Nat /\ MaxMishaps \in Nat
    /\ None \notin Job

VARIABLES
    project_of,   \* job -> the project it analyses
    creations,    \* the jobs in the order of their rows' created_at
    generation,   \* ProjectsPage: how often refresh() built the rows
    destroyed,    \* rows of this generation and older are deleted objects
    job_rows,     \* _job_rows: job -> generation of the row it was started from
    busy,         \* projects whose current row has its Run button disabled
    page_job,     \* WorkflowPage._job_id
    run_enabled,  \* WorkflowPage._run_btn is enabled
    card,         \* LAST RUN: the newest analysis and the status read for it
    reports,      \* table reports
    files,        \* report files on disk
    listed,       \* rows ReportsPage shows
    second,       \* the wall clock
    mishaps       \* failures still allowed

projectsPage == <<generation, destroyed, job_rows, busy>>
workflowPages == <<page_job, run_enabled, card>>
reportVars == <<reports, files, listed, second>>
pageVars == <<project_of, creations, projectsPage, workflowPages, reportVars, mishaps>>
allVars == <<vars, pageVars>>

Format == {"html", "sarif"}
\* A report row, made when its analysis was announced for the nth time.
Report == [job : Job, format : Format, second : Nat, nth : Nat]
File == [job : Job, format : Format, second : Nat]
FileOf(r) == [job |-> r.job, format |-> r.format, second |-> r.second]

PagesInit ==
    /\ Init
    /\ project_of = [j \in Job |-> None]
    /\ creations = <<>>
    /\ generation = 1 /\ destroyed = 0
    /\ job_rows = [j \in Job |-> None]
    /\ busy = {}
    /\ page_job = [pg \in Page |-> None]
    /\ run_enabled = [pg \in Page |-> TRUE]
    /\ card = [pg \in Page |-> None]
    /\ reports = {} /\ files = {} /\ listed = {}
    /\ second = 0 /\ mishaps = MaxMishaps

-----------------------------------------------------------------------------
\* _reload_result: the newest analysis of the page's workflow, as it is now.
Newest(pg) ==
    LET mine == {i \in DOMAIN creations : workflow[creations[i]] = PageWorkflow[pg]}
    IN  IF mine = {} THEN None
        ELSE LET j == creations[CHOOSE i \in mine : \A k \in mine : k <= i]
             IN  [job |-> j, status |-> analyses[j].status]

\* ProjectsPage._on_run_static
RunStatic(j, p) ==
    /\ p \notin busy
    /\ Start(j, ProjectsWorkflow)
    /\ project_of' = [project_of EXCEPT ![j] = p]
    /\ job_rows' = [job_rows EXCEPT ![j] = generation]
    /\ UNCHANGED <<creations, generation, destroyed, busy, workflowPages, reportVars, mishaps>>

\* WorkflowPage._on_run
RunWorkflow(j, pg, p) ==
    /\ run_enabled[pg]
    /\ Start(j, PageWorkflow[pg])
    /\ project_of' = [project_of EXCEPT ![j] = p]
    /\ page_job' = [page_job EXCEPT ![pg] = j]
    /\ run_enabled' = [run_enabled EXCEPT ![pg] = FALSE]
    /\ UNCHANGED <<creations, projectsPage, card, reportVars, mishaps>>

WorkBehindPages(j) ==
    /\ Work(j)
    /\ creations' = IF analyses[j] = None /\ analyses'[j] # None
                    THEN Append(creations, j) ELSE creations
    /\ UNCHANGED <<project_of, projectsPage, workflowPages, reportVars, mishaps>>

-----------------------------------------------------------------------------
HasRowWidget(j) == job_rows[j] # None
RowDestroyed(j) == HasRowWidget(j) /\ job_rows[j] <= destroyed
OnCurrentRow(j) == HasRowWidget(j) /\ job_rows[j] = generation

\* The progress signal.  ProjectsPage._on_progress disables the job's row;
\* on a deleted row set_running raises and nothing changes.
Progress(j) ==
    busy' = IF OnCurrentRow(j) THEN busy \cup {project_of[j]} ELSE busy

\* deleteLater() takes effect when the slot returns to the event loop.
ReturnToEventLoop == destroyed' = generation - 1

PollBegins == PollBegin /\ UNCHANGED pageVars

PollsUnfinished(j) ==
    /\ PollUnfinished(j)
    /\ IF monitor[j] = None THEN UNCHANGED busy ELSE Progress(j)
    /\ UNCHANGED <<project_of, creations, generation, destroyed, job_rows, workflowPages,
                   reportVars, mishaps>>

LookupFails(j) ==
    /\ PollLookupFails(j)
    /\ Progress(j)
    /\ ReturnToEventLoop
    /\ UNCHANGED <<project_of, creations, generation, job_rows, workflowPages, reportVars,
                   mishaps>>

PollEnds ==
    /\ PollEnd
    /\ ReturnToEventLoop
    /\ UNCHANGED <<project_of, creations, generation, job_rows, busy, workflowPages,
                   reportVars, mishaps>>

\* Mutant: the row is inserted before the file is written.
GenerateRowFirst(j, outcome, nth) ==
    /\ files' = files \cup {[job |-> j, format |-> f, second |-> second] :
                              f \in {f \in Format : outcome[f] = "ok"}}
    /\ reports' = reports \cup {[job |-> j, format |-> f, second |-> second, nth |-> nth] :
                                  f \in Format}

\* ReportEngine.generate for each format: the file, whose name carries the
\* second, and then its row.  A failure of one format does not stop the other.
Generate(j, outcome, nth) ==
    /\ files' = files \cup {[job |-> j, format |-> f, second |-> second] :
                              f \in {f \in Format : outcome[f] # "no file"}}
    /\ reports' = reports \cup {[job |-> j, format |-> f, second |-> second, nth |-> nth] :
                                  f \in {f \in Format : outcome[f] = "ok"}}

Outcomes == [Format -> {"ok", "no file", "no row"}]
FailedFormats(outcome) == Cardinality({f \in Format : outcome[f] # "ok"})

\* refresh(): every row is replaced by a new, enabled one.
RebuildRows == generation' = generation + 1 /\ busy' = {}

\* _on_completed with a live row, or none: note on the row, reports, refresh.
ProjectsPageCompletes(j, status) ==
    /\ ~RowDestroyed(j)
    /\ IF status = "completed"
       THEN \E outcome \in Outcomes :
              /\ FailedFormats(outcome) <= mishaps
              /\ mishaps' = mishaps - FailedFormats(outcome)
              /\ Generate(j, outcome, Len(completed[j]) + 1)
       ELSE UNCHANGED <<reports, files, mishaps>>
    /\ RebuildRows

\* ... or it raises on the way: set_done on a deleted row, or the query for
\* the notes.  No report, no refresh, and no note on the row.
ProjectsPageRaises(j, status) ==
    /\ \/ RowDestroyed(j) /\ UNCHANGED mishaps
       \/ status = "completed" /\ mishaps > 0 /\ mishaps' = mishaps - 1
    /\ Progress(j)
    /\ UNCHANGED <<generation, reports, files>>

\* Mutant: a failed run is not worth a look at the rows.
ProjectsPageOnlySuccess(j, status) ==
    /\ IF status = "completed"
       THEN ProjectsPageCompletes(j, status)
       ELSE Progress(j) /\ UNCHANGED <<generation, reports, files, mishaps>>
    /\ job_rows' = [job_rows EXCEPT ![j] = None]

ProjectsPageOnCompleted(j, status) ==
    /\ ProjectsPageCompletes(j, status) \/ ProjectsPageRaises(j, status)
    /\ job_rows' = [job_rows EXCEPT ![j] = None]

\* Mutant: whoever's job completes, the button is enabled again.
WorkflowPagesUnlockAll(j) ==
    /\ page_job' = [pg \in Page |-> IF page_job[pg] = j THEN None ELSE page_job[pg]]
    /\ run_enabled' = [pg \in Page |-> TRUE]
    /\ card' = [pg \in Page |-> Newest(pg)]

\* Mutant: only a successful run unlocks its page.
WorkflowPagesKeepFailed(j) ==
    LET mine == [pg \in Page |-> page_job[pg] = j /\ monitor[j].status = "completed"] IN
    /\ page_job' = [pg \in Page |-> IF mine[pg] THEN None ELSE page_job[pg]]
    /\ run_enabled' = [pg \in Page |-> mine[pg] \/ run_enabled[pg]]
    /\ card' = [pg \in Page |-> Newest(pg)]

\* WorkflowPage._on_completed in every page: the page that started the job
\* unlocks its button, and all of them read their last run again.
WorkflowPagesOnCompleted(j) ==
    /\ page_job' = [pg \in Page |-> IF page_job[pg] = j THEN None ELSE page_job[pg]]
    /\ run_enabled' = [pg \in Page |-> page_job[pg] = j \/ run_enabled[pg]]
    /\ card' = [pg \in Page |-> Newest(pg)]

PollsFinished(j) ==
    /\ PollFinished(j)
    /\ ProjectsPageOnCompleted(j, monitor[j].status)
    /\ WorkflowPagesOnCompleted(j)
    /\ UNCHANGED <<project_of, creations, destroyed, listed, second>>

-----------------------------------------------------------------------------
\* "+ New Project" on either page that has it ends in ProjectsPage.refresh().
NewProject ==
    /\ GuiIdle
    /\ generation < MaxRebuilds
    /\ RebuildRows
    /\ destroyed' = generation
    /\ UNCHANGED <<vars, project_of, creations, job_rows, workflowPages, reportVars, mishaps>>

\* showEvent: refresh(), which sets the button from _job_id.
Show(pg) ==
    /\ GuiIdle
    /\ run_enabled' = [run_enabled EXCEPT ![pg] = page_job[pg] = None]
    /\ card' = [card EXCEPT ![pg] = Newest(pg)]
    /\ UNCHANGED <<vars, project_of, creations, projectsPage, page_job, reportVars, mishaps>>

RefreshReports ==
    /\ GuiIdle
    /\ listed' = reports
    /\ UNCHANGED <<vars, project_of, creations, projectsPage, workflowPages, reports, files,
                   second, mishaps>>

\* ReportsPage._on_delete: the row, then the file if it is there.
DeleteReport(r) ==
    /\ GuiIdle
    /\ r \in listed
    /\ reports' = reports \ {r}
    /\ listed' = reports'
    /\ \/ files' = files \ {FileOf(r)} /\ UNCHANGED mishaps
       \/ FileOf(r) \in files /\ mishaps > 0 /\ mishaps' = mishaps - 1 /\ UNCHANGED files
    /\ UNCHANGED <<vars, project_of, creations, projectsPage, workflowPages, second>>

SecondPasses ==
    /\ second < MaxSecond
    /\ second' = second + 1
    /\ UNCHANGED <<vars, project_of, creations, projectsPage, workflowPages, reports, files,
                   listed, mishaps>>

CloseWindow == Close /\ UNCHANGED pageVars

\* The pages are built again from the database.
RestartPages ==
    /\ KillAndRestart
    /\ generation' = 1 /\ destroyed' = 0
    /\ job_rows' = [j \in Job |-> None]
    /\ busy' = {}
    /\ page_job' = [pg \in Page |-> None]
    /\ run_enabled' = [pg \in Page |-> TRUE]
    /\ card' = [pg \in Page |-> Newest(pg)]
    /\ listed' = reports
    /\ UNCHANGED <<project_of, creations, reports, files, second, mishaps>>

PagePolls ==
    PollBegins \/ PollEnds
      \/ \E j \in Job : PollsUnfinished(j) \/ PollsFinished(j) \/ LookupFails(j)

PagesNext ==
    \/ \E j \in Job, p \in Project :
          RunStatic(j, p) \/ \E pg \in Page : RunWorkflow(j, pg, p)
    \/ \E j \in Job : WorkBehindPages(j)
    \/ PagePolls
    \/ NewProject \/ RefreshReports \/ SecondPasses \/ CloseWindow \/ RestartPages
    \/ \E pg \in Page : Show(pg)
    \/ \E r \in listed : DeleteReport(r)

PagesSpec == PagesInit /\ [][PagesNext]_allVars

\* Fairness as in AnalysisRunner: the worker threads and the poll timer.
PagesFairSpec ==
    /\ PagesSpec
    /\ \A j \in Job : WF_allVars(WorkBehindPages(j))
    /\ WF_allVars(PagePolls)

-----------------------------------------------------------------------------
PagesTypeOK ==
    /\ project_of \in [Job -> Project \cup {None}]
    /\ creations \in Seq(Job)
    /\ generation \in Nat /\ destroyed \in Nat /\ destroyed < generation
    /\ job_rows \in [Job -> Nat \cup {None}]
    /\ busy \subseteq Project
    /\ page_job \in [Page -> Job \cup {None}]
    /\ run_enabled \in [Page -> BOOLEAN]
    /\ card \in [Page -> [job : Job, status : {"running"} \cup Verdict] \cup {None}]
    /\ reports \subseteq Report /\ listed \subseteq Report /\ files \subseteq File
    /\ second \in Nat /\ mishaps \in Nat

(***************************************************************************)
(* A workflow page locks its Run button exactly while the run it started   *)
(* is unannounced: two pages never wait for the same job, the job a page   *)
(* waits for is still polled, and a job announced twice does not unlock    *)
(* the page's next run.                                                    *)
(***************************************************************************)
RunButtonFollowsJob ==
    \A pg \in Page :
        /\ run_enabled[pg] <=> page_job[pg] = None
        /\ page_job[pg] # None =>
              /\ page_job[pg] \in active
              /\ completed[page_job[pg]] = <<>>
              /\ \A other \in Page : page_job[other] = page_job[pg] => other = pg

(***************************************************************************)
(* A project row whose Run button is disabled will be released: a job      *)
(* that was started from this very row is still polled, as long as no      *)
(* query of a slot has failed.                                             *)
(***************************************************************************)
BusyRowHasJob ==
    mishaps = MaxMishaps =>
      \A p \in busy : \E j \in active : OnCurrentRow(j) /\ project_of[j] = p

(***************************************************************************)
(* No LAST RUN card shows an announced analysis as still running, whoever  *)
(* started it and whatever page is visible.                                *)
(***************************************************************************)
CardIsCurrent ==
    \A pg \in Page : card[pg] # None /\ card[pg].status = "running" =>
        completed[card[pg].job] = <<>>

(***************************************************************************)
(* Both widgets of a workflow page follow the jobs, and every reference of *)
(* the pages is of its type.                                               *)
(***************************************************************************)
WorkflowPagesFollowJobs == PagesTypeOK /\ RunButtonFollowsJob /\ CardIsCurrent

(***************************************************************************)
(* Every row of the reports table has its file, whichever of the writes,   *)
(* inserts and unlinks fails, as long as no score lookup has failed and    *)
(* each job is announced once.                                             *)
(***************************************************************************)
RowsHaveFiles == \A r \in reports : FileOf(r) \in files

ReportHasFile == faults = DbFaults => RowsHaveFiles

(***************************************************************************)
(* A page that started a run can start another one: its button comes back, *)
(* as long as transactions succeed and the window stays open.              *)
(***************************************************************************)
PageUnlocks ==
    \A pg \in Page : page_job[pg] # None ~> (page_job[pg] = None \/ ~open)

(***************************************************************************)
(* Nobody waits for ever: every run started from any page is announced, and*)
(* the page that waits for it hears of it.                                 *)
(***************************************************************************)
EveryRunIsAnswered == EveryJobAnnounced /\ PageUnlocks
=============================================================================
