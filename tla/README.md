# Pentroid: a verification project in TLA+

Pentroid is a PySide6 desktop application that orchestrates mobile-security
tools.  A user picks a project and a workflow; a worker thread runs the
workflow's plugins one after the other, stores their findings in SQLite and
settles the analysis with a verdict and a risk score; the GUI polls the progress
and, when the job is done, shows the result and writes reports.

All paths below are relative to `src/app/` unless they start with `src/`.

## 1. Inventory

| Component | State it keeps | Operations | Talks to |
| --- | --- | --- | --- |
| Workflow engine `core/workflow/workflow_manager.py`, `error_handler.py` | locals of `_execute` per job | `run_workflow_async`, `_execute` | everything below |
| Plugin runtime `plugins/base.py`, `core/workflow/plugin_manager.py`, `core/schemas.py` | manifest cache, `plugins` table | `discover`, `set_enabled`, `instantiate`, `execute`, `probe_health` | database, plugins |
| Result aggregation `core/workflow/result_aggregator.py` | `findings` table | `persist`, `compute_risk_score` | database, knowledge base |
| Job monitor `core/workflow/job_monitor.py` | `_jobs` under a lock | `register`, `mark_running`, `advance_step`, `finish`, `get` | engine writes, runner reads |
| Task scheduler `core/workflow/task_scheduler.py` | thread pool of 4, `_futures` | `submit`, `is_done`, `result`, `cancel` | engine, background tasks |
| Event bus `core/workflow/event_bus.py` | subscribers | `publish` | no subscriber in the application |
| Analysis runner `gui/controllers/analysis_runner.py` | `_active_jobs`, a `QTimer` | `start`, `_poll` | engine, monitor, database, pages (signals) |
| Background task runner `gui/controllers/background_task_runner.py` | `_pending`, a `QTimer` | `run`, `_poll` | the same pool |
| Analysis pages `gui/pages/projects_page.py`, `workflow_page.py`, `reports_page.py` | `_job_rows`, `_job_id`, rows | slots of the runner's signals | runner, report engine |
| Report engine `core/report_engine.py` | `reports` table, files | `generate` | database, file system |
| Tool manager `core/tool_manager.py` | child processes | `run`, `run_streaming` | plugins, device managers |
| Dependency manager `core/dependency_manager.py` | tool directories | `install`, `uninstall`, `status` | network, file system |
| Devices `core/device/*.py`, `gui/pages/devices_page.py`, `gui/dialogs/setup_wizard_dialog.py` | `devices` table, dialog | `scan_and_sync`, setup wizard, frida-server | adb, task runner |
| Device tool pages `gui/pages/frida_hub_page.py`, `adb_toolkit_page.py`, `network_page.py`, `ios_page.py` | `_jobs`, device combo, what is shown | commands and queries of a device | task runner (signals), adb |
| Tool pages `gui/pages/toolbox_page.py`, `settings_page.py` | buttons, `_pending_installs` | install, status | task runner, dependency manager |
| Plugin Center and PIPELINE card `gui/pages/plugins_page.py`, `workflow_page.py` | boxes, `_health_cache` | rescan, toggle, re-check | plugin manager |
| Plugins `plugins/installed/*` | project workspace, `shared_data` | `run` | tools, earlier steps |
| Views `gui/pages/dashboard_page.py`, `analyses_page.py`, `gui/dialogs/findings_dialog.py`, `search_results_dialog.py`, `core/sarif_export.py` | copies of rows | refresh, triage, search, export | database |

Three kinds of actors run concurrently: the GUI thread (all pages, both
runners), up to four pool threads (workflows and background tasks), and the
operating system, which may kill the process.  They share the SQLite file, the
lock-protected monitor and, for plugins, the project's workspace directory.

What is hard, and what makes each part correct:

* **Engine.**  Four branches of the step loop record, advance, skip or abort in
  their own way; a transaction may fail at any of eight places; a plugin may
  raise, return rubbish, fail after producing findings, or be disabled between
  two steps.  Correct: the row explains every step, the verdict is the one the
  steps deserve, the score covers the stored findings, a finished row is frozen.
* **Engine and runner.**  The poll walks its jobs while workers finish others,
  reads status and score from two places, and stops its own timer.  Correct:
  what is announced is final, nobody is forgotten, nobody is announced twice
  unless a lookup failed.
* **Pages.**  Widgets are replaced while jobs refer to them; one page's refresh
  and another page's job interleave.  Correct: every completed job gets its
  reports and re-enables the button it disabled.
* **Tools, dependencies.**  Timeouts, concurrent installs.  Correct: no lost line,
  no mixed-up installation, every button comes back.
* **Devices.**  A phone may vanish or change between two adb commands; every page
  hears every answer of the one task runner.  Correct: the table says what adb
  said last, READY is true when said, an action goes to the phone the user chose.
* **Plugins.**  What the catalog, the table, Python's module cache and the health
  cache know is brought up to date by different events.  Correct: the PIPELINE card
  foretells the steps, the user's choice survives.  The plugins themselves hand
  data on by dictionary keys and by a workspace that outlives the run.  Correct: a
  step runs exactly when its data is there, and that data is this APK's.
* **Views.**  Each computes its verdict from the rows by code of its own, two of them
  by parsing `error_message`, the dashboard by a dozen queries while workers commit.
  Correct: a clean result is one, and what was read at different moments fits together.

`PROJECT.json` lists every component and every hazard with its source line.

## 2. Modules

```
AnalysisLifecycle          abstract: opened, settled once, announced truthfully
        ^ refinement
AnalysisPages  EXTENDS  AnalysisRunner  EXTENDS  WorkflowEngine
Dashboard      EXTENDS  AnalysisRunner
FindingsTriage  EXTENDS  ResultViews  EXTENDS  RiskScore  EXTENDS  WorkflowEngine

AnalysisPages                   <-  MCPages
Dashboard                       <-  MCDashboard
AnalysisRunner, FindingsTriage  <-  MCWorkflow
FindingsTriage                  <-  WorkflowEngineProofs
AnalysisPages                   <-  AnalysisPagesProofs, which extends the proofs above

BackgroundTasks  <-  ToolInstall     <-  MCTools,       ToolInstallProofs
                 <-  DeviceRegistry  <-  MCDevices,     DeviceRegistryProofs
                 <-  DeviceTools     <-  MCDeviceTools, DeviceToolsProofs
                 <-  PluginCatalog   <-  MCCatalog,     PluginCatalogProofs
                 <-  BackgroundTasksProofs, which the four proofs above extend

AnalysisPipelines  <-  MCPipelines, AnalysisPipelinesProofs
ToolStreaming      <-  MCStreaming, DeviceToolsProofs
```

### WorkflowEngine

One job is one call of `run_workflow_async`; it creates exactly one analysis
row, so the tables are keyed by the job.  `pc[j]` is the place of the thread in
`_execute`, and each action is one transaction or one locked section:

| Action | Code |
| --- | --- |
| `Submit`, `PickUp` | `run_workflow_async`, `TaskScheduler.submit`, a pool thread taking the oldest job |
| `CreateAnalysisRow`, `Register` | `_create_analysis_row`, `JobMonitor.register` and `mark_running` |
| `Instantiate`, `InstantiateFails` | `PluginManager.instantiate` |
| `Execute`, `ExecuteRaises`, `ExecuteMalformed` | `Plugin.execute` returning, raising in `run()`, failing outside its `try`; the last is also a plugin module whose import raises anything but an `ImportError` (`plugin_manager.py:275`) |
| `Persist` | `ResultAggregator.persist` |
| `RecordStepFailure`, `RecordStepSkip`, `AdvanceStep` | the branches of the loop body |
| `ComputeRiskScore`, `FinalizeAnalysis`, `Finish` | after the loop |
| `DatabaseError` | any `session_scope` that rolls back and raises |
| `SetEnabled` | the Plugin Center's toggle |
| `Kill` | the process is killed and started again |

Abstractions: a finding is a key (the triple deduplication compares) and a
severity; the score is the set of rows it was computed from; a line of
`error_message` is a record of the branch that wrote it (`kind`), the step that
branch was in (`step`) and why -- the text of a FAILED line does not name the
step, so `step` is what the model knows about the line and not part of it.
`step_outputs` is the code's own dictionary.  `EngineTypeOK` and `TypeOK` are proved
(section 4) and need no run.  The event bus is left out: nobody
subscribes.  `mark_running` is merged with `register`, because the poller treats
"pending" and "running" alike.

### AnalysisRunner

The GUI thread.  `_poll` is a loop, so it is several actions: `PollBegin` copies
the active set, each job of it is looked at by one of `PollUnfinished`,
`PollFinished` or `PollLookupFails`, and `PollEnd` discards the announced jobs
and stops the timer.  While `polling`, no other slot runs (`GuiIdle`), but the
workers do.  `PollLookupFails` is the `DatabaseError` of `_lookup_risk_score`: it
leaves `_poll` before `finished_jobs` is discarded.  `Close` is the end of the
event loop; pool threads are joined at interpreter exit, so the queue drains.

`finished` and `todo` are the locals of `_poll`; `completed` is a history of the
signals emitted; `open` is the event loop.  The order in which `_poll` visits a
Python set is arbitrary, hence `\E j`.

### AnalysisLifecycle

What the engine promises without steps, threads or polling: an analysis is
opened, settled once with a verdict, and only that verdict is announced.
`AnalysisRunner` implements it with `ledger` read from the `analyses` table and
`told` from the signals (`ImplementsLifecycle`).

### AnalysisPages

The pages that start analyses and live on their signals, composed with the
runner and the engine.  A slot runs to its end on the GUI thread, so it is one
step; the slots of `completed` are part of the step of `_poll` that emits it.

| Action | Code |
| --- | --- |
| `RunStatic`, `RunWorkflow` | `ProjectsPage._on_run_static`, `WorkflowPage._on_run` |
| `WorkBehindPages` | a worker's step; it records the order of new rows, which the LAST RUN cards read |
| `PollsUnfinished`, `PollsFinished`, `LookupFails`, `PollBegins`, `PollEnds` | `_poll` with the pages' slots for `progress` and `completed` |
| `NewProject`, `Show`, `RefreshReports` | `refresh` of each page |
| `DeleteReport` | `ReportsPage._on_delete`: the row, then the file |
| `CloseWindow`, `RestartPages` | leaving the event loop, a new process |

Rows of `ProjectsPage` are Qt objects: `refresh()` calls `deleteLater()` on each
and builds new ones.  `generation` counts the lists built, and `destroyed` is
the newest generation whose objects are gone; `deleteLater` takes effect when
the slot returns to the event loop (`ReturnToEventLoop`), so two jobs announced
by one `_poll` both find their rows alive, while a job announced by a later
`_poll` may not.  `ProjectsPageRaises` is the slot leaving with an exception --
PySide prints it and goes on with the other slots.  A report's row and file
carry the second of their making, `nth` tells apart rows of a job announced
twice.  Every page is assumed to have a project with a target.  Rendering is left
out, and so are failing queries while a page only redraws itself.

### ToolStreaming

One call of `ToolManager.run_streaming`.  Four kinds of actors: the tool and a
child that inherited its pipes (`Write`, `ToolExits`, `ChildExits`), one reader
thread per pipe (`ReadLine`, `ReadEnd`, `ReadFails`), the calling thread, and the
user and clock (`Cancel`, `DeadlinePasses`).  A line is its number in its stream.

| Action | Code |
| --- | --- |
| `CheckCancel`, `CheckDeadline` | the two tests at the head of the loop |
| `GetLine`, `GetEmpty` | `line_queue.get`, the line kept and given to `on_line`, which may raise |
| `CheckOver` | `proc.poll()` and `is_alive()` after an empty `get` |
| `Stop`, `Wait`, `Kill`, `Join` | the `finally` block |
| `Drain` | the loop after it |

`CheckOver` asks three questions in one step: none of the answers ever turns
back, so asking them one by one gives no other outcome.  `Join` changes nothing,
because a reader that is still blocked after two seconds is left alone; `Drain`
then races with it.  A line that is no valid text makes `readline` raise in the
reader (`text=True` decodes strictly); `ReadFails` is that thread's silent end.
Assumed: `on_line` and `should_cancel` return, a killed process dies, and
starting the tool and the threads succeeds.

### BackgroundTasks and ToolInstall

`BackgroundTasks` is `BackgroundTaskRunner` on the pool of `TaskScheduler`: tasks of
the runner and analyses wait in one FIFO queue for a thread; `_poll` walks a copy
of `_pending` (`PollBegin`, then `PollSkip` or `PollAnswer` per job, then `PollEnd`)
while the threads go on.  `handed` and `answers` are histories.

`ToolInstall` puts `DependencyManager.install` on it, for one tool -- installs of
different tools share no file -- which is any of five kinds: a zip, a jar or an .xz
from GitHub, the vendor's zip, a virtualenv.

| Action | Code |
| --- | --- |
| `OnInstall`, `RefreshStatus`, `AnswerPage` | `_on_install`, `refresh` and the slots of the Toolbox, Dependency Manager and Settings pages |
| `Query`, `Open`, `Download` | asking for the release, `open(dest_path, "wb")`, the chunks |
| `Hash`, `Verify`, `Record` | `_verify_or_record_checksum` |
| `Extract` (`Place`, `Unpack`) | `_extract_or_place`, by what the archive holds at that moment |
| `CreateVenv`, `PipInstall` | `_install_pip_venv` |
| `WriteMetadata`, `ReadStatus` | the end of `install`, `status_all` |

A file is told from its name, because two installs open, truncate, hash, move and
unlink the same name, and a handle goes on writing to a file that has been moved.
A download is two halves, so a file may be empty, torn, mixed from two releases or
whole.  One extraction is one step; a torn archive fails before or after the binary
has been written.  `failures` bounds failing requests and subprocesses, which may
strike at every request and subprocess; local file operations do not fail.

### RiskScore, ResultViews, FindingsTriage

What the user is told of an analysis, as operators over the engine's rows.
`RiskScore` is `compute_risk_score` in exact fractions: `Score` sorts the weights,
halves them one by one, rounds to tenths with ties to even and caps.  `ResultViews`
has one operator per view: `Card` (LAST RUN), `Detail` and `Line` (All Analyses),
`LoadAnalysisData` (the report) and `BuildSarif`.  The report reads its rows
`order_by(Finding.severity)`, and the column holds names, so they come by the alphabet and
within a name as they were inserted (`Queried`, `ByName`).  `Sorted`, a stable sort by rank,
puts them right, and a SARIF rule is made from the first finding of its category.  All three
orders are `InOrder` of a set and the pairs that say which member comes before which.  The
formats that print the report data as it is are left out.
`FindingsTriage` is the findings dialog and the search: a `dialog` is the
table, the dialog's copy `_all_findings`, the "Hide reviewed" box and the cards; the
dialog is modal, so its sessions of up to `MaxEvents` events are computed as a set
(`Sessions`) for each outcome of an analysis.  A search reads any `OverFetch` of the
matching rows, since its query has no order.

The properties of these modules are judged in the state in which the row has just
got its verdict (`JustFinalized`); `FinalRowFrozen` says that it keeps it.

### Dashboard

`DashboardPage.refresh` beside the runner and the engine.  The slot is one for the GUI thread
but not for the database: sqlite3 opens no transaction for a SELECT, so each query sees what
is committed at that moment, and the activity chart opens a session of its own.

| Action | Code (`gui/pages/dashboard_page.py`) |
| --- | --- |
| `Refresh` | the start of `refresh`: RECENT ANALYSES, `order_by(created_at.desc()).limit(5)` |
| `CountAnalyses`, `ReadSeverities`, `ReadCategories` | the counts of the top bar and the donut |
| `ReadQueue` | ANALYSIS QUEUE: running rows, newest first, `limit(5)` |
| `ReadScores` | the average risk, of `query(Analysis).all()` |
| `ReadActivity` | `_render_activity_chart`, whose end is the end of the slot |
| `RefreshFails` | any query that raises: the page stays as it was |
| `OtherSlot`, `WorkBeside` | the GUI thread between two refreshes; a worker at any time |

`seen` is what the queries have returned so far, `created` the rows by `created_at`.  A row
that the session holds keeps the attributes of its first load: an analysis that
RECENT ANALYSES or the queue read without a score has none in the average either, although
it may have been finalized since (`unscored`).  `Listed` is the newest `ListLimit`
of some rows.  Projects, devices, reports and the log, which no analysis changes, are left out.

### AnalysisPipelines

Inside the boxes of `WorkflowEngine`: the five entries of `WORKFLOW_REGISTRY` and
the nineteen plugins in them.  Content is known by the version of the APK it was
made from.  A plugin that runs in one go is one step (`Run`, `RunFails`, `Skip`); one
that starts a program is two (`BeginTool`, then `ToolSucceeds` or `ToolFails`),
because another analysis of the project or a rebuild of the APK may come in
between.  `Cleared` is what the program removes when it starts, `Written` and
`Partial` what it leaves, `Judged` and `JudgedAfterFailure` how the plugin decides
whether it worked: by exit code (apktool, adb), or by what lies in the workspace
(jadx, quark).  Detection rules are left out, so a finding is what was read: a version, or
`DeviceLog` for `logcat_capture`, which dumps the device's ring buffers without clearing
them and without a filter by process or package (`plugin.py:52-58`).

### DeviceRegistry

`scan_and_sync` as `ListDevices`, `QueryRows` and `SyncRows` (a listing, a query per
serial, a commit), and `DeviceSetupWizard.run` with one action per adb command:
`CheckAdb`, `DetectDevice`, `CheckAuthorized`, `CheckRoot`, `CheckFridaServer`,
`PushFridaServer`, `LaunchFridaServer`, `VerifyFridaServer`, `CheckCertificate`,
`FinalReady`.  Phones are plugged in, unplugged, authorised, rebooted and given
certificates in between.  The Devices page is `OnScan`, `OnConnectWireless`,
`OnRunWizard`, `CloseDialog` and the slots (`ScanAnswered`, `WizardAnswered`).  A
command reads the phone in the step in which it runs.

### DeviceTools

The Frida, ADB, Network and iOS pages are the same machine with different tables:
which buttons there are (`FridaButtons`, ...), and what a slot does with an answer
(`FridaFinished`, ...: whether it settles the status line and whether it asks
again).  `OnClick` and `FollowUp` submit, `Refuse` is a click that lacks a device, a package
or an APK (`Ready`), `Forget`, `Render` and `SettleLine` are the parts of a slot.  The three
dozen adb commands are seven kinds: a query, turning a thing on, turning it off, using it,
reading the properties, a scan, starting the server.

A combo is empty ("No devices") until a phone is known.  `Reload` fills it anew and looks the
selection up again; when it had none, Qt shows row 0 by itself, which is the one selection
that is not the user's.  Two announcements are settled by no answer (`Lingering`): the Frida
Hub's "Querying ..." and the ADB Toolkit's "Reading properties from ..."
(`adb_toolkit_page.py:194`; `_render_props`, 298-309, leaves the line alone).

### PluginCatalog

`PluginManager` with everything that remembers something of a plugin: its directory,
its row, `_manifest_cache`, `sys.modules` (a module once imported is never imported
again), the health cache, the boxes of the Plugin Center and the rows of the
PIPELINE card.  `OnRescan` is `discover` with its transaction per manifest, any of
which may fail and leave the rest undone; `Ends` and `Answer` are an install and the
slot that invalidates the cache, unless the install was asked for by Settings.  `Step` is
`instantiate` and `run`.  A plugin without its tool skips itself, as `health()` foretells; a
`Demanding` one may also skip itself with its tool there (outcome "unmet"), for want of what
an earlier step leaves in `shared_data`, a phone or an API key, of which the default
`health()` knows nothing (`plugins/base.py:105-112`).
Pages that are not visible are redrawn when shown, so they are blank meanwhile.

## 3. Runs

| Run | Shows | Bounds |
| --- | --- | --- |
| `EngineOneJob.cfg` | `StepsAccountedFor`, `VerdictMatchesSteps`, `ScoreCoversFindings`, `FindingsFaithful`, `ScoreIsHonest`, `CardIsHonest`, `SarifPointsAtRules`, `FindingsStayInView`, `FinalRowFrozen` | 1 job, 3 steps, 6 outputs with 3 keys and 5 severities, all plugin behaviours, 1 failing transaction, 1 kill; sessions of 3 events with 3 of the 5 statuses, 1 hit of 2 rows read |
| `RunnerTwoJobs.cfg` | `SignalsAreFinal`, `MonitorNeverAhead`, `UnannouncedJobIsPolled`, `CompletedOnce`, `ImplementsLifecycle`, `DashboardMissesNothing` | 2 jobs on 2 threads, 2 steps, 1 fault, 1 kill, lists of 1 row |
| `PagesSafe.cfg` | `WorkflowPagesFollowJobs`, `BusyRowHasJob`, `ReportHasFile` | 2 jobs, 1 project, 2 pages of one workflow, 1 thread, 1 fault, 1 kill, 2 lists, 2 seconds, 2 failing writes, inserts or unlinks |
| `PagesLive.cfg` | `EveryRunIsAnswered`, `EveryRowSettles` | 2 jobs, 2 pages, 1 thread, no fault, no kill |
| `Pipelines.cfg` | `FindingsAreOfTheApk`, `StepsFollowTheirData` | 2 analyses of any workflow, 2 versions of which 1 asks for permissions, 1 rebuild, 1 missing tool or failing step |
| `PrivacyTrackers.cfg` | violated: `TrackersAreLookedFor` | 1 analysis, nothing missing, nothing fails; see section 5 |
| `Catalog.cfg` | `HealthIsCurrent`, `PipelineForetells`, `ChoiceIsKept` | 2 plugins, 1 of them demanding, 1 install, 1 thread, 1 change from outside or restart, 1 failing transaction or install |
| `Devices.cfg` | `ScansAreFaithful`, `PageFollowsJobs`, `WizardIsRight` | 2 scans or wizards on 2 threads, 2 phones, 1 event, 1 failing command |
| `DeviceTools.cfg` | `JobsAreOutstanding`, `ShownIsTrue`, `TargetIsUsers` | 4 pages, 3 commands on 2 threads, 2 devices of which none or 1 is known at first, 1 event, 1 failing command |
| `Streaming.cfg` | `LinesConserved`, `DeliveredInOrder`, `CleanRunIsComplete`, `NoToolLeftBehind`, `EveryRunEnds` | 2 streams of up to 3 lines, 1 undecodable |
| `ToolsSafe.cfg` | `AnsweredOnce`, `RowFollowsInstall`, `InstallsAreSound` | 3 tasks, 2 threads, Settings and Toolbox, a tool of any kind, 2 releases, 1 failure |
| `ToolsLive.cfg` | `EverythingReturns` | 3 tasks, 1 thread, Toolbox, a tool of any kind, 1 release, 1 failure |

Each module has a type invariant.  That of the engine, the runner and
`run_streaming` has a theorem; the others are conjuncts of a property above
(`WorkflowPagesFollowJobs`, `FindingsAreOfTheApk`, `HealthIsCurrent`,
`ScansAreFaithful`, `JobsAreOutstanding`, `InstallsAreSound`), all proved (section 4).

Why the bounds are enough.  Jobs share only the pool, the plugin flags and the
poll: the engine's own properties are per job, so one job with every behaviour
covers them, and two jobs cover the poll's loop (one announced, one not; one
that makes the lookup fail after the other was announced).  Three steps -- one
required, two optional, the shape of every entry of `WORKFLOW_REGISTRY` -- give a
step before, at and after a failure.  The outputs contain a duplicate inside one
list, a duplicate of an earlier step's finding, a failure with findings and one
without, an empty skip, and every severity.  `DbFaults` bounds failing transactions
and `MaxCrashes` kills; one of each reaches every place they can strike.

`ScoreIsHonest` looks at what an analysis ended with and at that plus any two
findings, so at up to five rows, in which halves and their rounding already occur.
Three events of the dialog are a decision, a toggle and a second decision in any
order.  `MAX_RESULTS_PER_KIND` is 1 and `OverFetch` 2 where the code has 8 and 32: with
three rows there can be more matches than are shown, and more than are read.

`RunnerTwoJobs.cfg` runs the dashboard beside the two jobs (`DashboardSpec`, whose steps are
those of `Spec` and the queries).  With `ListLimit` 1 instead of the code's 5 two rows are
already more than a list shows; a job can be opened, finalized, lost to a fault or left by a
kill between any two queries, and a row that a killed process left `RUNNING` competes with
a live one for the queue's only place.

The pages' runs use workflows of one step, since a page only sees that a job ends
and how.  Two jobs let one complete while the other refers to a row of the list
it replaces; two pages of one workflow are what Android APK and Static Analysis
are.  `BusyRowHasJob` speaks of the time before the first mishap with a report and
`ReportHasFile` of the time before the first failing transaction: section 5 says
what happens afterwards.

A leftover needs one earlier analysis, an overlap one other, a stale decode one
rebuild: `Pipelines.cfg` has those, with the registry in full.  A second trouble would
only repeat what the first does to another step.

The device and catalog runs have two of everything that can be mistaken for one
another: phones, devices, plugins, threads.  `MaxEvents` and `MaxFailures` bound what
happens from outside and what goes wrong; one of each may strike between any two
steps.  In `DeviceTools.cfg` a thing is on at all devices or at none at first and
changes unasked only after its page has been used, and a click leaves enough tasks for the queries its slot will submit, so that a missing
follow-up is never the bound's doing.  One install in `Catalog.cfg` is enough because
installs only meet in the cache, which each of them clears as a whole.

`run_streaming` treats all lines alike, so three per stream give one taken, one
queued and one not yet read at the same time.  `MaxLines` also bounds what a child
can write after the tool is gone; a child that writes faster than `Drain` takes
out would keep the real drain loop busy, which a finite model does not show.

Three tasks give two installs at once and a status check or an analysis beside
them, or three installs one after the other across a release; `ToolsLive.cfg` puts
them in a queue for one thread.  Which tool it is, is chosen in the initial state.

Safety runs use symmetry where no definition tells the elements apart: jobs and
pages (`PagesSafe.cfg`), jobs (`Pipelines.cfg`), tasks (`ToolsSafe.cfg`), tasks and
devices or plugins (`Devices.cfg`, `DeviceTools.cfg`, `Catalog.cfg`).  The liveness runs
use none.

`CHECK_DEADLOCK FALSE` everywhere: once the window is closed and the pool is
drained, or when every job, task and event is used up, the model really stops.

Fairness (`FairSpec`): each worker thread is scheduled by the operating system
and a plugin's tools are bounded by `ToolManager`'s timeouts, so `WF(Work(j))`;
a `QTimer` that is active keeps firing and `_poll` does not block, so
`WF(Poll)`.  Nothing is assumed of the user.  `EveryRunIsAnswered` is checked
without faults: with one, it is false, as section 5 says.  `PagesFairSpec` is
the same fairness for the composed actions.  `StreamingFairSpec` asks only that
the calling thread runs: its waits have timeouts.  The tool may hang, ignore SIGTERM
or leave a child, and the readers may block for ever; that the deadline passes is not
assumed either, but cancellation and the deadline each end the run.
`InstallFairSpec` is fair to the pool's threads, since every request and subprocess
of an install has a timeout and analyses end, and to the runner's timer.

## 4. Proofs

Of the 31 invariants of the passing runs all but two, `ScoreIsHonest` and
`DashboardMissesNothing`, have a theorem here; so have the five of the nine other properties that are not
liveness, the refinement among them.  Each inductive invariant was also checked by TLC, on
the constants of its component's run.

`WorkflowEngineProofs` proves, for every registry, every number of jobs,
workers, faults and kills (only the named assumptions of `WorkflowEngine`):

* `EngineTypeCorrect`: `EngineSpec => []EngineTypeOK`;
* `ScoreCorrect`: `EngineSpec => []ScoreCoversFindings`;
* `MonitorCorrect`: `EngineSpec => []MonitorNeverAhead`;
* `FinalRowsFrozen`: `EngineSpec => FinalRowFrozen`;
* `StepsExplained`, `VerdictCorrect`, `FindingsCorrect`: `EngineSpec =>`
  `[]StepsAccountedFor`, `[]VerdictMatchesSteps`, `[]FindingsFaithful`;
* `CardTellsTheSteps`, `RulesCoverResults`, `FindingsKeptInView`: `EngineSpec =>`
  `[]CardIsHonest`, `[]SarifPointsAtRules`, `[]FindingsStayInView`.

The inductive invariant `EngineInv` adds to the types

* `QueueInv`: queued jobs and no others are in the queue -- `PickUp` must not
  restart a job that already runs;
* `RowInv`: which phases have a row, that only `finish`, `returned` (or `lost`)
  have a settled one, that the local score equals the findings from `finalize`
  on, and that a settled row carries them;
* `MonitorInv`: the monitor's entry exists from `register` on and is final only
  after `Finish`;
* `LoopInv`: in the phases of the loop body the step counter is inside the
  workflow, and at `persist` the step has an output.

`ScoreCoversFindings` alone is not inductive: it says nothing of the interval
between scoring and finalizing, where `Persist` of the same job must be
impossible.  The proof has one lemma per group of conjuncts and, for the step,
a lemma that other jobs' records are untouched (`OthersKept`), so each action is
examined only at the job it concerns.  `FinalRowsFrozen` follows from the same
invariant and a case split on the actions that write `analyses` or `findings`.

`VerdictCorrect` and `FindingsCorrect` speak of finished rows only, while a row is written
over many steps, so `StoryInv` tells the same story of every row that is still being
written:

* `NotesInv`: steps behind the loop's position are explained, those in front of it
  untouched, and the current one gets its line between `persist` and `advance`,
  from what the place says of its output (`Unrecorded`);
* `VerdictInv`: `aborted` is set exactly by a failed required step, which is then the
  current one, and the monitor's progress is the position;
* `FindingsInv`: a key is stored once, every row is one of an output's findings, and
  every key of an output that is not about to be persisted is stored.

Rows the process left open (`raised`, `lost` without a verdict) drop out of the story: a
kill between `persist` and its note leaves a step without a line.  `StepsExplained` speaks of
these too, so `LeftInv` keeps what was so when the thread dropped the row: all steps behind
the one it was at are explained, and that one is or has no line.

What is shown of a finished analysis rests on the story and on `CountedInv`: the notes
and the findings name steps of the workflow and nothing else, and the findings are
finitely many, so that a count of 0 means that there is none.

* The card: the lines of one kind correspond to the steps of that kind (`NotedSteps`,
  from `NotesInv`: a step has one line), which gives both lists of the card, that no
  step is listed twice, and that "Details" is offered just when a step had trouble; a clean card has no line, so the loop was not left early and
  every output it saw was quiet.
* The SARIF log: a strict total order puts a finite set in order (`InOrderSorts`: each
  member goes to the place after those before it).  The rows of an analysis have such an
  order (`QueriedRows`: name of the severity, step, place in the output), so has the report's sort
  (`SortedWorstFirst`) and so have the first findings of each category (`RulesOfRows`).  The
  first finding of a category is therefore its worst, and a worse severity has no lower
  level (`Ranks`).  This takes `SeverityAssumption`: every severity has a rank, a
  weight and a level, as the five of the code have.
* The dialog: `DialogInv` is what holds between any two events -- the copy is the table, the
  cards are the visible findings, and without failed writes show the copy's status.
  `AfterInv` shows that every event keeps it; `Sessions` is a recursive function of
  the number of events, whose existence and whose values are two inductions by the
  least counterexample (`LeastOf`).
* The search: whichever rows the query reads, ranking lists all of them, the worst first
  (`RankedRows`), and showing the first few shows no row better than one left out.

`AnalysisPagesProofs` proves, from the same assumptions, of `Spec`, the runner's
specification:

* `RunnerTypeCorrect`, `SignalsCorrect`, `NoJobForgotten`:
  `[]TypeOK`, `[]SignalsAreFinal`, `[]UnannouncedJobIsPolled`;
* `AnnouncedOnce`: `[]CompletedOnce`, which speaks of the time before the first
  failing transaction;
* `LifecycleImplemented`: `Spec => ImplementsLifecycle`.

The runner's invariant is `RunnerInv == EngineInv /\ PollInv /\ SignalsAreFinal`.  A step of
the runner is, for the engine, one of its own steps, a stutter or a failing
lookup, which only uses up a fault (`EngineSide`, `LookupFailsKept`): `EngineInv`
survives.  `PollInv` says that a job in the local `finished_jobs` was announced,
so `PollEnd` may forget it.  A signal is true when emitted because the monitor is
never ahead of the row (`AnnouncedTruthfully`) and stays true because a finished
row is frozen.  `CompletedOnce` needs `AnnouncedIsHandled`: an announced job that is
still active belongs to the poll under way and is no longer in its `todo` -- which
is exactly what a failing lookup breaks.  For the refinement, `LedgerStep` shows
that creating the row opens, finalizing settles and every other engine step
leaves the ledger alone.

It also proves, for every set of jobs, projects and pages, of `PagesSpec`:

* `PagesUseRunner`: `Spec`, so everything above holds behind the pages;
* `WorkflowPagesFollow`: `[]WorkflowPagesFollowJobs`;
* `BusyRowsAreReleased`: `[]BusyRowHasJob`;
* `ReportsHaveFiles`: `[]ReportHasFile`.

`PagesInv` takes `RunnerInv` and `OnceInv` along and adds where the pages' references
point to (`JobsInv`: an active job was submitted, a job in `creations` has its row, a
job in `_job_rows` is unannounced and of a project) and why two report rows never share
a file (`ReportsInv`: until a lookup fails each is of the first announcement of its
job).  A button is locked only for an active, unannounced job, and `PollEnd` forgets
announced ones only.  A card is right because the announced job's row has its verdict
before the signal that makes the pages read it (`NewestIsUntold`).  A disabled
row loses its job either to a rebuilt list or to an exception, and the exception is of
a destroyed row, which is not the current one, or a mishap.

`BackgroundTasksProofs` proves `TasksAnsweredOnce`, `TasksSpec => []AnsweredOnce`, of
the runner alone: `TasksSpec` lets any task be handed in, run and settle at any
time, between two steps of `_poll` included.  `TasksInv` adds to the property that
the queue holds each queued task once (`QueueInv`: a thread never takes up a task
again that has been answered) and that what `_poll` has yet to look at is
unanswered while what its `done_jobs` holds is answered (`PollInv`: so what it
forgets at the end was answered, and nothing else).  The four modules below extend it:
each shows that its component uses the runner only as `TasksSpec` allows
(`InstallUsesTasks`, `ToolsUseTasks`, `RegistryUsesTasks`, `CatalogUsesTasks`), from which
`InstallsAnsweredOnce`, `CommandsAnsweredOnce` and `ScansAnsweredOnce` follow without
looking at an install, a command or a scan again, and builds its invariant on `TasksInv`.

`ToolInstallProofs` proves `RowsFollow`, `InstallSpec => []RowFollowsInstall`, and
`InstallsSound`, `InstallSpec => []InstallsAreSound`.  `InstallInv` says

* `FramesInv`: where a call is tells how far its future is, whose it is, and which
  release it has;
* `SoloInv`: until two installs have overlapped there is at most one, with what it
  has downloaded so far (`Progress`), and between its steps the directory is in order
  (`DirectoryInv`: an archive is no other's file and never the binary, `.sha256` is a
  whole published release and is what stands at the binary path, the metadata name it
  unless the install is just about to write them);
* `RowsInv`: a row that waits has its install, and on a page without a status job there
  is one of each.

`SoloInstallsAreSound` alone says nothing of the archive an install is about to place,
and `FailureHasCause` nothing of the virtualenv or the hash that will make the next one
fail; `DirectoryInv` is what a finished install must leave to the next.

`DeviceToolsProofs` proves `JobsOutstanding`, `ShownTrue` and `UsersTarget`, `ToolsSpec`
implies `[]JobsAreOutstanding`, `[]ShownIsTrue` and `TargetIsUsers`.  `ToolsInv` adds that
what the runner waits for are commands of pages (`WorkInv`) and, for a page whose device
nobody else has touched (neither `crowded` nor `stale`), `TruthOf`: it has one job at a
time, a query that has ended saw what is there, and what the page shows is true unless a
query is under way or will be submitted when the command is answered.  A follow-up query
always has a device to ask (`FollowUpHasDevice`), because the command it follows had one
(`CommandsHaveDevices`) and a combo that has one keeps one.  `UsersTarget` says that the
selection moves by itself only in an empty combo; that a command goes to the serial selected
when it was given is not part of it, but how `SubmitFor` is written.

The module also proves, for every set of streams and number of lines, of `StreamingSpec`:

* `LinesAreConserved`: `[]LinesConserved`;
* `ToolIsGone`: `[]NoToolLeftBehind`;
* `CleanRunsAreComplete`: `[]CleanRunIsComplete`;
* `DeliveryInOrder`: `[]DeliveredInOrder`.

`StreamingInv` adds to the lines' invariant what a finished reader has seen
(`ReadersInv`) and why the loop was left (`LeavingInv`).  `GetLine` and `Drain` do
the same to the lines (`Taken`): the head of the queue is the next number of its
stream (`HeadIsNext`), because a smaller one would have to be in the queue and
order puts it in front.  A clean run is complete because the loop is left
without a reason only when both readers are finished, so everything written is
read, and `returned` is reached only with an empty queue.

`DeviceRegistryProofs` proves `ScansFaithful`, `PageFollows` and `WizardRight`,
`RegistrySpec` implies `[]ScansAreFaithful`, `[]PageFollowsJobs` and `[]WizardIsRight`.
`RegistryInv` consists of

* `CallInv`: the place of a call tells its future and how many steps it has reported;
* `StoreInv`: until scans overlap one call is between listing and storing, its listing is
  the newest, and what it takes for new rows are none in the table -- so no serial is
  inserted twice;
* `WizardInv`: what a wizard that nobody has disturbed knows of its phone at each of its
  places (`WizardKnows`): its last step is right because each place still holds
  what the steps before it found;
* `PageFollowsJobs`, which is inductive as it stands.

`PluginCatalogProofs` proves `VerdictsCurrent`, `CardForetells` and `ChoiceKept`,
`CatalogSpec` implies `[]HealthIsCurrent`, `PipelineForetells` and `ChoiceIsKept`.
`CatalogInv` adds to `TasksInv` and the types

* `InstallsInv`: the pool runs installs only, and of each it is known what and for whom
  until it is answered;
* `CacheInv`: a cached verdict is the probe's, except of plugins that are `stale` or whose
  install from the Toolbox has ended and is yet to be heard of (`Unheard`).
  `HealthIsCurrent` excuses every install under way, which is not inductive: a verdict
  excused while an install ran could be wrong once it is answered, if the slot did not
  throw all of them away;
* `CardInv`, `PromiseInv`: so is a row of the visible card, and what it foretold of the
  steps still to run;
* `rows = choice`: the stored switch is the user's choice, in every state.

The probe imports modules, so that the verdict of one plugin might change the next one's;
`FillAsks` and `SameVerdict` show that it does not.

`AnalysisPipelinesProofs` proves `FindingsOfTheApk` and `DataIsFollowed`,
`PipelineSpec` implies `[]FindingsAreOfTheApk` and `[]StepsFollowTheirData`.
`PipelineInv` consists of the types and

* `PositionInv`, `RecordedInv`: where a job is in its workflow, and that just the steps
  behind that place are recorded;
* `KeysInv`: a key of `shared_data` is there exactly if the step that sets it succeeded;
* `AloneInv`: a job that overlaps no other has the workspace for itself;
* `VersionsInv`: what such a job has read is of its APK or, in `logcat_capture`, the device's
  log, and so is everything it can still come to read (`ReadableOf`) -- `FindingsAreOfTheApk` speaks of what was read and says
  nothing of what lies in the workspace;
* `FollowedInv`: each recorded step followed those it reads from.

That a step is recorded after those it reads from is a fact about five tuples of names:
`Rank` is one order of the nineteen plugins in which every workflow climbs
(`WorkflowsClimb`) and every plugin comes after those it reads from (`ReadsUpstream`).

Assumed are only the named assumptions on constants: sets of pages, tasks and releases are
told apart, `None` is none of them, bounds are natural numbers, severities are among the
five.

Proof attempts that failed for a good reason changed the models.  Three `CASE` expressions
(`FridaInstrumentation`, `Score`, `RiskLevel`) had guards that overlap, of which TLA+, unlike
TLC, may take either; they are nested conditions now.  The sorts of `ResultViews` were written
for sequences, of which nothing could be proved; `InOrder` says what they yield.

Not proved, and why:

* liveness (`EveryRunIsAnswered`, `EveryRowSettles`, `EveryRunEnds`,
  `EverythingReturns`) and anything with `ENABLED`: out of TLAPS's reach;
* what a fold or a filter computes for every input -- the sum of `ScoreIsHonest` with
  its rounding -- needs induction over data, for which no installed prover can use the
  library's theorems;
* `DashboardMissesNothing`: model-checked only.

## 5. What was found

One run is expected to fail:

* **The privacy analysis never looks for trackers.**  `privacy_analysis_default`
  (`core/workflow/workflow_manager.py:107-118`) has `tracker_detection` but not
  `jadx_decompile`, the only plugin that sets the `jadx_output_dir` it needs
  (`plugins/installed/tracker_detection/plugin.py:31`).  The step is skipped every
  time, while its PIPELINE row says READY and the page
  (`gui/pages/workflow_page.py:544-545`) speaks of "third-party tracking SDKs"
  (`PrivacyTrackers.cfg`; `StepsFollowTheirData` holds all the same, as the skip is
  what the missing data calls for).

The rest of this section has no run: it is what writing the models from the code
showed, mostly where a property had to be weakened.

*Engine, runner and plugins*

* A plugin that returns nothing escapes `execute()`: `plugins/base.py:152` assigns
  `output.duration` outside the `try`, and the `AttributeError` leaves the loop, the
  job and the row `RUNNING`.  The docstring promises "a hard boundary"
  (`ExecuteMalformed`).
* A disabled plugin is recorded as a failed step, which aborts the workflow when the
  step is required; `gui/pages/plugins_page.py:10-12` and `77-78` speak of a skipped
  step.  `StepsAccountedFor` asks only that the line says so, of whichever kind it is.
  Its PIPELINE row still says READY (`InstantiateFails`, `PipelineForetells`).
* READY promises that a step loads and finds its tool, no more: `tracker_detection` and
  `manifest_analysis` skip themselves for want of `shared_data` while `health()` is
  HEALTHY (`plugins/base.py:105-112`), as in the finding above (`HowItEnds`).
* A plugin module that raises a `SyntaxError` when imported leaves the loop like a plugin
  that returns nothing: `plugin_manager.py:275` catches `ImportError` and `AttributeError`.
* A job whose transaction fails, or that was running when the process was killed,
  keeps its `RUNNING` row for ever: nothing in `_execute` catches `DatabaseError` and
  nothing at startup looks for such rows.  A failing score lookup makes the runner
  announce, one tick later, jobs it has already announced.
* The plugin cache is never pruned: a removed plugin stays listed until the next
  start, whatever `plugin_manager.py:185-187` says of "missing".  A discovery that
  fails at startup leaves a manager that knows some of the plugins.
* Installs from Settings and failed installs do not invalidate the health cache
  (`gui/pages/workflow_page.py:60`); a `set_enabled` that fails leaves the box toggled.

*Pipelines*

* `logcat_capture` stores what it finds in the log of the whole device as findings of the
  APK: `logcat -v brief` is neither cleared before the run nor filtered by process or
  package (`plugins/installed/logcat_capture/plugin.py:52-58`, `68-95`), where its manifest
  says "while the app runs" and `gui/pages/workflow_page.py:535` "during the session".
  `FindingsAreOfTheApk` names that source apart (`DeviceLog`).
* jadx and quark are judged by what lies in the workspace, so an earlier build's
  sources or report pass for this run's when the tool fails; jadx never removes
  classes the new build no longer has; frida may spawn an older installed build.
  `FindingsAreOfTheApk` excludes these, and overlapping analyses of one project,
  which share the workspace.
* Without adb, the steps that need it FAIL, where `src/README.md:147-149` says that
  missing tools are skipped; `mitre_attack_mapping` skips an app that requests no
  permission with the reason that the manifest step "was skipped or failed";
  `extracted_iocs` is read by nobody.

*Pages and reports*

* A rebuilt project list loses reports.  `ProjectsPage.refresh()` deletes the rows
  `_job_rows` refers to; when such a row's job completes, `row.set_done`
  (`gui/pages/projects_page.py:176`) raises before reports are written, where
  `src/README.md:607` promises HTML and SARIF (`ProjectsPageRaises`).
* Two report rows may share one file: a job announced twice within a second gets the
  same name twice (`core/report_engine.py:64`), and deleting one row removes the file
  of the other, where `gui/pages/reports_page.py:7-8` says never one without the other.
* `ProjectsPage` reports every completed run, whichever page started it
  (`src/README.md:257-259` says otherwise; `ProjectsPageCompletes`).
* `src/README.md:621` and `core/sarif_export.py:23` say that each `finding_key` becomes
  a SARIF rule, but neither the row nor the report data has one: a rule is a
  category, whose kinds of findings share the name and help of the worst.
* The LAST RUN card calls a run without findings clean while it is still running, or
  was left running by a crash (`gui/pages/workflow_page.py:471-475`), and its
  "Finished" is the time of creation.  All Analyses explains a result without findings
  by its skipped steps only, not by its failed ones, though
  `gui/pages/analyses_page.py:6-10` promises why.
* The dashboard's queue keeps the rows of dead jobs; as the newest come first, those of a
  killed process give way to a running analysis (`QueueShowsTheLiving`), but one whose
  thread died of a failed transaction may be newer and take its place.  Without data the
  top bar says "Low Risk" where the dashboard says "No data yet"; counts include findings
  triaged as false positives.  A report with medium findings only calls them "informational
  or low impact".
* A card whose status could not be stored keeps showing it; a search hit that was
  triaged away opens a dialog that hides it; with more matches than the search reads,
  the worst may be missing (`SearchLeadsWithWorst`).

*Tools and devices*

* A byte that cannot be decoded silences a stream: the reader dies, the rest is lost,
  and the result looks like a clean run, where `core/tool_manager.py:19-21` says output
  is "never silently discarded" (`ReadFails`).  A line queued between the empty `get`
  and the test that ends the loop reaches the result but never `on_line` (`Drain`).
* A tool cannot be updated: the recorded hash belongs to the tool, not to the
  release, so after a new one every reinstall is a mismatch
  (`core/dependency_manager.py:553`; `36-41` says "of that exact version").  Two installs
  of one tool that overlap may install what was never verified; a half-made
  virtualenv makes every retry fail.
* Two scans at once may insert one serial twice, and the second fails; an unplugged
  phone keeps its last status.  A wizard whose phone has gone examines the first one
  listed (`core/device/setup_wizard.py:105`), and its result may be shown in a dialog
  opened since for another phone (`gui/pages/devices_page.py:150`).  Without ADB the
  wizard raises, where `src/tests/test_setup_wizard.py:98-108` expects a failed step.
* `_on_failed` of the Frida page reports the failures of every page; its "Querying ..."
  and the ADB page's "Reading properties from ..." are never taken back, and its rows stay those of the device selected before.  The
  package list of the ADB page outlives a change of device, so its actions go to
  the new one (`gui/pages/adb_toolkit_page.py:70`: "Pick the target for every action
  on this page").  An APK installed there is not followed by a new listing.
* iOS: a failing listing is reported as "No iOS devices found"; the assessment shows
  a field `jailbroken` that the result does not have.

## 6. Not modelled, and the plan

Next, in this order:

1. The project and device combos of the workflow pages, wireless pairing, the
   upgrade of an older database schema.
2. A proof of `DashboardMissesNothing`: the engine's invariants, and that `created` holds
   each row once.

Left out for good: layout, styling and texts, pattern tables and the parsing of tool
output (no state), the knowledge base (a constant table), the event bus (no
subscriber), the log and utility pages and the New Project dialog (a log tail,
hashing a text, one insert), queries of iOS tools that nothing in `app/` calls.
