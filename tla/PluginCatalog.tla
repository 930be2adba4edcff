--------------------------- MODULE PluginCatalog ----------------------------
(***************************************************************************)
(* PluginManager's catalog and what the pages make of it: manifests on     *)
(* disk, the plugins table, the modules Python has imported, the cached    *)
(* verdicts of the health probe, the Plugin Center, the PIPELINE card of a *)
(* workflow page, and the installs that change the verdicts.  A plugin     *)
(* stands for the tool it wraps, too.                                      *)
(***************************************************************************)
EXTENDS BackgroundTasks

CONSTANTS
    Plugin,         \* directories below plugins/installed; all are steps of the workflow
    Demanding,      \* those that need more than their tool: see Step
    MaxEvents,      \* bound: changes of the disk from outside, restarts
    MaxFailures,    \* bound: transactions and installs that fail
    None

ASSUME CatalogAssumption ==
    /\ Demanding \subseteq Plugin
    /\ MaxEvents \in Nat /\ MaxFailures \in Nat
    /\ None \notin Task \cup Plugin /\ None \notin BOOLEAN

VARIABLES
    disk,           \* plugin -> what is in its directory
    tools,          \* plugins whose tool is installed
    events, failures, \* still allowed
    rows,           \* plugins table: plugin -> enabled
    manifests,      \* _manifest_cache
    modules,        \* plugins whose module is in sys.modules
    health,         \* _health_cache: plugin -> verdict
    visible,        \* page in the window
    boxes,          \* Plugin Center, while visible: plugin -> its Enabled box
    pipeline,       \* workflow page, while visible: plugin -> verdict of its step's row
    install,        \* task -> plugin whose tool it installs, page that asked
    todo,           \* steps ahead of the running workflow
    outcome,        \* how the run's last step ended (history)
    foretold,       \* the pipeline when the run was started (history)
    choice,         \* plugin -> what the user last set (history)
    stale,          \* changed with the cache left as it was (history)
    changed,        \* may have changed since the pipeline was rendered (history)
    doubtful        \* of changed, since the rendering the run was started from (history)

outsideVars == <<disk, tools, events, failures>>
managerVars == <<rows, manifests, modules>>
pageVars == <<visible, boxes, pipeline>>
runVars == <<todo, outcome, foretold, doubtful>>
catalogVars == <<taskVars, outsideVars, managerVars, health, pageVars, install, runVars,
                 choice, stale, changed>>

\* unreadable: no manifest.json, or not a usable one.  broken: a good manifest, and
\* a module that does not import or a class that cannot be constructed.
Content == {"absent", "unreadable", "broken", "good"}
Verdict == {"healthy", "unavailable"}
PluginRow == BOOLEAN   \* its enabled column
Readable == {p \in Plugin : disk[p] \in {"broken", "good"}}
Importable(p) == p \in modules \/ disk[p] \in {"unreadable", "good"}
Outstanding == {p \in Plugin : \E t \in pending : install[t].plugin = p /\ answers[t] = <<>>}

\* Mutant: a disabled plugin is not probed.
ProbeEnabled(known, p) ==
    IF p \in known /\ rows[p] = TRUE /\ Importable(p) /\ p \in tools THEN "healthy" ELSE "unavailable"

\* probe_health, when the manifests known are these.
Probe(known, p) ==
    IF p \in known /\ Importable(p) /\ p \in tools THEN "healthy" ELSE "unavailable"

\* probe_health_cached for each of some plugins; the probe imports the module.
Filled(cache, known, some) ==
    [p \in Plugin |-> IF p \in some /\ cache[p] = None THEN Probe(known, p) ELSE cache[p]]
Fill(cache, known, some) ==
    /\ health' = Filled(cache, known, some)
    /\ modules' = modules \cup {p \in some \cap known : cache[p] = None /\ Importable(p)}

\* catalog(): a box for each manifest known, locked for a row that has none.
Boxes(known, registered) == [p \in Plugin |-> IF p \in known THEN registered[p] ELSE None]

\* Mutant: a plugin found again is enabled again.
UpsertEnabled(some) == [p \in Plugin |-> IF p \in some THEN TRUE ELSE rows[p]]

Upsert(some) == [p \in Plugin |-> IF p \in some /\ rows[p] = None THEN TRUE ELSE rows[p]]

NoInstall == [plugin |-> None, page |-> None]
Blank == [p \in Plugin |-> None]

CatalogInit ==
    /\ TasksInit
    /\ disk \in [Plugin -> {"absent", "good"}] /\ tools = {}
    /\ events = MaxEvents /\ failures = MaxFailures
    /\ manifests = Readable
    /\ \E enabled \in {TRUE, FALSE}, known \in {{}, Plugin} :   \* by an earlier process
          rows = [p \in Plugin |-> IF p \in known THEN enabled
                                  ELSE IF p \in Readable THEN TRUE ELSE None]
    /\ modules = {p \in Readable : disk[p] = "good"}
    /\ health = [p \in Plugin |-> "unavailable"]
    /\ visible = "tools" /\ boxes = Blank /\ pipeline = Blank
    /\ install = [t \in Task |-> NoInstall]
    /\ todo = {} /\ outcome = None /\ foretold = Blank /\ choice = rows
    /\ stale = {} /\ changed = {} /\ doubtful = {}

-----------------------------------------------------------------------------
\* The pages.  BasePage.showEvent refreshes a page whenever it is shown, so a page
\* is blank here while it is not.
RenderPipeline(cache) ==
    /\ Fill(cache, manifests, Plugin)
    /\ pipeline' = health' /\ boxes' = Blank
    /\ changed' = stale' \cup Outstanding

ShowPipeline ==
    /\ GuiIdle /\ visible # "pipeline" /\ visible' = "pipeline"
    /\ UNCHANGED stale /\ RenderPipeline(health)
    /\ UNCHANGED <<taskVars, outsideVars, rows, manifests, install, runVars, choice>>

ShowCenter ==
    /\ GuiIdle /\ visible # "center" /\ visible' = "center"
    /\ Fill(health, manifests, manifests)
    /\ boxes' = Boxes(manifests, rows) /\ pipeline' = Blank
    /\ changed' = {}
    /\ UNCHANGED <<taskVars, outsideVars, rows, manifests, install, runVars, choice, stale>>

\* Toolbox or Settings.
ShowTools ==
    /\ GuiIdle /\ visible # "tools" /\ visible' = "tools"
    /\ boxes' = Blank /\ pipeline' = Blank /\ changed' = {}
    /\ UNCHANGED <<taskVars, outsideVars, managerVars, health, install, runVars, choice, stale>>

\* Re-check tool availability.
OnRecheck ==
    /\ GuiIdle /\ visible = "pipeline"
    /\ stale' = {} /\ RenderPipeline(Blank)
    /\ UNCHANGED <<taskVars, outsideVars, rows, manifests, visible, install, runVars, choice>>

\* discover, invalidate_health_cache, refresh.  A failing upsert leaves the slot:
\* the manifests before it are in, the cache stays.
OnRescan ==
    /\ GuiIdle /\ visible = "center"
    /\ \/ /\ manifests' = manifests \cup Readable
          /\ rows' = Upsert(Readable)
          /\ Fill(Blank, manifests', manifests')
          /\ boxes' = Boxes(manifests', rows')
          /\ stale' = {} /\ UNCHANGED failures
       \/ /\ failures > 0 /\ failures' = failures - 1
          /\ \E some \in SUBSET Readable :
                /\ some # Readable
                /\ manifests' = manifests \cup some /\ rows' = Upsert(some)
                /\ stale' = stale \cup (some \ manifests)
          /\ UNCHANGED <<modules, health, boxes>>
    /\ choice' = [p \in Plugin |-> IF choice[p] = None THEN rows'[p] ELSE choice[p]]
    /\ doubtful' = IF todo = {} THEN {} ELSE doubtful \cup (manifests' \ manifests)
    /\ UNCHANGED <<taskVars, disk, tools, events, visible, pipeline, install, todo, outcome, foretold, changed>>

\* The box has been toggled already when the slot runs.
OnToggle(p) ==
    /\ GuiIdle /\ visible = "center"
    /\ boxes[p] # None /\ boxes' = [boxes EXCEPT ![p] = ~@]
    /\ \/ /\ rows' = [rows EXCEPT ![p] = boxes'[p]]
          /\ choice' = [choice EXCEPT ![p] = boxes'[p]]
          /\ UNCHANGED failures
       \/ failures > 0 /\ failures' = failures - 1 /\ UNCHANGED <<rows, choice>>
    /\ UNCHANGED <<taskVars, disk, tools, events, manifests, modules, health, visible, pipeline,
                   install, runVars, stale, changed>>

-----------------------------------------------------------------------------
\* Toolbox and Settings install tools; a row's button is locked until its answer.
OnInstall(t, p) ==
    /\ GuiIdle /\ visible = "tools" /\ Run(t)
    /\ \E page \in {"toolbox", "settings"} :
          /\ ~\E x \in pending : install[x] = [plugin |-> p, page |-> page]
          /\ install' = [install EXCEPT ![t] = [plugin |-> p, page |-> page]]
    /\ UNCHANGED <<outsideVars, managerVars, health, pageVars, runVars, choice, stale, changed>>

Begin(t) ==
    /\ TakeUp(t)
    /\ UNCHANGED <<outsideVars, managerVars, health, pageVars, install, runVars, choice, stale, changed>>

\* What changes is in doubt for rows that have been rendered, and for verdicts that
\* nobody asks for again.
Doubt(p) ==
    /\ changed' = IF visible = "pipeline" THEN changed \cup {p} ELSE changed
    /\ doubtful' = IF todo = {} THEN doubtful ELSE doubtful \cup {p}
Ends(t) ==
    /\ Doubt(install[t].plugin)
    /\ \/ /\ Settle(t, "result")
          /\ tools' = tools \cup {install[t].plugin}
          /\ stale' = IF install[t].page = "settings" THEN stale \cup {install[t].plugin} ELSE stale
          /\ UNCHANGED failures
       \/ /\ Settle(t, "error")          \* with or without what it has unpacked
          /\ failures > 0 /\ failures' = failures - 1
          /\ tools' \in {tools, tools \cup {install[t].plugin}}
          /\ stale' = stale \cup {install[t].plugin}
    /\ UNCHANGED <<disk, events, managerVars, health, pageVars, install, todo, outcome, foretold, choice>>

\* Mutant: the toolbox updates its row only.
AnswerKeepingVerdicts(t) ==
    /\ PollAnswer(t)
    /\ install' = [install EXCEPT ![t] = NoInstall]
    /\ UNCHANGED <<health, stale, outsideVars, managerVars, pageVars, runVars, choice, changed>>

\* _on_task_finished of the Toolbox invalidates the cache, after a success only.
Answer(t) ==
    /\ PollAnswer(t)
    /\ IF install[t].page = "toolbox" /\ future[t] = "result"
       THEN health' = Blank /\ stale' = {}
       ELSE UNCHANGED <<health, stale>>
    /\ install' = [install EXCEPT ![t] = NoInstall]
    /\ UNCHANGED <<outsideVars, managerVars, pageVars, runVars, choice, changed>>

PollRest ==
    /\ PollBegin \/ PollEnd \/ \E t \in Task : PollSkip(t)
    /\ UNCHANGED <<outsideVars, managerVars, health, pageVars, install, runVars, choice, stale, changed>>

-----------------------------------------------------------------------------
\* A workflow started from the page whose rows are on the screen.
OnRun ==
    /\ GuiIdle /\ visible = "pipeline" /\ todo = {}
    /\ todo' = Plugin /\ outcome' = None /\ foretold' = pipeline /\ doubtful' = changed
    /\ UNCHANGED <<taskVars, outsideVars, managerVars, health, pageVars, install, choice,
                   stale, changed>>

Ended(p, how) ==
    /\ p \in todo /\ todo' = todo \ {p} /\ outcome' = how
    /\ IF todo = {p} THEN foretold' = Blank /\ doubtful' = {} ELSE UNCHANGED <<foretold, doubtful>>
    /\ UNCHANGED <<taskVars, outsideVars, rows, manifests, health, pageVars, install, choice,
                   stale, changed>>
Loaded(p) == p \in manifests /\ Importable(p) /\ modules' = modules \cup {p}

\* run() skips itself without its tool, and then for want of what the probe knows
\* nothing of: what an earlier step leaves in shared_data, a phone, an API key.
HowItEnds(p) ==
    IF p \notin tools THEN {"skipped"}
    ELSE IF p \in Demanding THEN {"ran", "unmet"} ELSE {"ran"}

\* instantiate, then run.
Step(p) ==
    \/ p \in manifests /\ rows[p] = FALSE /\ Ended(p, "disabled") /\ UNCHANGED modules
    \/ /\ ~(p \in manifests /\ (rows[p] = FALSE \/ Importable(p)))
       /\ Ended(p, "failed") /\ UNCHANGED modules
    \/ rows[p] = TRUE /\ Loaded(p) /\ \E how \in HowItEnds(p) : Ended(p, how)

-----------------------------------------------------------------------------
\* From outside: the directory of a plugin, or its tool.
DiskChanges(p) ==
    /\ events > 0 /\ events' = events - 1
    /\ \/ disk' \in {[disk EXCEPT ![p] = c] : c \in Content \ {disk[p]}} /\ UNCHANGED tools
       \/ tools' = tools \ {p} /\ UNCHANGED disk
    /\ stale' = stale \cup {p} /\ Doubt(p)
    /\ UNCHANGED <<taskVars, failures, managerVars, health, pageVars, install, todo, outcome, foretold, choice>>

\* The window is closed with nothing going on and the program started again: every
\* page is built, and the first to want the manager makes it.  When discover fails
\* then, the manager stays as far as it got.
Restart ==
    /\ GuiIdle /\ pending = {} /\ todo = {}
    /\ events > 0 /\ events' = events - 1
    /\ \/ manifests' = Readable /\ UNCHANGED failures
       \/ failures > 0 /\ failures' = failures - 1 /\ manifests' \in (SUBSET Readable) \ {Readable}
    /\ rows' = Upsert(manifests')
    /\ choice' = [p \in Plugin |-> IF choice[p] = None THEN rows'[p] ELSE choice[p]]
    /\ modules' = {p \in manifests' : disk[p] = "good"}
    /\ health' = [p \in Plugin |-> IF p \in modules' \cap tools THEN "healthy" ELSE "unavailable"]
    /\ visible' = "tools" /\ boxes' = Blank /\ pipeline' = Blank
    /\ stale' = {} /\ changed' = {}
    /\ UNCHANGED <<taskVars, disk, tools, install, runVars>>

-----------------------------------------------------------------------------
CatalogNext ==
    \/ ShowPipeline \/ ShowCenter \/ ShowTools
    \/ OnRecheck \/ OnRescan \/ OnRun \/ PollRest \/ Restart
    \/ \E p \in Plugin : OnToggle(p) \/ Step(p) \/ DiskChanges(p) \/ \E t \in Task : OnInstall(t, p)
    \/ \E t \in Task : Begin(t) \/ Ends(t) \/ Answer(t)

CatalogSpec == CatalogInit /\ [][CatalogNext]_catalogVars

-----------------------------------------------------------------------------
CatalogTypeOK ==
    /\ TasksTypeOK
    /\ disk \in [Plugin -> Content] /\ tools \subseteq Plugin
    /\ events \in 0..MaxEvents /\ failures \in 0..MaxFailures
    /\ rows \in [Plugin -> PluginRow \cup {None}]
    /\ manifests \subseteq {p \in Plugin : rows[p] # None} /\ modules \subseteq manifests
    /\ health \in [Plugin -> Verdict \cup {None}] /\ pipeline \in [Plugin -> Verdict \cup {None}]
    /\ visible \in {"tools", "center", "pipeline"}
    /\ boxes \in [Plugin -> BOOLEAN \cup {None}]
    /\ \A t \in Task : install[t] = NoInstall \/ install[t] \in
          [plugin : Plugin, page : {"toolbox", "settings"}]
    /\ todo \subseteq Plugin /\ foretold \in [Plugin -> Verdict \cup {None}]
    /\ outcome \in {None, "ran", "unmet", "skipped", "failed", "disabled"}
    /\ choice \in [Plugin -> BOOLEAN \cup {None}]
    /\ stale \cup changed \cup doubtful \subseteq Plugin

(***************************************************************************)
(* A cached verdict is what the plugin would answer now, unless its tool   *)
(* has an install to be answered, or something changed that no page        *)
(* invalidates the cache for: an install from Settings, one that failed,   *)
(* the disk.                                                               *)
(***************************************************************************)
HealthIsCurrent ==
    /\ CatalogTypeOK
    /\ \A p \in Plugin \ (stale \cup Outstanding) :
          health[p] # None => health[p] = Probe(manifests, p)

(***************************************************************************)
(* The PIPELINE card keeps its promise, which is no more than this: an     *)
(* enabled step loads and finds its tool if and only if its row said READY *)
(* when the run was started, unless the plugin or its tool changed after   *)
(* the row was drawn, or before it and unnoticed.  A step that needs no    *)
(* more than that then runs; one that reads what an earlier step leaves,   *)
(* or wants a phone or an API key, may still skip itself, because health() *)
(* of such a plugin asks for none of them (StepsFollowTheirData says when  *)
(* its data is there).                                                     *)
(***************************************************************************)
Reached(p) == IF p \in Demanding THEN {"ran", "unmet"} ELSE {"ran"}

PipelineForetells ==
    [][\A p \in (todo \ todo') \ doubtful :
           outcome' = "disabled"
             \/ (outcome' \in Reached(p) <=> foretold[p] = "healthy")]_catalogVars

(***************************************************************************)
(* A plugin the user has disabled stays disabled, and one never touched    *)
(* enabled, through rescans, restarts and a directory that goes and comes  *)
(* back; no step that begins afterwards runs it.                           *)
(***************************************************************************)
ChoiceIsKept ==
    [][/\ rows' = choice'
       /\ \A p \in todo \ todo' : outcome' = "ran" => choice[p] = TRUE]_catalogVars
=============================================================================
